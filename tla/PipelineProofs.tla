----------------------------- MODULE PipelineProofs -----------------------------
(***************************************************************************)
(* The filters, the undistortion map, the window, the grid, the statistics *)
(* and the representations of Pipeline, for every sensor, map, grid and    *)
(* frame, and every program of events in the order of their times with     *)
(* other calls between them.                                               *)
(*                                                                         *)
(* Each object is related to its ghost: a map of times has the newest call *)
(* of each pixel, the counts and the mask are those of the windows that    *)
(* the history falls in, what a container keeps is an end of what it was   *)
(* given, and the statistics count what each pixel was given.              *)
(***************************************************************************)
EXTENDS Pipeline, IterationProofs

-------------------------------------------------------------------------------
(* The map: what the lambda generates, and where an event moves.            *)

Generators == [x : Int, y : Nat, point : {<<>>} \cup (Int \X Int)]
FirstGenerator == [x |-> -1, y |-> 0, point |-> <<>>]
NextGenerator(g) ==
    IF RowEnds(g.x + 1) THEN [x |-> 0, y |-> g.y + 1, point |-> <<0, g.y>>]
    ELSE [x |-> g.x + 1, y |-> g.y, point |-> <<g.x + 1, g.y>>]

\* The lambda is called one point after another.
LEMMA GeneratedSteps ==
    /\ Generated[0] = FirstGenerator
    /\ \A n \in Nat : Generated[n + 1] = NextGenerator(Generated[n])
<1> DEFINE F == [g \in Generators |-> NextGenerator(g)]
           Body(f) == [i \in Nat |-> IF i = 0 THEN FirstGenerator ELSE NextGenerator(f[i - 1])]
<1>1. FirstGenerator \in Generators
  BY DEF FirstGenerator, Generators
<1>2. F \in [Generators -> Generators]
  <2>1. \A g \in Generators : NextGenerator(g) \in Generators
    BY DEF Generators, NextGenerator
  <2> QED BY <2>1
<1>3. PICK f \in [Nat -> Generators] :
        f[0] = FirstGenerator /\ \A n \in Nat : f[n + 1] = F[f[n]]
  <2> HIDE DEF F
  <2> QED BY <1>1, <1>2, Recursion
<1>4. \A i \in Nat : i # 0 => f[i] = NextGenerator(f[i - 1])
  <2> SUFFICES ASSUME NEW i \in Nat, i # 0 PROVE f[i] = NextGenerator(f[i - 1])
    OBVIOUS
  <2>1. i - 1 \in Nat /\ (i - 1) + 1 = i
    OBVIOUS
  <2>2. f[i] = F[f[i - 1]] /\ f[i - 1] \in Generators
    BY <1>3, <2>1
  <2> QED BY <2>2
<1>5. f = Body(f)
  <2>1. \A i \in Nat : f[i] = Body(f)[i]
    BY <1>3, <1>4
  <2> QED BY <1>3, <2>1
<1>6. Generated = CHOOSE h : h = Body(h)
  BY DEF Generated, FirstGenerator, NextGenerator
<1>7. Generated = Body(Generated)
  BY <1>5, <1>6
<1>8. Generated[0] = FirstGenerator
  BY <1>7
<1>9. \A n \in Nat : Generated[n + 1] = NextGenerator(Generated[n])
  <2> SUFFICES ASSUME NEW n \in Nat PROVE Generated[n + 1] = NextGenerator(Generated[n])
    OBVIOUS
  <2>1. n + 1 \in Nat /\ n + 1 # 0 /\ (n + 1) - 1 = n
    OBVIOUS
  <2> HIDE DEF Body
  <2>2. Generated[n + 1] = Body(Generated)[n + 1]
    BY <1>7
  <2> QED BY <2>1, <2>2 DEF Body
<1> QED BY <1>8, <1>9

\* The point that the lambda makes for a place of the map: at the beginning of a
\* row it is that of the row above.
PointFor(q) == IF q[1] = 0 /\ q[2] > 0 THEN <<0, q[2] - 1>> ELSE q

\* The point that is generated for each place, by counting.
LEMMA GeneratedAt ==
    \A y \in Nat : \A x \in 0..MapSize[1] - 1 :
      Generated[y * MapSize[1] + x + 1] =
        [x |-> x, y |-> y, point |-> PointFor(<<x, y>>)]
<1> DEFINE W == MapSize[1]
<1>0. W \in Nat /\ W > 0
  BY MapAssumption
<1> HIDE DEF W
<1> DEFINE At_(x, y) == [x |-> x, y |-> y, point |-> PointFor(<<x, y>>)]
           Row(y) == \A x \in Nat : x < W => Generated[y * W + x + 1] = At_(x, y)
           I == {y \in Nat : Row(y)}
\* A row follows from its first point.
<1>1. ASSUME NEW y \in Nat, Generated[y * W + 1] = At_(0, y) PROVE Row(y)
  <2> DEFINE J == {x \in Nat : x < W => Generated[y * W + x + 1] = At_(x, y)}
  <2>0. y * W \in Nat
    BY <1>0
  <2>1. 0 \in J
    BY <1>1, <2>0
  <2>2. ASSUME NEW x \in Nat, x \in J PROVE x + 1 \in J
    <3> SUFFICES ASSUME x + 1 < W PROVE Generated[y * W + (x + 1) + 1] = At_(x + 1, y)
      BY <2>2
    <3>1. Generated[y * W + x + 1] = At_(x, y)
      BY <1>0, <2>2
    <3>2. y * W + x + 1 \in Nat /\ y * W + (x + 1) + 1 = (y * W + x + 1) + 1
      BY <2>0
    <3>3. Generated[y * W + (x + 1) + 1] = NextGenerator(At_(x, y))
      BY <3>1, <3>2, GeneratedSteps
    <3>4. ~RowEnds(x + 1)
      BY <1>0 DEF RowEnds, W
    <3> QED BY <3>3, <3>4 DEF NextGenerator, PointFor
  <2>3. Nat \subseteq J
    <3> HIDE DEF J
    <3> QED BY <2>1, <2>2, Induction
  <2> QED BY <2>3
<1>2. 0 \in I
  <2>1. Generated[0 + 1] = NextGenerator(FirstGenerator)
    BY GeneratedSteps
  <2>2. ~RowEnds(0)
    BY <1>0 DEF RowEnds, W
  <2>3. NextGenerator(FirstGenerator) = At_(0, 0)
    BY <2>2 DEF NextGenerator, FirstGenerator, PointFor
  <2>4. 0 * W + 1 = 0 + 1
    BY <1>0
  <2> HIDE DEF At_, Row
  <2>5. Row(0)
    BY <1>1, <2>1, <2>3, <2>4
  <2> QED BY <2>5
<1>3. ASSUME NEW y \in Nat, y \in I PROVE y + 1 \in I
  <2> DEFINE k == y * W
  <2>0. k \in Nat /\ (y + 1) * W = k + W
    BY <1>0
  <2>1. W - 1 \in Nat /\ W - 1 < W
    BY <1>0
  <2>2. Generated[k + (W - 1) + 1] = At_(W - 1, y)
    BY <1>3, <2>1
  <2> HIDE DEF k
  <2>3. k + (W - 1) + 1 \in Nat /\ (y + 1) * W + 1 = (k + (W - 1) + 1) + 1
    BY <1>0, <2>0
  <2>4. Generated[(y + 1) * W + 1] = NextGenerator(At_(W - 1, y))
    BY <2>2, <2>3, GeneratedSteps
  <2>5. RowEnds((W - 1) + 1)
    BY <1>0 DEF RowEnds, W
  <2>6. NextGenerator(At_(W - 1, y)) = At_(0, y + 1)
    <3>1. NextGenerator(At_(W - 1, y)) = [x |-> 0, y |-> y + 1, point |-> <<0, y>>]
      BY <2>5 DEF NextGenerator
    <3>2. PointFor(<<0, y + 1>>) = <<0, y>>
      BY DEF PointFor
    <3> QED BY <3>1, <3>2
  <2> HIDE DEF At_, Row
  <2>7. Row(y + 1)
    BY <1>1, <2>4, <2>6
  <2> QED BY <2>7
<1>4. Nat \subseteq I
  <2> HIDE DEF I
  <2> QED BY <1>2, <1>3, Induction
<1>5. ASSUME NEW y \in Nat, NEW x \in 0..W - 1 PROVE Generated[y * W + x + 1] = At_(x, y)
  <2>1. x \in Nat /\ x < W
    BY <1>0
  <2> QED BY <1>4, <2>1
<1> QED BY <1>5 DEF W

\* What the map has at a pixel, then, is what the lens does to its point.
LEMMA MapIsLens ==
    ASSUME NEW q, OnMap(q)
    PROVE  MapAt(q) = Lens(PointFor(q)) /\ MapAt(q) \in Int \X Int
<1>1. q[1] \in 0..MapSize[1] - 1 /\ q[2] \in 0..MapSize[2] - 1 /\ q = <<q[1], q[2]>>
  BY DEF OnMap
<1>2. MapSize[1] \in Nat /\ MapSize[2] \in Nat /\ q[1] \in Nat /\ q[2] \in Nat
  BY <1>1, MapAssumption
<1>3. Generated[q[2] * MapSize[1] + q[1] + 1] =
        [x |-> q[1], y |-> q[2], point |-> PointFor(<<q[1], q[2]>>)]
  BY <1>1, <1>2, GeneratedAt
<1>4. MapAt(q) = Lens(PointFor(q))
  BY <1>1, <1>3 DEF MapAt
<1>5. PointFor(q) \in (0..MapSize[1] - 1) \X (0..MapSize[2] - 1)
  BY <1>1, <1>2 DEF PointFor
<1> QED BY <1>4, <1>5, MapAssumption

Events == [x : Int, y : Int, t : Nat, p : BOOLEAN]

\* operator(): an event moves to what the map has at its pixel.
LEMMA UndistortedEvent ==
    ASSUME NEW e \in Events
    PROVE  /\ Undistorted(e) \in Events
           /\ Undistorted(e).t = e.t /\ Undistorted(e).p = e.p
           /\ OnMap(<<e.x, e.y>>) => Pixel(Undistorted(e)) = MapAt(<<e.x, e.y>>)
           /\ ~OnMap(<<e.x, e.y>>) => Undistorted(e) = e
<1> DEFINE q == <<e.x, e.y>>
           m == MapAt(q)
<1>1. CASE OnMap(q)
  <2>1. m \in Int \X Int
    BY <1>1, MapIsLens
  <2>2. Undistorted(e) = [e EXCEPT !.x = m[1], !.y = m[2]]
    BY <1>1 DEF Undistorted
  <2> HIDE DEF m
  <2>3. /\ Undistorted(e) \in Events /\ Undistorted(e).t = e.t /\ Undistorted(e).p = e.p
        /\ Undistorted(e).x = m[1] /\ Undistorted(e).y = m[2]
    BY <2>1, <2>2 DEF Events
  <2>4. Pixel(Undistorted(e)) = m
    BY <2>1, <2>3 DEF Pixel
  <2> QED BY <1>1, <2>3, <2>4 DEF m
<1>2. CASE ~OnMap(q)
  BY <1>2 DEF Undistorted
<1> QED BY <1>1, <1>2

-------------------------------------------------------------------------------
(* What is invariant.                                                      *)

\* An event in flight is of now, and on the sensor if a filter is asked of it.
FlightInv ==
    /\ program \in Programs /\ now \in Nat /\ stage \in 1..Len(program.chain) + 1
    /\ flight \in {<<>>} \cup {<<e>> : e \in Events}
    /\ flight # <<>> =>
         /\ flight[1].t = now
         /\ ~(Range(program.chain) \subseteq {"undistort"}) => PixelOf(flight[1]) \in Sensor

Calls == [e : Events, rule : Int, passed : BOOLEAN]

\* What a filter heard was on its sensor, and no later than now.
Heard(h) ==
    /\ h \in Seq(Calls)
    /\ \A i \in 1..Len(h) : PixelOf(h[i].e) \in Sensor /\ h[i].e.t <= now

\* A map of times has for each pixel the newest of the calls of h in the set I,
\* or Lowest.
Newest(map, h, I) ==
    /\ map \in [Sensor -> Int]
    /\ \A i \in I : map[PixelOf(h[i].e)] >= h[i].e.t
    /\ \A q \in Sensor : map[q] = Lowest \/ \E i \in I : PixelOf(h[i].e) = q /\ map[q] = h[i].e.t

Filter == [map : [Sensor -> Int], dt : Dts]

BackgroundInv ==
    /\ background \in Filter
    /\ Heard(heard["background"])
    /\ Newest(background.map, heard["background"], 1..Len(heard["background"]))
    /\ BackgroundByHistory

PassedOf(h) == {i \in 1..Len(h) : h[i].passed}

RefractoryInv ==
    /\ refractory \in Filter
    /\ Heard(heard["refractory"])
    /\ Newest(refractory.map, heard["refractory"], PassedOf(heard["refractory"]))
    /\ RefractoryByHistory

HeardInv == heard = [f \in Filters |-> heard[f]]


-------------------------------------------------------------------------------
(* The maps of times.                                                      *)

\* The filters have different names.
LEMMA Distinct == /\ "background" # "refractory" /\ "background" # "hot" /\ "refractory" # "hot"
                  /\ "undistort" \notin Filters
                  /\ Filters = {"background", "refractory", "hot"}
  BY DEF Filters

\* With no calls there are no times.
LEMMA NewestOfNone == ASSUME NEW h PROVE Newest(NoTimes, h, {})
  BY LowestAssumption DEF Newest, NoTimes

\* One more call is heard, of an event on the sensor and of now.
LEMMA HeardAppend ==
    ASSUME NEW h, Heard(h), NEW c \in Calls, PixelOf(c.e) \in Sensor, c.e.t = now, now \in Nat
    PROVE  /\ Heard(Append(h, c))
           /\ Len(Append(h, c)) = Len(h) + 1
           /\ Append(h, c)[Len(h) + 1] = c
           /\ \A i \in 1..Len(h) : Append(h, c)[i] = h[i]
<1> DEFINE g == Append(h, c)
<1>1. /\ h \in Seq(Calls) /\ Len(h) \in Nat
      /\ g \in Seq(Calls) /\ Len(g) = Len(h) + 1 /\ g[Len(h) + 1] = c
      /\ \A i \in 1..Len(h) : g[i] = h[i]
  BY DEF Heard
<1> HIDE DEF g
<1>2. \A i \in 1..Len(g) : PixelOf(g[i].e) \in Sensor /\ g[i].e.t <= now
  <2> SUFFICES ASSUME NEW i \in 1..Len(g) PROVE PixelOf(g[i].e) \in Sensor /\ g[i].e.t <= now
    OBVIOUS
  <2>1. CASE i \in 1..Len(h)
    BY <1>1, <2>1 DEF Heard
  <2>2. CASE i = Len(h) + 1
    BY <1>1, <2>2
  <2> QED BY <1>1, <2>1, <2>2
<1>3. Heard(g)
  BY <1>1, <1>2 DEF Heard
<1> QED BY <1>1, <1>3 DEF g

\* The time of the call recorded at its pixel is the newest there.
LEMMA NewestAppend ==
    ASSUME NEW h, Heard(h), NEW c \in Calls, PixelOf(c.e) \in Sensor, c.e.t = now, now \in Nat,
           NEW map, NEW I \in SUBSET (1..Len(h)), Newest(map, h, I)
    PROVE  /\ Newest([map EXCEPT ![PixelOf(c.e)] = c.e.t], Append(h, c), I \cup {Len(h) + 1})
           /\ Newest(map, Append(h, c), I)
<1> DEFINE g == Append(h, c)
           n == Len(h) + 1
           t == c.e.t
           p == PixelOf(c.e)
           new == [map EXCEPT ![p] = t]
<1>1. /\ g[n] = c /\ \A i \in I : g[i] = h[i]
      /\ p \in Sensor /\ t \in Nat /\ t = now
  BY HeardAppend DEF Calls, Events
<1>2. \A i \in I : h[i].e.t \in Nat /\ h[i].e.t <= t /\ PixelOf(h[i].e) \in Sensor
  <2>1. \A i \in 1..Len(h) : h[i] \in Calls /\ PixelOf(h[i].e) \in Sensor /\ h[i].e.t <= now
    BY DEF Heard
  <2> QED BY <1>1, <2>1 DEF Calls, Events
<1>3. map \in [Sensor -> Int]
  BY DEF Newest
<1> HIDE DEF g, n, t, p
<1>4. /\ new \in [Sensor -> Int] /\ new[p] = t
      /\ \A q \in Sensor : q # p => new[q] = map[q]
  BY <1>1, <1>3
<1> HIDE DEF new
<1>5. g[n].e.t = t /\ PixelOf(g[n].e) = p
  BY <1>1 DEF t, p
<1>6. \A i \in I \cup {n} : new[PixelOf(g[i].e)] >= g[i].e.t
  <2> SUFFICES ASSUME NEW i \in I \cup {n} PROVE new[PixelOf(g[i].e)] >= g[i].e.t
    OBVIOUS
  <2>1. CASE i = n
    BY <1>1, <1>4, <1>5, <2>1
  <2>2. CASE i \in I
    <3>1. g[i] = h[i] /\ h[i].e.t <= t /\ map[PixelOf(h[i].e)] >= h[i].e.t
      BY <1>1, <1>2, <2>2 DEF Newest
    <3> QED BY <1>1, <1>2, <1>4, <2>2, <3>1
  <2> QED BY <2>1, <2>2
<1>7. \A q \in Sensor : \/ new[q] = Lowest
                        \/ \E i \in I \cup {n} : PixelOf(g[i].e) = q /\ new[q] = g[i].e.t
  <2> SUFFICES ASSUME NEW q \in Sensor
               PROVE  \/ new[q] = Lowest
                      \/ \E i \in I \cup {n} : PixelOf(g[i].e) = q /\ new[q] = g[i].e.t
    OBVIOUS
  <2>1. CASE q = p
    BY <1>4, <1>5, <2>1
  <2>2. CASE q # p
    <3>1. new[q] = map[q]
      BY <1>4, <2>2
    <3>2. map[q] = Lowest \/ \E i \in I : PixelOf(h[i].e) = q /\ map[q] = h[i].e.t
      BY DEF Newest
    <3> QED BY <1>1, <3>1, <3>2
  <2> QED BY <2>1, <2>2
<1>8. Newest(new, g, I \cup {n})
  BY <1>4, <1>6, <1>7 DEF Newest
<1>9. Newest(map, g, I)
  BY <1>1 DEF Newest
<1> QED BY <1>8, <1>9 DEF new, g, n, t, p

-------------------------------------------------------------------------------
(* A call of each filter.                                                  *)

\* operator() of the background activity filter keeps its invariant.
LEMMA BackgroundCall ==
    ASSUME BackgroundInv, HeardInv, now \in Nat, NEW e \in Events, e.t = now,
           PixelOf(e) \in Sensor, BackgroundActivity(e), now' = now
    PROVE  BackgroundInv'
<1> DEFINE h == heard["background"]
           n == Len(h)
           m == background.map
           dt == background.dt
           c == [e |-> e, rule |-> dt, passed |-> Correlated(e)]
           g == Append(h, c)
<1>1. h \in Seq(Calls) /\ n \in Nat /\ Heard(h) /\ Newest(m, h, 1..n)
  BY DEF BackgroundInv, Heard
<1>2. dt \in Dts /\ dt \in Int /\ m \in [Sensor -> Int] /\ e.t \in Nat
  BY LowestAssumption DEF BackgroundInv, Filter, Events
<1>3. c \in Calls
  BY <1>2 DEF Calls, Correlated
<1>4. heard'["background"] = g
  BY DEF BackgroundActivity, Hears, HeardInv, Filters
<1>5. background' = [background EXCEPT !.map = [m EXCEPT ![PixelOf(e)] = e.t]]
  BY DEF BackgroundActivity, Recorded
<1>6. background' \in Filter /\ background'.map = [m EXCEPT ![PixelOf(e)] = e.t]
  BY <1>2, <1>5 DEF BackgroundInv, Filter
<1>7. /\ Heard(g) /\ Len(g) = n + 1 /\ g[n + 1] = c
      /\ \A i \in 1..n : g[i] = h[i]
      /\ Newest(background'.map, g, 1..n \cup {n + 1})
  <2>1. c.e = e
    OBVIOUS
  <2> HIDE DEF c, h, m
  <2>2. Heard(g) /\ Len(g) = n + 1 /\ g[n + 1] = c /\ \A i \in 1..n : g[i] = h[i]
    BY <1>1, <1>3, <2>1, HeardAppend
  <2>3. Newest([m EXCEPT ![PixelOf(c.e)] = c.e.t], g, 1..n \cup {n + 1})
    BY <1>1, <1>3, <2>1, NewestAppend
  <2> QED BY <1>6, <2>1, <2>2, <2>3
<1>8. 1..n \cup {n + 1} = 1..Len(g)
  BY <1>1, <1>7
<1>9. Correlated(e) <=> \E i \in 1..n : Near(h[i].e, e) /\ h[i].e.t >= e.t - dt
  <2>1. ASSUME Correlated(e) PROVE \E i \in 1..n : Near(h[i].e, e) /\ h[i].e.t >= e.t - dt
    <3>1. PICK q \in Neighbours(e) : m[q] >= e.t - dt
      BY <2>1 DEF Correlated
    <3>2. q \in Sensor /\ m[q] \in Int /\ m[q] # Lowest
      BY <1>2, <3>1, LowestAssumption DEF Neighbours
    <3>3. PICK i \in 1..n : PixelOf(h[i].e) = q /\ m[q] = h[i].e.t
      BY <1>1, <3>2 DEF Newest
    <3>4. Near(h[i].e, e)
      BY <3>1, <3>3 DEF Near, Neighbours, PixelOf
    <3> QED BY <3>1, <3>3, <3>4
  <2>2. ASSUME NEW i \in 1..n, Near(h[i].e, e), h[i].e.t >= e.t - dt PROVE Correlated(e)
    <3> DEFINE q == PixelOf(h[i].e)
    <3>1. q \in Sensor /\ h[i] \in Calls /\ m[q] >= h[i].e.t
      BY <1>1 DEF Heard, Newest
    <3>2. h[i].e.t \in Nat /\ m[q] \in Int
      BY <1>2, <3>1 DEF Calls, Events
    <3>3. m[q] >= e.t - dt
      BY <1>2, <2>2, <3>1, <3>2
    <3>4. q \in Neighbours(e)
      BY <2>2, <3>1 DEF Neighbours, Near, PixelOf
    <3> QED BY <3>3, <3>4 DEF Correlated
  <2> QED BY <2>1, <2>2
<1>10. BackgroundByHistory'
  <2>1. c.e = e /\ c.rule = dt /\ c.passed = Correlated(e)
    OBVIOUS
  <2> HIDE DEF c, g, h, n
  <2>2. /\ g[n + 1].e = e /\ g[n + 1].rule = dt
        /\ g[n + 1].passed <=> Correlated(e)
    BY <1>7, <2>1
  <2>3. (n + 1) - 1 = n
    BY <1>1
  <2>4. g[n + 1].passed <=> \E i \in 1..(n + 1) - 1 : Near(g[i].e, g[n + 1].e) /\ g[i].e.t >= g[n + 1].e.t - g[n + 1].rule
    BY <1>7, <1>9, <2>2, <2>3
  <2> QED BY <1>4, <1>7, <2>4 DEF BackgroundByHistory, Near, PixelOf
<1> HIDE DEF g
<1>11. Heard(heard["background"])'
  BY <1>4, <1>7 DEF Heard, PixelOf, Sensor
<1>12. Newest(background.map, heard["background"], 1..Len(heard["background"]))'
  BY <1>4, <1>7, <1>8 DEF Newest, PixelOf, Sensor
<1> QED BY <1>6, <1>10, <1>11, <1>12 DEF BackgroundInv, Filter, Sensor

\* operator() of the refractory period filter keeps its invariant.
LEMMA RefractoryCall ==
    ASSUME RefractoryInv, HeardInv, now \in Nat, NEW e \in Events, e.t = now,
           PixelOf(e) \in Sensor, RefractoryPeriod(e), now' = now
    PROVE  RefractoryInv'
<1> DEFINE h == heard["refractory"]
           n == Len(h)
           m == refractory.map
           dt == refractory.dt
           c == [e |-> e, rule |-> dt, passed |-> Idle(e)]
           g == Append(h, c)
           P == PassedOf(h)
<1>1. h \in Seq(Calls) /\ n \in Nat /\ Heard(h) /\ Newest(m, h, P) /\ P \in SUBSET (1..n)
  BY DEF RefractoryInv, Heard, PassedOf
<1>2. dt \in Dts /\ dt \in Int /\ m \in [Sensor -> Int] /\ e.t \in Nat
  BY LowestAssumption DEF RefractoryInv, Filter, Events
<1>3. c \in Calls
  BY <1>2 DEF Calls, Idle
<1>4. heard'["refractory"] = g
  BY DEF RefractoryPeriod, Hears, HeardInv, Filters
<1>5. refractory' = [refractory EXCEPT !.map = Inhibits(e)]
  BY DEF RefractoryPeriod
<1>6. refractory' \in Filter /\ refractory'.map = Inhibits(e)
  BY <1>2, <1>5 DEF RefractoryInv, Filter, Inhibits
<1>7. /\ Heard(g) /\ Len(g) = n + 1 /\ g[n + 1] = c
      /\ \A i \in 1..n : g[i] = h[i]
      /\ Newest([m EXCEPT ![PixelOf(e)] = e.t], g, P \cup {n + 1})
      /\ Newest(m, g, P)
  <2>1. c.e = e
    OBVIOUS
  <2> HIDE DEF c, P
  <2> QED BY <1>1, <1>3, <2>1, HeardAppend, NewestAppend
<1>8. PassedOf(g) = IF Idle(e) THEN P \cup {n + 1} ELSE P
  <2>1. c.passed = Idle(e)
    OBVIOUS
  <2> HIDE DEF c, g
  <2> QED BY <1>1, <1>7, <2>1 DEF PassedOf
<1>9. Newest(refractory'.map, g, PassedOf(g))
  BY <1>6, <1>7, <1>8 DEF Inhibits
<1>10. ~Idle(e) <=> \E i \in 1..n : /\ PixelOf(h[i].e) = PixelOf(e) /\ h[i].passed
                                    /\ e.t - h[i].e.t < dt
  <2> DEFINE q == PixelOf(e)
  <2>0. m[q] \in Int /\ (Idle(e) <=> e.t - m[q] >= dt)
    BY <1>2 DEF Idle
  <2>1. ASSUME ~Idle(e)
        PROVE  \E i \in 1..n : PixelOf(h[i].e) = q /\ h[i].passed /\ e.t - h[i].e.t < dt
    <3>1. m[q] # Lowest
      BY <1>2, <2>0, <2>1, LowestAssumption
    <3>2. PICK i \in P : PixelOf(h[i].e) = q /\ m[q] = h[i].e.t
      BY <1>1, <3>1 DEF Newest
    <3> QED BY <1>2, <2>0, <2>1, <3>2 DEF PassedOf
  <2>2. ASSUME NEW i \in 1..n, PixelOf(h[i].e) = q, h[i].passed, e.t - h[i].e.t < dt
        PROVE  ~Idle(e)
    <3>1. h[i] \in Calls /\ m[q] >= h[i].e.t
      BY <1>1, <2>2 DEF Heard, Newest, PassedOf
    <3>2. h[i].e.t \in Nat
      BY <3>1 DEF Calls, Events
    <3> QED BY <1>2, <2>0, <2>2, <3>1, <3>2
  <2> QED BY <2>1, <2>2
<1>11. RefractoryByHistory'
  <2>1. c.e = e /\ c.rule = dt /\ c.passed = Idle(e)
    OBVIOUS
  <2> HIDE DEF c, g, h, n
  <2>2. /\ g[n + 1].e = e /\ g[n + 1].rule = dt
        /\ g[n + 1].passed <=> Idle(e)
    BY <1>7, <2>1
  <2>3. (n + 1) - 1 = n
    BY <1>1
  <2>4. ~g[n + 1].passed <=> \E i \in 1..(n + 1) - 1 :
                                /\ PixelOf(g[i].e) = PixelOf(g[n + 1].e) /\ g[i].passed
                                /\ g[n + 1].e.t - g[i].e.t < g[n + 1].rule
    BY <1>7, <1>10, <2>2, <2>3
  <2> QED BY <1>4, <1>7, <2>4 DEF RefractoryByHistory, PixelOf
<1> HIDE DEF g
<1>12. Heard(heard["refractory"])'
  BY <1>4, <1>7 DEF Heard, PixelOf, Sensor
<1>13. Newest(refractory.map, heard["refractory"], PassedOf(heard["refractory"]))'
  BY <1>4, <1>9 DEF Newest, PixelOf, Sensor, PassedOf
<1> QED BY <1>6, <1>11, <1>12, <1>13 DEF RefractoryInv, Filter, Sensor

-------------------------------------------------------------------------------
(* The hot pixels: the windows of a history.                               *)

OpenerBody(h, o) ==
    [i \in 1..Len(h) |->
       IF i = 1 \/ h[i].e.t - h[o[i - 1]].e.t >= h[i].rule.window THEN i ELSE o[i - 1]]

Opens(h, i, k) == IF h[i].e.t - h[k].e.t >= h[i].rule.window THEN i ELSE k

\* The openers of one call after another, each with the call it is of.
LEMMA OpenerRecursion ==
    ASSUME NEW h
    PROVE  \E f \in [Nat -> Nat \X Nat] :
             f[0] = <<1, 1>> /\ \A i \in Nat : f[i + 1] = <<f[i][1] + 1, Opens(h, f[i][1] + 1, f[i][2])>>
<1> DEFINE S == Nat \X Nat
           F == [s \in S |-> <<s[1] + 1, Opens(h, s[1] + 1, s[2])>>]
           b == <<1, 1>>
<1>1. b \in S /\ F \in [S -> S]
  BY DEF Opens
<1>2. PICK f \in [Nat -> S] : f[0] = b /\ \A i \in Nat : f[i + 1] = F[f[i]]
  <2> HIDE DEF F, S, b
  <2> QED BY <1>1, Recursion
<1>3. \A i \in Nat : f[i + 1] = <<f[i][1] + 1, Opens(h, f[i][1] + 1, f[i][2])>>
  BY <1>2
<1> QED BY <1>2, <1>3

\* Who opened the window is computed call by call.
LEMMA OpenerSteps ==
    ASSUME NEW h, Len(h) \in Nat
    PROVE  /\ Opener(h) = OpenerBody(h, Opener(h))
           /\ \A i \in 1..Len(h) : Opener(h)[i] \in 1..i
<1> DEFINE n == Len(h)
           step(i, k) == Opens(h, i, k)
<1>1. PICK f \in [Nat -> Nat \X Nat] :
        /\ f[0] = <<1, 1>>
        /\ \A i \in Nat : f[i + 1] = <<f[i][1] + 1, step(f[i][1] + 1, f[i][2])>>
  BY OpenerRecursion, ZenonT(60)
<1> DEFINE I == {i \in Nat : f[i][1] = i + 1}
<1>2. \A i \in Nat : f[i][1] = i + 1
  <2>1. 0 \in I
    BY <1>1
  <2>2. ASSUME NEW i \in Nat, i \in I PROVE i + 1 \in I
    BY <1>1, <2>2
  <2>3. Nat \subseteq I
    <3> HIDE DEF I
    <3> QED BY <2>1, <2>2, Induction
  <2> QED BY <2>3
<1>3. \A i \in Nat : f[i + 1][2] = step(i + 2, f[i][2])
  <2> SUFFICES ASSUME NEW i \in Nat PROVE f[i + 1][2] = step(i + 2, f[i][2])
    OBVIOUS
  <2>1. f[i][1] + 1 = i + 2
    <3>1. f[i][1] = i + 1 /\ (i + 1) + 1 = i + 2
      BY <1>2
    <3> QED BY <3>1
  <2> HIDE DEF step
  <2> QED BY <1>1, <2>1
<1> DEFINE w == [i \in 1..n |-> f[i - 1][2]]
<1>4. w = OpenerBody(h, w)
  <2>1. ASSUME NEW i \in 1..n
        PROVE  w[i] = IF i = 1 \/ h[i].e.t - h[w[i - 1]].e.t >= h[i].rule.window THEN i ELSE w[i - 1]
    <3>1. CASE i = 1
      <4>1. f[i - 1] = <<1, 1>>
        BY <1>1, <3>1
      <4> QED BY <3>1, <4>1
    <3>2. CASE i # 1
      <4> DEFINE k == i - 2
      <4>1. k \in Nat /\ i - 1 = k + 1 /\ k + 2 = i /\ i - 1 \in 1..n /\ (i - 1) - 1 = k
        BY <3>2
      <4> HIDE DEF k
      <4>2. w[i] = f[k + 1][2] /\ w[i - 1] = f[k][2]
        BY <4>1
      <4>3. f[k + 1][2] = step(i, f[k][2])
        BY <1>3, <4>1
      <4> QED BY <3>2, <4>2, <4>3 DEF Opens
    <3> QED BY <3>1, <3>2
  <2> HIDE DEF w
  <2>2. w = [i \in 1..n |-> w[i]]
    BY DEF w
  <2> QED BY <2>1, <2>2 DEF OpenerBody
<1> HIDE DEF w
<1>5. Opener(h) = CHOOSE o : o = OpenerBody(h, o)
  BY DEF Opener, OpenerBody
<1>6. Opener(h) = OpenerBody(h, Opener(h))
  BY <1>4, <1>5, SMTT(20)
<1> DEFINE o == Opener(h)
           J == {i \in Nat : i + 1 <= n => o[i + 1] \in 1..(i + 1)}
<1>7. \A i \in 1..n : o[i] = IF i = 1 \/ h[i].e.t - h[o[i - 1]].e.t >= h[i].rule.window
                               THEN i ELSE o[i - 1]
  BY <1>6 DEF OpenerBody
<1>8. n \in Nat
  OBVIOUS
<1> HIDE DEF o, n
<1>9. 0 \in J
  <2>1. 1 <= n => 1 \in 1..n
    BY <1>8
  <2>2. 1 <= n => o[1] = 1
    BY <1>7, <2>1
  <2>3. 0 + 1 <= n => o[0 + 1] \in 1..(0 + 1)
    BY <2>2
  <2> QED BY <2>3
<1>10. ASSUME NEW i \in Nat, i \in J PROVE i + 1 \in J
  <2> SUFFICES ASSUME (i + 1) + 1 <= n PROVE o[(i + 1) + 1] \in 1..((i + 1) + 1)
    OBVIOUS
  <2>1. o[i + 1] \in 1..(i + 1)
    BY <1>10, <1>8
  <2>2. o[(i + 1) + 1] = (i + 1) + 1 \/ o[(i + 1) + 1] = o[i + 1]
    <3>1. (i + 1) + 1 \in 1..n /\ ((i + 1) + 1) - 1 = i + 1
      BY <1>8
    <3> QED BY <1>7, <3>1
  <2>3. 1..(i + 1) \subseteq 1..((i + 1) + 1) /\ (i + 1) + 1 \in 1..((i + 1) + 1)
    OBVIOUS
  <2> QED BY <2>1, <2>2, <2>3
<1>11. Nat \subseteq J
  <2> HIDE DEF J
  <2> QED BY <1>9, <1>10, Induction
<1>12. \A i \in 1..n : o[i] \in 1..i
  <2> SUFFICES ASSUME NEW i \in 1..n PROVE o[i] \in 1..i
    OBVIOUS
  <2>1. i - 1 \in Nat /\ (i - 1) + 1 = i /\ i <= n
    BY <1>8
  <2>2. i - 1 \in J
    BY <1>11, <2>1
  <2> QED BY <2>1, <2>2
<1> QED BY <1>6, <1>12 DEF o, n

\* A call opens its own window or belongs to the last one, and moves no other.
LEMMA OpenerAppend ==
    ASSUME NEW h, Len(h) \in Nat, NEW g, Len(g) = Len(h) + 1, \A i \in 1..Len(h) : g[i] = h[i]
    PROVE  /\ \A i \in 1..Len(h) : Opener(g)[i] = Opener(h)[i]
           /\ Len(h) = 0 => Opener(g)[1] = 1
           /\ Len(h) > 0 =>
                Opener(g)[Len(h) + 1] =
                  IF g[Len(h) + 1].e.t - h[Opener(h)[Len(h)]].e.t >= g[Len(h) + 1].rule.window
                    THEN Len(h) + 1 ELSE Opener(h)[Len(h)]
<1> DEFINE n == Len(h)
           m == Len(g)
           o == Opener(h)
           u == Opener(g)
<1>0. n \in Nat /\ m = n + 1 /\ \A i \in 1..n : g[i] = h[i]
  OBVIOUS
<1>1. /\ \A i \in 1..n : o[i] = IF i = 1 \/ h[i].e.t - h[o[i - 1]].e.t >= h[i].rule.window
                                  THEN i ELSE o[i - 1]
      /\ \A i \in 1..n : o[i] \in 1..i
  BY OpenerSteps, SMTT(30) DEF OpenerBody
<1>2. \A i \in 1..m : u[i] = IF i = 1 \/ g[i].e.t - g[u[i - 1]].e.t >= g[i].rule.window
                               THEN i ELSE u[i - 1]
  <2>1. m \in Nat
    BY <1>0
  <2>2. u = OpenerBody(g, u)
    BY <2>1, OpenerSteps
  <2> QED BY <2>2 DEF OpenerBody
<1> HIDE DEF n, m, o, u
<1> DEFINE I == {i \in Nat : i + 1 <= n => u[i + 1] = o[i + 1]}
<1>3. 0 \in I
  <2>1. 1 <= n => u[1] = 1 /\ o[1] = 1
    BY <1>0, <1>1, <1>2
  <2> QED BY <2>1
<1>4. ASSUME NEW i \in Nat, i \in I PROVE i + 1 \in I
  <2> SUFFICES ASSUME (i + 1) + 1 <= n PROVE u[(i + 1) + 1] = o[(i + 1) + 1]
    OBVIOUS
  <2> DEFINE k == i + 1
             j == k + 1
  <2>1. u[k] = o[k] /\ k \in 1..n /\ o[k] \in 1..n
    BY <1>0, <1>1, <1>4
  <2>2. j \in 1..n /\ j \in 1..m /\ j - 1 = k /\ j # 1
    BY <1>0
  <2> HIDE DEF j, k
  <2>3. u[j] = IF g[j].e.t - g[u[k]].e.t >= g[j].rule.window THEN j ELSE u[k]
    BY <1>2, <2>2
  <2>4. o[j] = IF h[j].e.t - h[o[k]].e.t >= h[j].rule.window THEN j ELSE o[k]
    BY <1>1, <2>2
  <2>5. g[j] = h[j] /\ g[o[k]] = h[o[k]]
    BY <1>0, <2>1, <2>2
  <2>6. u[j] = o[j]
    BY <2>1, <2>3, <2>4, <2>5
  <2> QED BY <2>6 DEF j, k
<1>5. Nat \subseteq I
  <2> HIDE DEF I
  <2> QED BY <1>3, <1>4, Induction
<1>6. \A i \in 1..n : u[i] = o[i]
  <2> SUFFICES ASSUME NEW i \in 1..n PROVE u[i] = o[i]
    OBVIOUS
  <2>1. i - 1 \in Nat /\ (i - 1) + 1 = i /\ i <= n
    BY <1>0
  <2>2. i - 1 \in I
    BY <1>5, <2>1
  <2> QED BY <2>1, <2>2
<1>7. n = 0 => u[1] = 1
  <2>1. 1 \in 1..m
    BY <1>0
  <2> QED BY <1>2, <2>1
<1>8. n > 0 => u[n + 1] = IF g[n + 1].e.t - h[o[n]].e.t >= g[n + 1].rule.window
                            THEN n + 1 ELSE o[n]
  <2> SUFFICES ASSUME n > 0
               PROVE  u[n + 1] = IF g[n + 1].e.t - h[o[n]].e.t >= g[n + 1].rule.window
                                   THEN n + 1 ELSE o[n]
    OBVIOUS
  <2>1. n + 1 \in 1..m /\ (n + 1) - 1 = n /\ n + 1 # 1 /\ n \in 1..n
    BY <1>0
  <2>2. u[n] = o[n] /\ o[n] \in 1..n /\ g[o[n]] = h[o[n]]
    BY <1>0, <1>1, <1>6, <2>1
  <2>3. u[n + 1] = IF g[n + 1].e.t - g[u[n]].e.t >= g[n + 1].rule.window THEN n + 1 ELSE u[n]
    BY <1>2, <2>1
  <2> QED BY <2>2, <2>3
<1> QED BY <1>6, <1>7, <1>8 DEF n, m, o, u

-------------------------------------------------------------------------------
(* The hot pixels: what the filter keeps of them.                          *)

HotCalls == [e : Events, rule : Criteria, passed : BOOLEAN]

HotHeard(h) ==
    /\ h \in Seq(HotCalls)
    /\ \A i \in 1..Len(h) : PixelOf(h[i].e) \in Sensor

\* How often a pixel fired in the calls of B, and the pixels over a criterion c.
Fired(h, B, q) == Cardinality({i \in B : PixelOf(h[i].e) = q})
MaskOf(h, B, c) ==
    {q \in Sensor : Over(Fired(h, B, q), Cardinality(B), Cardinality({PixelOf(h[i].e) : i \in B}), c)}

\* The window of the last of n calls whose openers are o, and the one before it.
WindowOf(o, n) == IF n = 0 THEN {} ELSE o[n]..n
WindowBefore(o, n) == IF o[n] = 1 THEN {} ELSE o[o[n] - 1]..o[n] - 1

\* The counts are those of the last window, and the mask is that of the one before.
Windowed(h, o, counts, mask, started, start) ==
    LET n == Len(h)
    IN  /\ \A q \in Sensor : counts[q] = Fired(h, WindowOf(o, n), q)
        /\ started <=> n > 0
        /\ n = 0 => mask = {}
        /\ n > 0 => /\ start = h[o[n]].e.t
                    /\ mask = MaskOf(h, WindowBefore(o, n), h[o[n]].rule)
                    /\ h[n].passed <=> PixelOf(h[n].e) \notin mask

HotState == [counts : [Sensor -> Nat], mask : SUBSET Sensor, started : BOOLEAN, start : Int,
             criterion : Criteria]

HotInv ==
    /\ hot \in HotState
    /\ HotHeard(heard["hot"])
    /\ Windowed(heard["hot"], Opener(heard["hot"]), hot.counts, hot.mask, hot.started, hot.start)

IInv == FlightInv /\ HeardInv /\ BackgroundInv /\ RefractoryInv /\ HotInv

\* No calls, no events.
LEMMA FiredNone == ASSUME NEW h, NEW q PROVE Fired(h, {}, q) = 0
<1>1. {i \in {} : PixelOf(h[i].e) = q} = {}
  OBVIOUS
<1> QED BY <1>1, FS_EmptySet DEF Fired

\* One more call counts for its pixel, if its event passed.
LEMMA FiredMore ==
    ASSUME NEW h, NEW B, IsFiniteSet(B), NEW i, i \notin B, NEW q
    PROVE  /\ Fired(h, B, q) \in Nat
           /\ PixelOf(h[i].e) = q => Fired(h, B \cup {i}, q) = Fired(h, B, q) + 1
           /\ PixelOf(h[i].e) # q => Fired(h, B \cup {i}, q) = Fired(h, B, q)
<1> DEFINE S(C) == {k \in C : PixelOf(h[k].e) = q}
<1>1. IsFiniteSet(S(B)) /\ Fired(h, B, q) \in Nat
  <2>1. S(B) \in SUBSET B
    OBVIOUS
  <2>2. IsFiniteSet(S(B))
    BY <2>1, FS_Subset
  <2> QED BY <2>2, FS_CardinalityType DEF Fired
<1>2. CASE PixelOf(h[i].e) = q
  <2>1. S(B \cup {i}) = S(B) \cup {i} /\ i \notin S(B)
    BY <1>2
  <2>2. Cardinality(S(B) \cup {i}) = Cardinality(S(B)) + 1
    BY <1>1, <2>1, FS_AddElement
  <2> QED BY <1>1, <1>2, <2>1, <2>2 DEF Fired
<1>3. CASE PixelOf(h[i].e) # q
  <2>1. S(B \cup {i}) = S(B)
    BY <1>3
  <2> QED BY <1>1, <1>3, <2>1 DEF Fired
<1> QED BY <1>2, <1>3

\* A call that is outside a window does not count in it.
LEMMA FiredSame ==
    ASSUME NEW h, NEW g, NEW B, \A i \in B : g[i] = h[i], NEW c
    PROVE  (\A q : Fired(g, B, q) = Fired(h, B, q)) /\ MaskOf(g, B, c) = MaskOf(h, B, c)
<1>1. \A q : {i \in B : PixelOf(g[i].e) = q} = {i \in B : PixelOf(h[i].e) = q}
  OBVIOUS
<1>2. {PixelOf(g[i].e) : i \in B} = {PixelOf(h[i].e) : i \in B}
  OBVIOUS
<1>3. \A q : Fired(g, B, q) = Fired(h, B, q)
  BY <1>1 DEF Fired
<1>4. MaskOf(g, B, c) = MaskOf(h, B, c)
  <2> DEFINE k == Cardinality({PixelOf(g[i].e) : i \in B})
             l == Cardinality({PixelOf(h[i].e) : i \in B})
  <2>1. k = l
    BY <1>2
  <2>2. /\ MaskOf(g, B, c) = {q \in Sensor : Over(Fired(g, B, q), Cardinality(B), k, c)}
        /\ MaskOf(h, B, c) = {q \in Sensor : Over(Fired(h, B, q), Cardinality(B), l, c)}
    BY DEF MaskOf
  <2> HIDE DEF k, l
  <2> QED BY <1>3, <2>1, <2>2
<1> QED BY <1>3, <1>4

\* No window before the first one, and nothing over a criterion in it.
LEMMA NothingFired == ASSUME NEW h, NEW c \in Criteria PROVE MaskOf(h, {}, c) = {}
<1>1. \A q : Fired(h, {}, q) = 0
  BY FiredNone
<1>2. Cardinality({}) = 0 /\ {PixelOf(h[i].e) : i \in {}} = {}
  BY FS_EmptySet
<1>3. c.factor \in Nat /\ c.limit \in Nat
  BY CriteriaAssumption
<1>4. ~Over(0, 0, 0, c)
  BY <1>3 DEF Over
<1> QED BY <1>1, <1>2, <1>4 DEF MaskOf

\* The counts tell what is over the criterion among the calls they count.
LEMMA HotPixelsFired ==
    ASSUME NEW h, NEW B, IsFiniteSet(B), \A i \in B : PixelOf(h[i].e) \in Sensor,
           \A q \in Sensor : hot.counts[q] = Fired(h, B, q)
    PROVE  HotPixels = MaskOf(h, B, hot.criterion)
<1> DEFINE active == {q \in Sensor : hot.counts[q] > 0}
<1>1. IsFiniteSet(Sensor)
  <2>1. 0 \in Int /\ Width - 1 \in Int /\ Height - 1 \in Int
    BY SensorAssumption
  <2>2. IsFiniteSet(0..Width - 1) /\ IsFiniteSet(0..Height - 1)
    BY <2>1, FS_Interval
  <2> QED BY <2>2, FS_Product DEF Sensor
<1>2. IsFiniteSet(active)
  <2>1. active \in SUBSET Sensor
    OBVIOUS
  <2> QED BY <1>1, <2>1, FS_Subset
<1>3. active = {PixelOf(h[i].e) : i \in B}
  <2>1. ASSUME NEW i \in B PROVE PixelOf(h[i].e) \in active
    <3> DEFINE q == PixelOf(h[i].e)
               C == {k \in B : PixelOf(h[k].e) = q}
    <3>1. C \in SUBSET B /\ i \in C
      OBVIOUS
    <3>2. IsFiniteSet(C) /\ C # {}
      BY <3>1, FS_Subset
    <3> HIDE DEF C
    <3>3. Cardinality(C) # 0 /\ Cardinality(C) \in Nat
      BY <3>2, FS_EmptySet, FS_CardinalityType
    <3>4. Fired(h, B, q) = Cardinality(C)
      BY DEF C, Fired
    <3> QED BY <3>3, <3>4
  <2>2. ASSUME NEW q \in active PROVE \E i \in B : PixelOf(h[i].e) = q
    <3> DEFINE C == {k \in B : PixelOf(h[k].e) = q}
    <3>1. Cardinality(C) > 0
      BY DEF Fired
    <3> HIDE DEF C
    <3>2. C = {} => Cardinality(C) = 0
      BY FS_EmptySet, Zenon
    <3>3. C # {}
      BY <3>1, <3>2
    <3> QED BY <3>3 DEF C
  <2> QED BY <2>1, <2>2
<1>4. Total(hot.counts, active) = Cardinality(B)
  <2> DEFINE C == [q \in Sensor |-> {i \in B : PixelOf(h[i].e) = q}]
             counts == hot.counts
  <2>1. \A q \in active : C[q] \in SUBSET B /\ counts[q] = Cardinality(C[q])
    BY DEF Fired
  <2>2. \A q, r \in active : q # r => C[q] \cap C[r] = {}
    OBVIOUS
  <2>3. \A i : i \in B <=> \E q \in active : i \in C[q]
    BY <1>3
  <2> HIDE DEF active, C, counts
  <2>4. Total(counts, active) = Cardinality(B)
    BY <1>2, <2>1, <2>2, <2>3, TotalCounts, SMTT(60)
  <2> QED BY <2>4 DEF counts
<1>5. HotPixels = {q \in Sensor : Over(hot.counts[q], Total(hot.counts, active),
                                      Cardinality(active), hot.criterion)}
  BY DEF HotPixels, Total
<1> QED BY <1>3, <1>4, <1>5 DEF MaskOf

\* What a filter keeps tells what the history asks of its last call.
LEMMA HotHistory == HotInv => HotByHistory
<1> SUFFICES ASSUME HotInv PROVE HotByHistory
  OBVIOUS
<1> DEFINE h == heard["hot"]
           n == Len(h)
           o == Opener(h)
           b == IF o[n] = 1 THEN {} ELSE o[o[n] - 1]..o[n] - 1
           c == Cardinality(b)
           k == Cardinality({PixelOf(h[i].e) : i \in b})
           q == PixelOf(h[n].e)
<1> SUFFICES ASSUME n > 0
             PROVE  ~h[n].passed <=> Over(Cardinality({i \in b : PixelOf(h[i].e) = q}), c, k, h[o[n]].rule)
  BY DEF HotByHistory
<1>1. n \in Nat /\ q \in Sensor
  BY DEF HotInv, HotHeard
<1>2. h[n].passed <=> q \notin MaskOf(h, b, h[o[n]].rule)
  BY DEF HotInv, Windowed, WindowBefore
<1>3. q \in MaskOf(h, b, h[o[n]].rule) <=> Over(Fired(h, b, q), c, k, h[o[n]].rule)
  BY <1>1 DEF MaskOf
<1>4. Fired(h, b, q) = Cardinality({i \in b : PixelOf(h[i].e) = q})
  BY DEF Fired
<1> HIDE DEF h, n, o, b, c, k, q
<1> QED BY <1>2, <1>3, <1>4

\* operator() of the hot pixel filter keeps its invariant.
LEMMA HotCall ==
    ASSUME HotInv, HeardInv, NEW e \in Events, PixelOf(e) \in Sensor, HotPixel(e)
    PROVE  HotInv'
<1> DEFINE h == heard["hot"]
           n == Len(h)
           o == Opener(h)
           p == PixelOf(e)
           c == [e |-> e, rule |-> hot.criterion, passed |-> NotHot(e)]
           g == Append(h, c)
           u == Opener(g)
           ends == WindowEnds(e)
           start == IF ~hot.started \/ ends THEN e.t ELSE hot.start
           counts == [Counted(e) EXCEPT ![p] = @ + 1]
<1>1. /\ h \in Seq(HotCalls) /\ n \in Nat /\ hot \in HotState
      /\ \A i \in 1..n : h[i] \in HotCalls /\ PixelOf(h[i].e) \in Sensor
      /\ Windowed(h, o, hot.counts, hot.mask, hot.started, hot.start)
  BY DEF HotInv, HotHeard
<1>2. /\ hot.counts \in [Sensor -> Nat] /\ hot.mask \in SUBSET Sensor
      /\ hot.started \in BOOLEAN /\ hot.start \in Int /\ hot.criterion \in Criteria
  BY <1>1 DEF HotState
<1>3. p \in Sensor /\ e.t \in Int
  BY DEF Events
<1>4. c \in HotCalls
  BY <1>2 DEF HotCalls, NotHot
<1>5. heard'["hot"] = g
  BY DEF HotPixel, Hears, HeardInv, Filters
<1>6. /\ hot'.counts = counts /\ hot'.mask = Mask(e) /\ hot'.started = TRUE
      /\ hot'.start = start /\ hot'.criterion = hot.criterion
  BY <1>1 DEF HotPixel, HotState
<1>7. Counted(e) \in [Sensor -> Nat] /\ Mask(e) \in SUBSET Sensor /\ start \in Int
  BY <1>2, <1>3 DEF Counted, NoCounts, Mask, HotPixels
<1>8. hot' \in HotState
  <2>1. counts \in [Sensor -> Nat]
    BY <1>3, <1>7
  <2>2. hot' = [hot EXCEPT !.counts = counts, !.mask = Mask(e), !.started = TRUE, !.start = start]
    BY DEF HotPixel
  <2> HIDE DEF counts, start
  <2> QED BY <1>1, <1>2, <1>7, <2>1, <2>2 DEF HotState
<1>9. g \in Seq(HotCalls) /\ Len(g) = n + 1 /\ g[n + 1] = c /\ \A i \in 1..n : g[i] = h[i]
  <2> HIDE DEF c
  <2> QED BY <1>1, <1>4
<1>10. c.e = e /\ c.rule = hot.criterion /\ (c.passed <=> p \notin Mask(e))
  BY DEF NotHot
<1> HIDE DEF c, g
<1>11. HotHeard(g)
  <2>1. ASSUME NEW i \in 1..Len(g) PROVE PixelOf(g[i].e) \in Sensor
    <3>1. CASE i \in 1..n
      BY <1>1, <1>9, <3>1
    <3>2. CASE i = n + 1
      BY <1>3, <1>9, <1>10, <3>2
    <3> QED BY <1>1, <1>9, <3>1, <3>2
  <2> QED BY <1>9, <2>1 DEF HotHeard
<1>12. /\ \A i \in 1..n : u[i] = o[i] /\ o[i] \in 1..i
       /\ n = 0 => u[1] = 1
       /\ n > 0 => u[n + 1] = IF e.t - h[o[n]].e.t >= hot.criterion.window THEN n + 1 ELSE o[n]
  BY <1>1, <1>9, <1>10, OpenerAppend, OpenerSteps
<1> HIDE DEF o, u, h, n
<1>13. /\ n = 0 => ~ends
       /\ n > 0 => (ends <=> u[n + 1] = n + 1)
  <2>1. n = 0 => ~ends
    BY <1>1 DEF Windowed, WindowEnds, n, h
  <2>2. ASSUME n > 0 PROVE ends <=> u[n + 1] = n + 1
    <3>1. hot.started /\ hot.start = h[o[n]].e.t
      BY <1>1, <2>2 DEF Windowed, n
    <3>2. ends <=> e.t - h[o[n]].e.t >= hot.criterion.window
      BY <3>1 DEF WindowEnds
    <3>3. o[n] \in 1..n /\ o[n] # n + 1
      BY <1>1, <1>12, <2>2
    <3> HIDE DEF ends
    <3> QED BY <1>12, <2>2, <3>2, <3>3
  <2> QED BY <2>1, <2>2
<1> HIDE DEF ends
\* The window of the call, without it, is what has been counted.
<1> DEFINE W == IF n = 0 \/ ends THEN {} ELSE o[n]..n
<1>14. /\ WindowOf(u, n + 1) = W \cup {n + 1} /\ n + 1 \notin W /\ IsFiniteSet(W)
       /\ W \subseteq 1..n
  <2>1. CASE n = 0 \/ ends
    <3>1. u[n + 1] = n + 1
      BY <1>1, <1>12, <1>13, <2>1
    <3>2. (n + 1)..(n + 1) = {n + 1} /\ n + 1 # 0
      BY <1>1
    <3> QED BY <2>1, <3>1, <3>2, FS_EmptySet DEF WindowOf
  <2>2. CASE ~(n = 0 \/ ends)
    <3>1. u[n + 1] = o[n] /\ o[n] \in 1..n
      BY <1>1, <1>12, <1>13, <2>2
    <3>2. o[n]..(n + 1) = (o[n]..n) \cup {n + 1} /\ n + 1 # 0 /\ n + 1 \notin o[n]..n
      BY <1>1, <3>1
    <3>3. o[n] \in Int /\ n \in Int /\ o[n]..n \subseteq 1..n
      BY <1>1, <3>1
    <3>4. IsFiniteSet(o[n]..n)
      BY <3>3, FS_Interval
    <3> QED BY <2>2, <3>1, <3>2, <3>3, <3>4 DEF WindowOf
  <2> QED BY <2>1, <2>2
<1>15. \A q \in Sensor : Counted(e)[q] = Fired(h, W, q)
  <2>1. CASE ends
    BY <2>1, FiredNone DEF Counted, NoCounts, ends
  <2>2. CASE ~ends
    <3>1. Counted(e) = hot.counts
      BY <2>2 DEF Counted, ends
    <3>2. W = WindowOf(o, n)
      BY <2>2 DEF WindowOf
    <3> QED BY <1>1, <3>1, <3>2 DEF Windowed, n
  <2> QED BY <2>1, <2>2
<1>16. \A q \in Sensor : counts[q] = Fired(g, WindowOf(u, n + 1), q)
  <2> SUFFICES ASSUME NEW q \in Sensor PROVE counts[q] = Fired(g, WindowOf(u, n + 1), q)
    OBVIOUS
  <2>1. Fired(g, W, q) = Fired(h, W, q)
    <3>1. \A i \in W : g[i] = h[i]
      BY <1>9, <1>14
    <3> HIDE DEF W
    <3> QED BY <3>1, FiredSame
  <2>2. /\ PixelOf(g[n + 1].e) = q => Fired(g, W \cup {n + 1}, q) = Fired(g, W, q) + 1
        /\ PixelOf(g[n + 1].e) # q => Fired(g, W \cup {n + 1}, q) = Fired(g, W, q)
    <3>1. IsFiniteSet(W) /\ n + 1 \notin W
      BY <1>14
    <3> HIDE DEF W
    <3> QED BY <3>1, FiredMore
  <2>3. counts[q] = IF q = p THEN Counted(e)[q] + 1 ELSE Counted(e)[q]
    BY <1>3, <1>7
  <2> HIDE DEF counts, W
  <2> QED BY <1>9, <1>10, <1>14, <1>15, <2>1, <2>2, <2>3
\* The mask is that of the window before.
<1>17. Mask(e) = MaskOf(g, WindowBefore(u, n + 1), g[u[n + 1]].rule)
  <2>1. CASE n = 0
    <3>1. u[n + 1] = 1 /\ g[n + 1] = c /\ n + 1 = 1
      BY <1>9, <1>12, <2>1
    <3>2. WindowBefore(u, n + 1) = {} /\ g[u[n + 1]].rule = hot.criterion
      BY <1>10, <3>1 DEF WindowBefore
    <3>3. Mask(e) = {}
      BY <1>1, <1>13, <2>1 DEF Mask, Windowed, n, ends
    <3> QED BY <1>2, <3>2, <3>3, NothingFired
  <2>2. CASE n > 0 /\ ends
    <3>1. u[n + 1] = n + 1 /\ n + 1 # 1 /\ (n + 1) - 1 = n /\ n \in 1..n /\ o[n] \in 1..n
      BY <1>1, <1>12, <1>13, <2>2
    <3>2. u[n] = o[n]
      BY <1>12, <3>1
    <3> DEFINE B == o[n]..n
    <3>3. WindowBefore(u, n + 1) = B
      BY <3>1, <3>2 DEF WindowBefore
    <3>4. g[u[n + 1]].rule = hot.criterion
      BY <1>9, <1>10, <3>1
    <3>5. IsFiniteSet(B) /\ \A i \in B : i \in 1..n /\ g[i] = h[i]
      <4>1. o[n] \in Int /\ n \in Int
        BY <1>1, <3>1
      <4>2. IsFiniteSet(B)
        BY <4>1, FS_Interval
      <4>3. \A i \in B : i \in 1..n
        BY <1>1, <3>1
      <4> QED BY <1>9, <4>2, <4>3
    <3>6. \A q \in Sensor : hot.counts[q] = Fired(h, B, q)
      BY <1>1, <2>2 DEF Windowed, WindowOf, n
    <3> HIDE DEF B
    <3>7. HotPixels = MaskOf(h, B, hot.criterion)
      BY <1>1, <3>5, <3>6, HotPixelsFired
    <3>8. MaskOf(g, B, hot.criterion) = MaskOf(h, B, hot.criterion)
      BY <3>5, FiredSame
    <3>9. Mask(e) = HotPixels
      BY <2>2 DEF Mask, ends
    <3> QED BY <3>3, <3>4, <3>7, <3>8, <3>9
  <2>3. CASE n > 0 /\ ~ends
    <3>1. u[n + 1] = o[n] /\ n \in 1..n /\ o[n] \in 1..n
      BY <1>1, <1>12, <1>13, <2>3
    <3>2. g[o[n]] = h[o[n]]
      BY <1>9, <3>1
    <3> DEFINE B == WindowBefore(o, n)
    <3>3. WindowBefore(u, n + 1) = B /\ B \subseteq 1..n
      <4>1. CASE o[n] = 1
        BY <3>1, <4>1 DEF WindowBefore
      <4>2. CASE o[n] # 1
        <5>1. o[n] - 1 \in 1..n
          BY <1>1, <3>1, <4>2
        <5>2. u[o[n] - 1] = o[o[n] - 1] /\ o[o[n] - 1] \in 1..o[n] - 1
          BY <1>12, <5>1
        <5>3. o[o[n] - 1]..o[n] - 1 \subseteq 1..n
          BY <1>1, <3>1, <5>2
        <5> QED BY <3>1, <4>2, <5>2, <5>3 DEF WindowBefore
      <4> QED BY <4>1, <4>2
    <3> HIDE DEF B
    <3>4. hot.mask = MaskOf(h, B, h[o[n]].rule)
      BY <1>1, <2>3 DEF Windowed, B, n
    <3>5. MaskOf(g, B, h[o[n]].rule) = MaskOf(h, B, h[o[n]].rule)
      <4>1. \A i \in B : g[i] = h[i]
        BY <1>9, <3>3
      <4> QED BY <4>1, FiredSame
    <3>6. Mask(e) = hot.mask
      BY <2>3 DEF Mask, ends
    <3> QED BY <3>1, <3>2, <3>3, <3>4, <3>5, <3>6
  <2> QED BY <1>1, <2>1, <2>2, <2>3
<1>18. start = g[u[n + 1]].e.t
  <2>1. CASE n = 0 \/ ends
    <3>1. u[n + 1] = n + 1 /\ start = e.t
      BY <1>1, <1>12, <1>13, <2>1 DEF Windowed, n
    <3> QED BY <1>9, <1>10, <3>1
  <2>2. CASE ~(n = 0 \/ ends)
    <3>1. u[n + 1] = o[n] /\ o[n] \in 1..n /\ n > 0
      BY <1>1, <1>12, <1>13, <2>2
    <3>2. start = h[o[n]].e.t
      BY <1>1, <2>2, <3>1 DEF Windowed, n
    <3> QED BY <1>9, <3>1, <3>2
  <2> QED BY <2>1, <2>2
<1>19. Windowed(g, u, counts, Mask(e), TRUE, start)
  <2>1. Len(g) = n + 1 /\ n + 1 > 0 /\ n + 1 # 0
    BY <1>1, <1>9
  <2>2. g[n + 1].passed <=> PixelOf(g[n + 1].e) \notin Mask(e)
    BY <1>9, <1>10
  <2> HIDE DEF counts, start, W
  <2> QED BY <1>16, <1>17, <1>18, <2>1, <2>2 DEF Windowed
<1> HIDE DEF counts, start
<1>20. Windowed(heard'["hot"], Opener(heard'["hot"]), hot'.counts, hot'.mask, hot'.started, hot'.start)
  BY <1>5, <1>6, <1>19 DEF u
<1>21. HotHeard(heard'["hot"])
  BY <1>5, <1>11
<1> QED BY <1>8, <1>20, <1>21 DEF HotInv, HotState, HotHeard, Windowed, Fired, WindowOf,
       WindowBefore, MaskOf, Over, Opener, PixelOf, Sensor

-------------------------------------------------------------------------------
(* The other steps: a filter that is left alone, set or reset.             *)

\* The times of what was heard are numbers.
LEMMA HeardTimes ==
    ASSUME NEW h, Heard(h)
    PROVE  \A i \in 1..Len(h) : h[i].e \in Events /\ h[i].e.t \in Nat
<1>1. \A i \in 1..Len(h) : h[i] \in Calls
  BY DEF Heard
<1>2. \A c \in Calls : c.e \in Events
  BY DEF Calls
<1>3. \A e \in Events : e.t \in Nat
  BY DEF Events
<1> QED BY <1>1, <1>2, <1>3

\* What was heard stays in the past.
LEMMA HeardLater ==
    ASSUME NEW h, Heard(h), now \in Nat, now' \in Nat, now' >= now
    PROVE  \A i \in 1..Len(h) : PixelOf(h[i].e) \in Sensor /\ h[i].e.t <= now'
<1> SUFFICES ASSUME NEW i \in 1..Len(h) PROVE PixelOf(h[i].e) \in Sensor /\ h[i].e.t <= now'
  OBVIOUS
<1>1. PixelOf(h[i].e) \in Sensor /\ h[i].e.t <= now
  BY DEF Heard
<1>2. h[i].e.t \in Nat
  BY HeardTimes
<1> QED BY <1>1, <1>2

\* What leaves the filter alone keeps its invariant.
LEMMA BackgroundKept ==
    ASSUME BackgroundInv, UNCHANGED background, heard'["background"] = heard["background"],
           now \in Nat, now' \in Nat, now' >= now
    PROVE  BackgroundInv'
<1> DEFINE h == heard["background"]
<1>1. h \in Seq(Calls) /\ \A i \in 1..Len(h) : PixelOf(h[i].e) \in Sensor /\ h[i].e.t <= now'
  BY HeardLater DEF BackgroundInv, Heard
<1>2. Heard(heard["background"])'
  BY <1>1 DEF Heard, PixelOf, Sensor
<1>3. Newest(background.map, heard["background"], 1..Len(heard["background"]))'
  BY DEF BackgroundInv, Newest, PixelOf, Sensor
<1>4. BackgroundByHistory'
  BY DEF BackgroundInv, BackgroundByHistory, Near, PixelOf
<1> QED BY <1>2, <1>3, <1>4 DEF BackgroundInv, Filter, Sensor

\* setDt() keeps it.
LEMMA BackgroundSet ==
    ASSUME BackgroundInv, SetBackgroundDt, now' = now
    PROVE  BackgroundInv'
<1>1. PICK dt \in Dts : background' = [background EXCEPT !.dt = dt]
  BY DEF SetBackgroundDt
<1>2. background' \in Filter /\ background'.map = background.map /\ heard' = heard
  BY <1>1 DEF BackgroundInv, Filter, SetBackgroundDt
<1>3. Heard(heard["background"])'
  BY <1>2 DEF BackgroundInv, Heard, PixelOf, Sensor
<1>4. Newest(background.map, heard["background"], 1..Len(heard["background"]))'
  BY <1>2 DEF BackgroundInv, Newest, PixelOf, Sensor
<1>5. BackgroundByHistory'
  BY <1>2 DEF BackgroundInv, BackgroundByHistory, Near, PixelOf
<1> QED BY <1>2, <1>3, <1>4, <1>5 DEF BackgroundInv, Filter, Sensor

\* Nothing heard, nothing recorded.
LEMMA NothingHeard ==
    ASSUME NEW h, h = <<>>
    PROVE  /\ Heard(h) /\ Len(h) = 0
           /\ Newest(NoTimes, h, 1..Len(h)) /\ Newest(NoTimes, h, PassedOf(h))
<1>1. h \in Seq(Calls) /\ Len(h) = 0
  BY EmptySeq
<1>2. 1..Len(h) = {} /\ PassedOf(h) = {}
  BY <1>1 DEF PassedOf
<1>3. Heard(h)
  BY <1>1, <1>2 DEF Heard
<1> QED BY <1>1, <1>2, <1>3, NewestOfNone

\* reset() keeps it: nothing was heard, nothing is in the map.
LEMMA BackgroundReset ==
    ASSUME BackgroundInv, heard'["background"] = <<>>,
           background' = [background EXCEPT !.map = NoTimes]
    PROVE  BackgroundInv'
<1> DEFINE g == heard'["background"]
<1>1. Heard(g) /\ Len(g) = 0 /\ Newest(NoTimes, g, 1..Len(g))
  BY NothingHeard
<1>2. background' \in Filter /\ background'.map = NoTimes
  BY <1>1 DEF BackgroundInv, Filter, Newest
<1> HIDE DEF g
<1>3. Heard(heard["background"])'
  BY <1>1 DEF g, Heard, PixelOf, Sensor
<1>4. Newest(background.map, heard["background"], 1..Len(heard["background"]))'
  BY <1>1, <1>2 DEF g, Newest, PixelOf, Sensor
<1>5. BackgroundByHistory'
  BY <1>1 DEF g, BackgroundByHistory
<1> QED BY <1>2, <1>3, <1>4, <1>5 DEF BackgroundInv, Filter, Sensor

\* What leaves the filter alone keeps its invariant.
LEMMA RefractoryKept ==
    ASSUME RefractoryInv, UNCHANGED refractory, heard'["refractory"] = heard["refractory"],
           now \in Nat, now' \in Nat, now' >= now
    PROVE  RefractoryInv'
<1> DEFINE h == heard["refractory"]
<1>1. h \in Seq(Calls) /\ \A i \in 1..Len(h) : PixelOf(h[i].e) \in Sensor /\ h[i].e.t <= now'
  BY HeardLater DEF RefractoryInv, Heard
<1>2. Heard(heard["refractory"])'
  BY <1>1 DEF Heard, PixelOf, Sensor
<1>3. Newest(refractory.map, heard["refractory"], PassedOf(heard["refractory"]))'
  BY DEF RefractoryInv, Newest, PassedOf, PixelOf, Sensor
<1>4. RefractoryByHistory'
  BY DEF RefractoryInv, RefractoryByHistory, PixelOf
<1> QED BY <1>2, <1>3, <1>4 DEF RefractoryInv, Filter, Sensor

\* setDt() keeps it.
LEMMA RefractorySet ==
    ASSUME RefractoryInv, SetRefractoryDt, now' = now
    PROVE  RefractoryInv'
<1>1. PICK dt \in Dts : refractory' = [refractory EXCEPT !.dt = dt]
  BY DEF SetRefractoryDt
<1>2. refractory' \in Filter /\ refractory'.map = refractory.map /\ heard' = heard
  BY <1>1 DEF RefractoryInv, Filter, SetRefractoryDt
<1>3. Heard(heard["refractory"])'
  BY <1>2 DEF RefractoryInv, Heard, PixelOf, Sensor
<1>4. Newest(refractory.map, heard["refractory"], PassedOf(heard["refractory"]))'
  BY <1>2 DEF RefractoryInv, Newest, PassedOf, PixelOf, Sensor
<1>5. RefractoryByHistory'
  BY <1>2 DEF RefractoryInv, RefractoryByHistory, PixelOf
<1> QED BY <1>2, <1>3, <1>4, <1>5 DEF RefractoryInv, Filter, Sensor

\* reset() keeps it: nothing was heard, nothing is in the map.
LEMMA RefractoryReset ==
    ASSUME RefractoryInv, heard'["refractory"] = <<>>,
           refractory' = [refractory EXCEPT !.map = NoTimes]
    PROVE  RefractoryInv'
<1> DEFINE g == heard'["refractory"]
<1>1. Heard(g) /\ Len(g) = 0 /\ Newest(NoTimes, g, PassedOf(g))
  BY NothingHeard
<1>2. refractory' \in Filter /\ refractory'.map = NoTimes
  BY <1>1 DEF RefractoryInv, Filter, Newest
<1> HIDE DEF g
<1>3. Heard(heard["refractory"])'
  BY <1>1 DEF g, Heard, PixelOf, Sensor
<1>4. Newest(refractory.map, heard["refractory"], PassedOf(heard["refractory"]))'
  BY <1>1, <1>2 DEF g, Newest, PassedOf, PixelOf, Sensor
<1>5. RefractoryByHistory'
  BY <1>1, SMTT(30) DEF g, RefractoryByHistory
<1> QED BY <1>2, <1>3, <1>4, <1>5 DEF RefractoryInv, Filter, Sensor

\* What leaves the filter alone keeps its invariant.
LEMMA HotKept ==
    ASSUME HotInv, UNCHANGED hot, heard'["hot"] = heard["hot"]
    PROVE  HotInv'
<1> DEFINE g == heard'["hot"]
<1>1. g = heard["hot"] /\ hot' = hot
  OBVIOUS
<1> HIDE DEF g
<1>2. HotHeard(g) /\ hot' \in HotState
  BY <1>1 DEF HotInv
<1>3. Windowed(g, Opener(g), hot'.counts, hot'.mask, hot'.started, hot'.start)
  BY <1>1 DEF HotInv
<1> QED BY <1>2, <1>3 DEF g, HotInv, HotState, HotHeard, Windowed, Fired, WindowOf,
       WindowBefore, MaskOf, Over, Opener, PixelOf, Sensor

\* setWindow() and setFactor() keep it: the window that is open ends by the new one.
LEMMA HotSet ==
    ASSUME HotInv, SetCriterion
    PROVE  HotInv'
<1>1. PICK c \in Criteria : hot' = [hot EXCEPT !.criterion = c]
  BY DEF SetCriterion
<1>2. /\ hot' \in HotState /\ hot'.counts = hot.counts /\ hot'.mask = hot.mask
      /\ hot'.started = hot.started /\ hot'.start = hot.start /\ heard' = heard
  BY <1>1 DEF HotInv, HotState, SetCriterion
<1> DEFINE g == heard'["hot"]
<1>3. g = heard["hot"]
  BY <1>2
<1> HIDE DEF g
<1>4. HotHeard(g)
  BY <1>3 DEF HotInv
<1>5. Windowed(g, Opener(g), hot'.counts, hot'.mask, hot'.started, hot'.start)
  BY <1>2, <1>3 DEF HotInv
<1> QED BY <1>2, <1>4, <1>5 DEF g, HotInv, HotState, HotHeard, Windowed, Fired, WindowOf,
       WindowBefore, MaskOf, Over, Opener, PixelOf, Sensor

\* reset() keeps it.
LEMMA HotReset ==
    ASSUME HotInv, heard'["hot"] = <<>>, hot' = Forgotten
    PROVE  HotInv'
<1> DEFINE g == heard'["hot"]
<1>1. g \in Seq(HotCalls) /\ Len(g) = 0
  BY EmptySeq
<1>2. /\ hot' \in HotState /\ hot'.counts = NoCounts /\ hot'.mask = {} /\ hot'.started = FALSE
  BY DEF HotInv, HotState, Forgotten, NoCounts
<1>3. \A q \in Sensor : NoCounts[q] = Fired(g, {}, q)
  BY FiredNone DEF NoCounts
<1> HIDE DEF g
<1>4. HotHeard(g)
  BY <1>1 DEF HotHeard
<1>5. Windowed(g, Opener(g), hot'.counts, hot'.mask, hot'.started, hot'.start)
  BY <1>1, <1>2, <1>3 DEF Windowed, WindowOf
<1> QED BY <1>2, <1>4, <1>5 DEF g, HotInv, HotState, HotHeard, Windowed, Fired, WindowOf,
       WindowBefore, MaskOf, Over, Opener, PixelOf, Sensor

\* All three, while none of them is called.
LEMMA FiltersKept ==
    ASSUME IInv, UNCHANGED filters, now' \in Nat, now' >= now
    PROVE  HeardInv' /\ BackgroundInv' /\ RefractoryInv' /\ HotInv'
<1>1. now \in Nat /\ UNCHANGED <<background, refractory, hot, heard>>
  BY DEF IInv, FlightInv, filters
<1> QED BY <1>1, BackgroundKept, RefractoryKept, HotKept DEF IInv, HeardInv

\* A call adds to what its own filter heard, and to no other.
LEMMA HearsOne ==
    ASSUME HeardInv, NEW f \in Filters, NEW e, NEW rule, NEW passed, Hears(f, e, rule, passed)
    PROVE  HeardInv' /\ \A k \in Filters : k # f => heard'[k] = heard[k]
  BY DEF HeardInv, Hears

-------------------------------------------------------------------------------
(* The program.                                                            *)

\* A filter is asked of events on its sensor.
LEMMA AskedOnSensor ==
    ASSUME FlightInv, NEW f \in Filters, flight # <<>>, NEW passes, Ask(f, passes)
    PROVE  flight[1] \in Events /\ flight[1].t = now /\ PixelOf(flight[1]) \in Sensor
<1>1. program.chain \in Seq(Filters \cup {"undistort"}) /\ stage \in DOMAIN program.chain
  <2>1. program.chain \in Seq(Filters \cup {"undistort"})
    BY ProgramsAssumption DEF FlightInv
  <2> QED BY <2>1 DEF Ask, FlightInv
<1>2. f \in Range(program.chain)
  BY <1>1 DEF Ask, Range
<1>3. ~(Range(program.chain) \subseteq {"undistort"})
  BY <1>2, Distinct
<1> QED BY <1>3 DEF FlightInv

\* A filter holds the event back or lets it go on.
LEMMA AskKeepsFlight ==
    ASSUME FlightInv, NEW f \in Filters, NEW passes, Ask(f, passes)
    PROVE  FlightInv'
  BY DEF FlightInv, Ask, PixelOf, Sensor

\* The invariant holds at first.
LEMMA InitIInv == Init => IInv
<1> SUFFICES ASSUME Init PROVE IInv
  OBVIOUS
<1>1. FlightInv
  <2>1. program.chain \in Seq(Filters \cup {"undistort"})
    BY ProgramsAssumption DEF Init
  <2> QED BY <2>1 DEF Init, FlightInv
<1>2. HeardInv /\ \A f \in Filters : heard[f] = <<>>
  BY DEF Init, FiltersInit, HeardInv
<1>3. BackgroundInv
  <2>1. /\ Heard(heard["background"]) /\ Len(heard["background"]) = 0
        /\ Newest(NoTimes, heard["background"], 1..Len(heard["background"]))
    BY <1>2, Distinct, NothingHeard
  <2>2. background \in Filter /\ background.map = NoTimes
    BY <2>1 DEF Init, FiltersInit, Filter, Newest
  <2> QED BY <2>1, <2>2 DEF BackgroundInv, BackgroundByHistory
<1>4. RefractoryInv
  <2>1. /\ Heard(heard["refractory"]) /\ Len(heard["refractory"]) = 0
        /\ Newest(NoTimes, heard["refractory"], PassedOf(heard["refractory"]))
    BY <1>2, Distinct, NothingHeard
  <2>2. refractory \in Filter /\ refractory.map = NoTimes
    BY <2>1 DEF Init, FiltersInit, Filter, Newest
  <2> QED BY <2>1, <2>2 DEF RefractoryInv, RefractoryByHistory
<1>5. HotInv
  <2> DEFINE g == heard["hot"]
  <2>1. g \in Seq(HotCalls) /\ Len(g) = 0
    BY <1>2, Distinct, EmptySeq
  <2>2. hot \in HotState /\ hot.counts = NoCounts /\ hot.mask = {} /\ hot.started = FALSE
    BY DEF Init, FiltersInit, HotState, NoCounts
  <2>3. \A q \in Sensor : NoCounts[q] = Fired(g, {}, q)
    BY FiredNone DEF NoCounts
  <2> HIDE DEF g
  <2>4. HotHeard(g) /\ Windowed(g, Opener(g), hot.counts, hot.mask, hot.started, hot.start)
    BY <2>1, <2>2, <2>3 DEF HotHeard, Windowed, WindowOf
  <2> QED BY <2>2, <2>4 DEF g, HotInv
<1> QED BY <1>1, <1>2, <1>3, <1>4, <1>5 DEF IInv

\* Every step keeps the invariant.
LEMMA NextIInv ==
    ASSUME IInv, [Next]_vars
    PROVE  IInv'
<1>0. /\ FlightInv /\ HeardInv /\ BackgroundInv /\ RefractoryInv /\ HotInv /\ now \in Nat
      /\ program \in Programs
  BY DEF IInv, FlightInv
<1>1. CASE Arrive
  <2>1. PICK q \in program.places, d \in program.delays, p \in program.polarities :
          /\ flight' = <<[x |-> q[1], y |-> q[2], t |-> now + d, p |-> p]>>
          /\ now' = now + d
    BY <1>1 DEF Arrive
  <2>2. /\ q \in Int \X Int /\ d \in Nat /\ p \in BOOLEAN
        /\ Range(program.chain) \subseteq {"undistort"} \/ q \in Sensor
        /\ program.chain \in Seq(Filters \cup {"undistort"})
    BY <1>0, <2>1, ProgramsAssumption
  <2>3. now' \in Nat /\ now' >= now
    BY <1>0, <2>1, <2>2
  <2>4. /\ UNCHANGED <<filters, program>> /\ stage' = 1
    BY <1>1 DEF Arrive
  <2> DEFINE e == [x |-> q[1], y |-> q[2], t |-> now + d, p |-> p]
  <2>5. e \in Events /\ e.t = now' /\ PixelOf(e) = q
    BY <2>1, <2>2, <2>3 DEF Events, PixelOf
  <2>6. flight' = <<e>>
    BY <2>1
  <2> HIDE DEF e
  <2>7. FlightInv'
    BY <1>0, <2>2, <2>3, <2>4, <2>5, <2>6 DEF FlightInv, PixelOf, Sensor
  <2> QED BY <2>3, <2>4, <2>7, FiltersKept DEF IInv
<1>2. CASE AskBackground
  <2>1. /\ flight # <<>> /\ Ask("background", Correlated(flight[1])) /\ now' = now
        /\ BackgroundActivity(flight[1])
    BY <1>2 DEF AskBackground, Ask
  <2>2. flight[1] \in Events /\ flight[1].t = now /\ PixelOf(flight[1]) \in Sensor
    BY <1>0, <2>1, AskedOnSensor, Distinct
  <2>3. FlightInv'
    BY <1>0, <2>1, AskKeepsFlight, Distinct
  <2>4. /\ HeardInv' /\ heard'["refractory"] = heard["refractory"]
        /\ heard'["hot"] = heard["hot"] /\ UNCHANGED <<refractory, hot>>
    BY <1>0, <2>1, HearsOne, Distinct DEF BackgroundActivity
  <2>5. BackgroundInv'
    BY <1>0, <2>1, <2>2, BackgroundCall
  <2>6. RefractoryInv' /\ HotInv'
    BY <1>0, <2>1, <2>4, RefractoryKept, HotKept
  <2> QED BY <2>3, <2>4, <2>5, <2>6 DEF IInv
<1>3. CASE AskRefractory
  <2>1. /\ flight # <<>> /\ Ask("refractory", Idle(flight[1])) /\ now' = now
        /\ RefractoryPeriod(flight[1])
    BY <1>3 DEF AskRefractory, Ask
  <2>2. flight[1] \in Events /\ flight[1].t = now /\ PixelOf(flight[1]) \in Sensor
    BY <1>0, <2>1, AskedOnSensor, Distinct
  <2>3. FlightInv'
    BY <1>0, <2>1, AskKeepsFlight, Distinct
  <2>4. /\ HeardInv' /\ heard'["background"] = heard["background"]
        /\ heard'["hot"] = heard["hot"] /\ UNCHANGED <<background, hot>>
    BY <1>0, <2>1, HearsOne, Distinct DEF RefractoryPeriod
  <2>5. RefractoryInv'
    BY <1>0, <2>1, <2>2, RefractoryCall
  <2>6. BackgroundInv' /\ HotInv'
    BY <1>0, <2>1, <2>4, BackgroundKept, HotKept
  <2> QED BY <2>3, <2>4, <2>5, <2>6 DEF IInv
<1>4. CASE AskHot
  <2>1. /\ flight # <<>> /\ Ask("hot", NotHot(flight[1])) /\ now' = now
        /\ HotPixel(flight[1])
    BY <1>4 DEF AskHot, Ask
  <2>2. FlightInv'
    BY <1>0, <2>1, AskKeepsFlight, Distinct
  <2>3. /\ HeardInv' /\ heard'["background"] = heard["background"]
        /\ heard'["refractory"] = heard["refractory"] /\ UNCHANGED <<background, refractory>>
    BY <1>0, <2>1, HearsOne, Distinct DEF HotPixel
  <2>4. BackgroundInv' /\ RefractoryInv'
    BY <1>0, <2>1, <2>3, BackgroundKept, RefractoryKept
  <2>5. HotInv'
    <3>1. flight[1] \in Events /\ PixelOf(flight[1]) \in Sensor
      BY <1>0, <2>1, AskedOnSensor, Distinct
    <3> QED BY <1>0, <2>1, <3>1, HotCall
  <2> QED BY <2>2, <2>3, <2>4, <2>5 DEF IInv
<1>5. CASE Undistort
  <2> DEFINE e == flight[1]
  <2>1. /\ flight # <<>> /\ e \in Events /\ e.t = now /\ flight' = <<Undistorted(e)>>
        /\ UNCHANGED <<filters, program, now>>
        /\ program.chain \in Seq(Filters \cup {"undistort"})
    BY <1>0, <1>5, ProgramsAssumption DEF Undistort, FlightInv
  <2>2. Undistorted(e) \in Events /\ Undistorted(e).t = now
    BY <2>1, UndistortedEvent
  <2>3. Range(program.chain) \subseteq {"undistort"}
    <3>1. "undistort" \in Range(program.chain)
      BY <1>0, <1>5, <2>1 DEF Undistort, FlightInv, Range
    <3> QED BY <1>0, <3>1, ProgramsAssumption, Distinct
  <2>4. stage' \in 1..Len(program.chain) + 1
    BY <1>0, <1>5, <2>1 DEF Undistort, FlightInv
  <2>5. FlightInv'
    BY <1>0, <2>1, <2>2, <2>3, <2>4 DEF FlightInv
  <2> QED BY <1>0, <2>1, <2>5, FiltersKept DEF IInv
<1>6. CASE Store \/ Show \/ SetContainers \/ SetRepresentations \/ UNCHANGED vars
  <2>1. UNCHANGED <<filters, program, stage, now>> /\ (flight' = <<>> \/ flight' = flight)
    BY <1>6 DEF Store, Show, Passed, SetContainers, SetRepresentations, Setting, vars
  <2>2. FlightInv'
    BY <1>0, <2>1 DEF FlightInv, PixelOf, Sensor
  <2> QED BY <1>0, <2>1, <2>2, FiltersKept DEF IInv
<1>7. CASE SetFilters
  <2>1. UNCHANGED <<program, flight, stage, now>>
    BY <1>7 DEF SetFilters, Setting
  <2>2. FlightInv'
    BY <1>0, <2>1 DEF FlightInv, PixelOf, Sensor
  <2>3. CASE SetBackgroundDt
    <3>1. UNCHANGED <<refractory, hot, heard>>
      BY <2>3 DEF SetBackgroundDt
    <3> QED BY <1>0, <2>1, <2>2, <2>3, <3>1, BackgroundSet, RefractoryKept, HotKept DEF IInv, HeardInv
  <2>4. CASE SetRefractoryDt
    <3>1. UNCHANGED <<background, hot, heard>>
      BY <2>4 DEF SetRefractoryDt
    <3> QED BY <1>0, <2>1, <2>2, <2>4, <3>1, RefractorySet, BackgroundKept, HotKept DEF IInv, HeardInv
  <2>5. CASE SetCriterion
    <3>1. UNCHANGED <<background, refractory, heard>>
      BY <2>5 DEF SetCriterion
    <3> QED BY <1>0, <2>1, <2>2, <2>5, <3>1, BackgroundKept, RefractoryKept, HotSet DEF IInv, HeardInv
  <2>6. CASE \E f \in Range(program.chain) : Reset(f)
    <3>1. PICK f : Reset(f)
      BY <2>6
    <3>2. heard' = [heard EXCEPT ![f] = <<>>]
      BY <3>1 DEF Reset
    <3>3. HeardInv' /\ \A k \in Filters : heard'[k] = IF k = f THEN <<>> ELSE heard[k]
      BY <1>0, <3>2 DEF HeardInv
    <3>4. BackgroundInv'
      <4>1. CASE f = "background"
        BY <1>0, <3>1, <3>3, <4>1, Distinct, BackgroundReset DEF Reset
      <4>2. CASE f # "background"
        BY <1>0, <2>1, <3>1, <3>3, <4>2, Distinct, BackgroundKept DEF Reset
      <4> QED BY <4>1, <4>2
    <3>5. RefractoryInv'
      <4>1. CASE f = "refractory"
        BY <1>0, <3>1, <3>3, <4>1, Distinct, RefractoryReset DEF Reset
      <4>2. CASE f # "refractory"
        BY <1>0, <2>1, <3>1, <3>3, <4>2, Distinct, RefractoryKept DEF Reset
      <4> QED BY <4>1, <4>2
    <3>6. HotInv'
      <4>1. CASE f = "hot"
        BY <1>0, <3>1, <3>3, <4>1, Distinct, HotReset DEF Reset
      <4>2. CASE f # "hot"
        BY <1>0, <3>1, <3>3, <4>2, Distinct, HotKept DEF Reset
      <4> QED BY <4>1, <4>2
    <3> QED BY <2>2, <3>3, <3>4, <3>5, <3>6 DEF IInv
  <2> QED BY <1>7, <2>3, <2>4, <2>5, <2>6 DEF SetFilters
<1> QED BY <1>1, <1>2, <1>3, <1>4, <1>5, <1>6, <1>7 DEF Next

\* All of the above, of every reachable state.
THEOREM Invariant == Spec => []IInv
<1>1. Init => IInv
  BY InitIInv
<1>2. IInv /\ [Next]_vars => IInv'
  BY NextIInv
<1> QED BY <1>1, <1>2, PTL DEF Spec

\* Whatever its chain, its dt and its resets, what the background activity filter
\* lets through is what was preceded by an event of its neighbourhood.
THEOREM BackgroundIsExact == Spec => []BackgroundByHistory
<1>1. IInv => BackgroundByHistory
  BY DEF IInv, BackgroundInv
<1> QED BY <1>1, Invariant, PTL

\* Whatever its chain, its dt and its resets, what the refractory period filter
\* holds back is what came within dt of an event that it let through.
THEOREM RefractoryIsExact == Spec => []RefractoryByHistory
<1>1. IInv => RefractoryByHistory
  BY DEF IInv, RefractoryInv
<1> QED BY <1>1, Invariant, PTL

\* Whatever its criterion and its resets, and however long its windows are, what the
\* hot pixel filter holds back is what was over the criterion in the window before.
THEOREM HotIsExact == Spec => []HotByHistory
<1>1. IInv => HotByHistory
  BY HotHistory DEF IInv
<1> QED BY <1>1, Invariant, PTL

\* Every event that is undistorted goes where the lens puts its pixel, but for those
\* of the first column, whatever the size of the map and the lens.
THEOREM LensMovesEvents == Spec => UndistortedByLens
<1>1. IInv /\ Undistort =>
        LET e == flight[1]
            q == <<e.x, e.y>>
        IN  /\ flight'[1].t = e.t /\ flight'[1].p = e.p
            /\ OnMap(q) /\ (q[1] > 0 \/ q[2] = 0) => Pixel(flight'[1]) = Lens(q)
            /\ ~OnMap(q) => flight' = flight
  <2> SUFFICES ASSUME IInv, Undistort
               PROVE  LET e == flight[1]
                          q == <<e.x, e.y>>
                      IN  /\ flight'[1].t = e.t /\ flight'[1].p = e.p
                          /\ OnMap(q) /\ (q[1] > 0 \/ q[2] = 0) => Pixel(flight'[1]) = Lens(q)
                          /\ ~OnMap(q) => flight' = flight
    OBVIOUS
  <2>1. PICK e \in Events : flight = <<e>>
    BY DEF IInv, FlightInv, Undistort
  <2>2. flight[1] = e /\ flight'[1] = Undistorted(e) /\ flight' = <<Undistorted(e)>>
    BY <2>1 DEF Undistort
  <2>3. /\ Undistorted(e).t = e.t /\ Undistorted(e).p = e.p
        /\ OnMap(<<e.x, e.y>>) => Pixel(Undistorted(e)) = MapAt(<<e.x, e.y>>)
        /\ ~OnMap(<<e.x, e.y>>) => Undistorted(e) = e
    BY UndistortedEvent
  <2>4. OnMap(<<e.x, e.y>>) /\ (e.x > 0 \/ e.y = 0) =>
          MapAt(<<e.x, e.y>>) = Lens(<<e.x, e.y>>)
    <3> SUFFICES ASSUME OnMap(<<e.x, e.y>>), e.x > 0 \/ e.y = 0
                 PROVE  MapAt(<<e.x, e.y>>) = Lens(<<e.x, e.y>>)
      OBVIOUS
    <3>1. PointFor(<<e.x, e.y>>) = <<e.x, e.y>>
      BY DEF PointFor, Events
    <3> QED BY <3>1, MapIsLens
  <2> QED BY <2>1, <2>2, <2>3, <2>4
<1>2. IInv /\ [Next]_vars =>
        [Undistort =>
          LET e == flight[1]
              q == <<e.x, e.y>>
          IN  /\ flight'[1].t = e.t /\ flight'[1].p = e.p
              /\ OnMap(q) /\ (q[1] > 0 \/ q[2] = 0) => Pixel(flight'[1]) = Lens(q)
              /\ ~OnMap(q) => flight' = flight]_vars
  BY <1>1
<1> QED BY <1>2, Invariant, PTL DEF Spec, UndistortedByLens

-------------------------------------------------------------------------------
(* Windows of events in the order of their times.                          *)

Timed(s) ==
    /\ s \in Seq(Events)
    /\ \A i \in 1..Len(s) : \A j \in i..Len(s) : s[i].t <= s[j].t

\* A window w of the newest event reaches the i-th.
Young(s, w, i) == w <= 0 \/ s[Len(s)].t - s[i].t <= w

\* The events of a sequence and their times.
LEMMA TimedTypes ==
    ASSUME NEW s, Timed(s)
    PROVE  /\ Len(s) \in Nat
           /\ \A i \in 1..Len(s) : s[i] \in Events /\ s[i].t \in Int
<1>1. s \in Seq(Events)
  BY DEF Timed
<1>2. Len(s) \in Nat /\ \A i \in 1..Len(s) : s[i] \in Events
  BY <1>1
<1>3. \A e \in Events : e.t \in Int
  BY DEF Events
<1> QED BY <1>2, <1>3

\* What the window reaches is the end of the sequence, with its last event.
LEMMA YoungAreLast ==
    ASSUME NEW s, Timed(s), NEW w \in Int
    PROVE  \E k \in 0..Len(s) :
             /\ \A i \in 1..Len(s) : Young(s, w, i) <=> i > k
             /\ s # <<>> => k < Len(s)
<1> DEFINE n == Len(s)
<1>1. n \in Nat /\ \A i \in 1..n : s[i].t \in Int
  BY TimedTypes
<1>2. CASE n = 0
  <2>1. s = <<>>
    BY <1>2, EmptySeq DEF Timed
  <2>2. 0 \in 0..n /\ \A i \in 1..n : Young(s, w, i) <=> i > 0
    BY <1>2
  <2> QED BY <2>1, <2>2
<1>3. CASE n # 0
  <2> DEFINE Y == {i \in Nat : i \in 1..n /\ Young(s, w, i)}
  <2>1. n \in Y
    BY <1>1, <1>3 DEF Young
  <2>2. PICK y \in Y : \A i \in Y : y <= i
    BY <2>1, Least
  <2>3. y \in 1..n /\ Young(s, w, y)
    BY <2>2
  <2>4. ASSUME NEW i \in 1..n, i >= y PROVE Young(s, w, i)
    <3>1. s[y].t <= s[i].t
      BY <2>3, <2>4 DEF Timed
    <3>2. s[n].t \in Int /\ s[i].t \in Int /\ s[y].t \in Int
      BY <1>1, <1>3, <2>3
    <3>3. w <= 0 \/ s[n].t - s[y].t <= w
      BY <2>3 DEF Young
    <3>4. w <= 0 \/ s[n].t - s[i].t <= w
      BY <3>1, <3>2, <3>3
    <3> QED BY <3>4 DEF Young
  <2>5. \A i \in 1..n : Young(s, w, i) => i >= y
    BY <2>2
  <2> HIDE DEF Y, n
  <2>6. y - 1 \in 0..n /\ y - 1 < n /\ \A i \in 1..n : i > y - 1 <=> i >= y
    BY <1>1, <2>3
  <2>7. \A i \in 1..n : Young(s, w, i) <=> i > y - 1
    BY <2>4, <2>5, <2>6
  <2> QED BY <2>6, <2>7 DEF n
<1> QED BY <1>2, <1>3

\* What the window reaches, from the first place it reaches.
LEMMA ReachedIsSuffix ==
    ASSUME NEW s, Timed(s), NEW w \in Int, NEW k \in 0..Len(s),
           \A i \in 1..Len(s) : Young(s, w, i) <=> i > k
    PROVE  Reached(s, w) \in Seq(Events) /\ Suffix(Reached(s, w), s, k)
<1> DEFINE S == {e \in Range(s) : w <= 0 \/ s[Len(s)].t - e.t <= w}
<1>1. s \in Seq(Events)
  BY DEF Timed
<1>2. ASSUME NEW i \in 1..Len(s) PROVE s[i] \in S <=> Young(s, w, i)
  <2>1. s[i] \in Range(s)
    BY <1>1 DEF Range
  <2> QED BY <2>1 DEF Young
<1>3. Reached(s, w) = Among(s, S)
  BY DEF Reached
<1> HIDE DEF S
<1>4. \A i \in 1..Len(s) : s[i] \in S <=> i > k
  BY <1>2
<1>5. Suffix(Among(s, S), s, k)
  BY <1>1, <1>4, AmongSuffix
<1>6. Among(s, S) \in Seq(Events \cap S)
  BY <1>1, AmongType
<1>7. Seq(Events \cap S) \subseteq Seq(Events)
  OBVIOUS
<1> QED BY <1>3, <1>5, <1>6, <1>7

\* A suffix of what is in the order of time is.
LEMMA TimedSuffix ==
    ASSUME NEW s, Timed(s), NEW t \in Seq(Events), NEW k, Suffix(t, s, k)
    PROVE  Timed(t)
<1>1. Len(s) \in Nat /\ Len(t) \in Nat /\ k \in 0..Len(s) /\ Len(t) = Len(s) - k
  BY DEF Suffix, Timed
<1>2. ASSUME NEW i \in 1..Len(t), NEW j \in i..Len(t) PROVE t[i].t <= t[j].t
  <2>1. j \in 1..Len(t) /\ i + k \in 1..Len(s) /\ j + k \in (i + k)..Len(s)
    BY <1>1
  <2>2. t[i] = s[i + k] /\ t[j] = s[j + k]
    BY <2>1 DEF Suffix
  <2>3. s[i + k].t <= s[j + k].t
    BY <2>1 DEF Timed
  <2> QED BY <2>2, <2>3
<1> QED BY <1>2 DEF Timed

\* In a suffix that has the newest event, the same are young.
LEMMA YoungInSuffix ==
    ASSUME NEW s, NEW t, NEW k, NEW w, Len(s) \in Nat, Len(t) \in Nat, Suffix(t, s, k), Len(t) # 0,
           NEW i \in 1..Len(t)
    PROVE  Young(t, w, i) <=> Young(s, w, i + k)
<1>1. Len(t) \in 1..Len(t) /\ Len(t) + k = Len(s)
  BY DEF Suffix
<1>2. t[Len(t)] = s[Len(s)] /\ t[i] = s[i + k]
  BY <1>1 DEF Suffix
<1> QED BY <1>2 DEF Young

\* trim() keeps what the window reaches.
LEMMA TrimmedIsReached ==
    ASSUME NEW s, Timed(s), NEW w \in Int
    PROVE  Trimmed(s, w) = Reached(s, w)
<1>1. s \in Seq(Events) /\ Len(s) \in Nat /\ \A i \in 1..Len(s) : s[i].t \in Int
  BY TimedTypes DEF Timed
<1>2. PICK k \in 0..Len(s) : /\ \A i \in 1..Len(s) : Young(s, w, i) <=> i > k
                             /\ s # <<>> => k < Len(s)
  BY YoungAreLast
<1>3. Reached(s, w) \in Seq(Events) /\ Suffix(Reached(s, w), s, k)
  BY <1>2, ReachedIsSuffix
<1>4. CASE w <= 0 \/ s = <<>>
  <2>1. k = 0
    <3>1. CASE s = <<>>
      BY <3>1
    <3>2. CASE s # <<>>
      <4>1. 1 \in 1..Len(s)
        BY <1>1, <1>2, <3>2
      <4>2. Young(s, w, 1)
        BY <1>4, <3>2 DEF Young
      <4> QED BY <1>2, <4>1, <4>2
    <3> QED BY <3>1, <3>2
  <2>2. Suffix(s, s, 0)
    BY <1>1 DEF Suffix
  <2>3. Trimmed(s, w) = s
    BY <1>4 DEF Trimmed
  <2> QED BY <1>1, <1>3, <2>1, <2>2, <2>3, SuffixUnique
<1>5. CASE ~(w <= 0 \/ s = <<>>)
  <2> DEFINE young == {i \in DOMAIN s : ~Old(w, s[Len(s)].t, s[i])}
  <2>1. DOMAIN s = 1..Len(s) /\ Len(s) \in 1..Len(s)
    BY <1>1, <1>2, <1>5
  <2>2. \A i \in 1..Len(s) : i \in young <=> i > k
    <3> SUFFICES ASSUME NEW i \in 1..Len(s) PROVE i \in young <=> i > k
      OBVIOUS
    <3>1. Old(w, s[Len(s)].t, s[i]) <=> ~(s[Len(s)].t - s[i].t <= w)
      BY <1>1, <2>1 DEF Old
    <3>2. i \in young <=> Young(s, w, i)
      BY <1>5, <2>1, <3>1 DEF Young
    <3> QED BY <1>2, <3>2
  <2>3. young \subseteq 1..Len(s)
    BY <2>1
  <2>4. Trimmed(s, w) = SubSeq(s, Min(young), Len(s))
    BY <1>5 DEF Trimmed
  <2> HIDE DEF young
  <2>5. Min(young) = k + 1
    <3>1. k + 1 \in young /\ \A i \in young : k + 1 <= i
      BY <1>1, <1>2, <1>5, <2>2, <2>3
    <3>2. \A x \in young : (\A y \in young : x <= y) => x = k + 1
      BY <1>1, <2>3, <3>1
    <3> QED BY <3>1, <3>2 DEF Min
  <2>6. /\ SubSeq(s, k + 1, Len(s)) \in Seq(Events)
        /\ Suffix(SubSeq(s, k + 1, Len(s)), s, k)
    BY <1>1, SubSeqSuffix
  <2>7. Trimmed(s, w) = SubSeq(s, k + 1, Len(s))
    BY <2>4, <2>5
  <2> DEFINE t == SubSeq(s, k + 1, Len(s))
  <2>8. t \in Seq(Events) /\ Suffix(t, s, k) /\ Trimmed(s, w) = t
    BY <2>6, <2>7
  <2> HIDE DEF t
  <2> QED BY <1>1, <1>3, <2>8, SuffixUnique
<1> QED BY <1>4, <1>5

\* One event later it is enough to look at what was reached before.
LEMMA ReachedLater ==
    ASSUME NEW s, NEW e \in Events, Timed(Append(s, e)), Timed(s), NEW w \in Int
    PROVE  /\ Timed(Append(Reached(s, w), e))
           /\ Reached(Append(Reached(s, w), e), w) = Reached(Append(s, e), w)
<1> DEFINE r == Reached(s, w)
           a == Append(s, e)
           b == Append(r, e)
<1>1. PICK k \in 0..Len(s) : \A i \in 1..Len(s) : Young(s, w, i) <=> i > k
  BY YoungAreLast
<1>2. r \in Seq(Events) /\ Suffix(r, s, k) /\ s \in Seq(Events)
  BY <1>1, ReachedIsSuffix DEF Timed
<1> HIDE DEF r
<1>3. Suffix(b, a, k) /\ b \in Seq(Events) /\ a \in Seq(Events)
  BY <1>2, SuffixAppend
<1>4. Timed(b)
  BY <1>3, TimedSuffix
<1>5. /\ Len(s) \in Nat /\ Len(r) \in Nat /\ Len(r) = Len(s) - k /\ k \in 0..Len(s)
  BY <1>2 DEF Suffix
<1>6. /\ Len(a) = Len(s) + 1 /\ a[Len(s) + 1] = e
      /\ \A i \in 1..Len(s) : a[i] = s[i]
      /\ Len(b) = Len(r) + 1
  BY <1>2
<1>7. PICK p \in 0..Len(a) : \A i \in 1..Len(a) : Young(a, w, i) <=> i > p
  BY YoungAreLast
<1>8. PICK q \in 0..Len(b) : \A i \in 1..Len(b) : Young(b, w, i) <=> i > q
  BY <1>4, YoungAreLast
<1>9. \A i \in 1..Len(b) : Young(b, w, i) <=> Young(a, w, i + k)
  <2>1. Len(a) \in Nat /\ Len(b) \in Nat /\ Len(b) # 0
    BY <1>5, <1>6
  <2> HIDE DEF a, b
  <2> QED BY <1>3, <2>1, YoungInSuffix
<1>10. Reached(a, w) \in Seq(Events) /\ Suffix(Reached(a, w), a, p)
  BY <1>7, ReachedIsSuffix
<1>11. Reached(b, w) \in Seq(Events) /\ Suffix(Reached(b, w), b, q)
  BY <1>4, <1>8, ReachedIsSuffix
<1>12. \A i \in 1..Len(a) : i <= k => ~Young(a, w, i)
  <2> SUFFICES ASSUME NEW i \in 1..Len(a), i <= k PROVE ~Young(a, w, i)
    OBVIOUS
  <2>1. i \in 1..Len(s) /\ Len(s) \in 1..Len(s) /\ Len(s) \in 1..Len(a) /\ Len(a) \in Len(s)..Len(a)
    BY <1>5, <1>6
  <2>2. ~Young(s, w, i)
    BY <1>1, <1>5, <2>1
  <2>3. a[i] = s[i] /\ a[Len(s)] = s[Len(s)] /\ a[Len(s)].t <= a[Len(a)].t
    BY <1>6, <2>1 DEF Timed
  <2>4. s[i].t \in Int /\ s[Len(s)].t \in Int /\ a[Len(a)].t \in Int
    <3>1. Len(a) \in 1..Len(a)
      BY <1>5, <1>6
    <3> HIDE DEF a
    <3> QED BY <2>1, <3>1, TimedTypes DEF a
  <2> QED BY <2>2, <2>3, <2>4 DEF Young
<1> HIDE DEF a, b
<1>13. \A i \in 1..Len(b) : i > q <=> i + k > p
  <2> SUFFICES ASSUME NEW i \in 1..Len(b) PROVE i > q <=> i + k > p
    OBVIOUS
  <2>1. i + k \in 1..Len(a)
    BY <1>5, <1>6
  <2> QED BY <1>7, <1>8, <1>9, <2>1
<1>14. p >= k
  <2>1. CASE k = 0
    BY <1>5, <1>6, <2>1
  <2>2. CASE k # 0
    BY <1>5, <1>6, <1>7, <1>12, <2>2
  <2> QED BY <2>1, <2>2
<1>15. p = k + q
  <2>1. p - k \in 0..Len(b) /\ Len(b) \in Nat
    BY <1>5, <1>6, <1>14
  <2>2. \A i \in 1..Len(b) : i > q <=> i > p - k
    BY <1>5, <1>6, <1>13
  <2>3. q \in Nat /\ q <= Len(b)
    BY <1>8, <2>1
  <2>4. ~(p - k < q)
    BY <2>1, <2>2, <2>3
  <2>5. ~(q < p - k)
    BY <2>1, <2>2, <2>3
  <2>6. p - k = q
    BY <2>1, <2>3, <2>4, <2>5
  <2>7. p \in Int /\ k \in Int
    BY <1>5, <1>6
  <2> QED BY <2>3, <2>6, <2>7
<1>16. Suffix(Reached(b, w), a, p)
  BY <1>3, <1>11, <1>15, SuffixTrans DEF a, b
<1>17. Reached(b, w) = Reached(a, w)
  BY <1>3, <1>10, <1>11, <1>16, SuffixUnique DEF a, b
<1> QED BY <1>4, <1>17 DEF a, b, r

\* A suffix in the sense of SequencesExt.
LEMMA SuffixIs ==
    ASSUME NEW T, NEW s \in Seq(T), NEW t \in Seq(T), NEW k, Suffix(t, s, k)
    PROVE  IsSuffix(t, s)
<1> DEFINE a == Reverse(t)
           b == Reverse(s)
           n == Len(t)
<1>1. /\ Len(s) \in Nat /\ n \in Nat /\ k \in 0..Len(s) /\ n = Len(s) - k /\ n <= Len(s)
  BY DEF Suffix
<1>2. /\ a \in Seq(T) /\ b \in Seq(T) /\ Len(a) = n /\ Len(b) = Len(s)
      /\ \A i \in 1..n : a[i] = t[(n - i) + 1]
      /\ \A i \in 1..Len(s) : b[i] = s[(Len(s) - i) + 1]
  BY DEF Reverse
<1>3. \A i \in 1..n : a[i] = b[i]
  <2> SUFFICES ASSUME NEW i \in 1..n PROVE a[i] = b[i]
    OBVIOUS
  <2>1. (n - i) + 1 \in 1..n /\ ((n - i) + 1) + k = (Len(s) - i) + 1 /\ i \in 1..Len(s)
    BY <1>1
  <2>2. t[(n - i) + 1] = s[((n - i) + 1) + k]
    BY <2>1 DEF Suffix
  <2> HIDE DEF a, b, n
  <2> QED BY <1>2, <2>1, <2>2
<1> HIDE DEF a, b, n
<1>4. SubSeq(a, 1, n) = SubSeq(b, 1, n)
  <2>1. /\ SubSeq(a, 1, n) \in Seq(T) /\ Len(SubSeq(a, 1, n)) = n
        /\ \A i \in 1..n : SubSeq(a, 1, n)[i] = a[i]
    BY <1>1, <1>2
  <2>2. /\ SubSeq(b, 1, n) \in Seq(T) /\ Len(SubSeq(b, 1, n)) = n
        /\ \A i \in 1..n : SubSeq(b, 1, n)[i] = b[i]
    BY <1>1, <1>2
  <2> QED BY <1>3, <2>1, <2>2
<1> QED BY <1>1, <1>2, <1>4 DEF IsSuffix, IsPrefix, a, b

\* What is reached once is reached again.
LEMMA ReachedTwice ==
    ASSUME NEW s, Timed(s), NEW w \in Int
    PROVE  Timed(Reached(s, w)) /\ Reached(Reached(s, w), w) = Reached(s, w)
<1> DEFINE r == Reached(s, w)
<1>1. PICK k \in 0..Len(s) : /\ \A i \in 1..Len(s) : Young(s, w, i) <=> i > k
                             /\ s # <<>> => k < Len(s)
  BY YoungAreLast
<1>2. r \in Seq(Events) /\ Suffix(r, s, k)
  BY <1>1, ReachedIsSuffix
<1> HIDE DEF r
<1>3. Timed(r)
  BY <1>2, TimedSuffix
<1>4. Len(s) \in Nat /\ Len(r) \in Nat /\ Len(r) = Len(s) - k /\ k \in 0..Len(s)
  BY <1>2, TimedTypes DEF Suffix
<1>5. \A i \in 1..Len(r) : Young(r, w, i) <=> i > 0
  <2> SUFFICES ASSUME NEW i \in 1..Len(r) PROVE Young(r, w, i)
    BY <1>4
  <2>1. i + k \in 1..Len(s) /\ i + k > k /\ Len(r) # 0
    BY <1>4
  <2>2. Young(s, w, i + k)
    BY <1>1, <2>1
  <2> QED BY <1>2, <1>4, <2>1, <2>2, YoungInSuffix
<1>6. 0 \in 0..Len(r)
  BY <1>4
<1>7. Reached(r, w) \in Seq(Events) /\ Suffix(Reached(r, w), r, 0)
  BY <1>3, <1>5, <1>6, ReachedIsSuffix
<1>8. Suffix(r, r, 0)
  BY <1>4 DEF Suffix
<1> QED BY <1>2, <1>3, <1>7, <1>8, SuffixUnique DEF r

\* An event that is not older may follow.
LEMMA TimedAppend ==
    ASSUME NEW s, Timed(s), NEW e \in Events, \A i \in 1..Len(s) : s[i].t <= e.t
    PROVE  Timed(Append(s, e))
<1> DEFINE a == Append(s, e)
<1>1. s \in Seq(Events)
  BY DEF Timed
<1>2. /\ a \in Seq(Events) /\ Len(a) = Len(s) + 1 /\ a[Len(s) + 1] = e /\ Len(s) \in Nat
      /\ \A i \in 1..Len(s) : a[i] = s[i]
  BY <1>1
<1>3. e.t \in Nat
  BY DEF Events
<1> HIDE DEF a
<1>4. ASSUME NEW i \in 1..Len(a), NEW j \in i..Len(a) PROVE a[i].t <= a[j].t
  <2>1. CASE j = Len(s) + 1
    <3>1. CASE i = Len(s) + 1
      BY <1>2, <1>3, <2>1, <3>1
    <3>2. CASE i # Len(s) + 1
      <4>1. i \in 1..Len(s)
        BY <1>2, <3>2
      <4> QED BY <1>2, <2>1, <4>1
    <3> QED BY <3>1, <3>2
  <2>2. CASE j # Len(s) + 1
    <3>1. i \in 1..Len(s) /\ j \in i..Len(s) /\ j \in 1..Len(s)
      BY <1>2, <2>2
    <3> QED BY <1>2, <3>1 DEF Timed
  <2> QED BY <2>1, <2>2
<1> QED BY <1>2, <1>4 DEF Timed, a

\* Nothing is reached of no events.
LEMMA ReachedNone ==
    ASSUME NEW w
    PROVE  Reached(<<>>, w) = <<>>
  BY AmongNone DEF Reached

-------------------------------------------------------------------------------
(* The cells.                                                              *)

GridCells == (0..Cells[1] - 1) \X (0..Cells[2] - 1)

\* A size of a cell is large enough for the cells to cover the sensor.
LEMMA Covers ==
    ASSUME NEW n \in Nat \ {0}, NEW m \in Nat \ {0}, NEW x \in 0..n - 1
    PROVE  x \div ((n + m - 1) \div m) \in 0..m - 1
<1> DEFINE k == (n + m - 1) \div m
           q == x \div k
<1>1. /\ k \in Int /\ n + m - 1 < (k + 1) * m /\ k * m <= n + m - 1
  <2>1. /\ (n + m - 1) \in Nat /\ m \in Nat /\ m > 0
    OBVIOUS
  <2>2. /\ k \in Int
        /\ n + m - 1 = m * k + ((n + m - 1) % m)
        /\ (n + m - 1) % m \in 0..m - 1
    BY <2>1
  <2> HIDE DEF k
  <2>3. (k + 1) * m = m * k + m /\ k * m = m * k
    BY <2>1, <2>2
  <2> QED BY <2>2, <2>3
<1> HIDE DEF k
<1>2. k * m >= n
  <2>1. (k + 1) * m = k * m + m /\ k * m \in Int
    BY <1>1
  <2> DEFINE p == k * m
             r == (k + 1) * m
  <2>2. p \in Int /\ r = p + m /\ n + m - 1 < r
    BY <1>1, <2>1
  <2> HIDE DEF p, r
  <2>3. p >= n
    BY <2>2
  <2> QED BY <2>3 DEF p
<1>3. k > 0
  <2> SUFFICES ASSUME k <= 0 PROVE FALSE
    BY <1>1
  <2> DEFINE p == k * m
  <2>1. p <= 0 /\ p \in Int
    BY <1>1
  <2>2. p >= n
    BY <1>2
  <2> HIDE DEF p
  <2> QED BY <2>1, <2>2
<1>4. /\ q \in Int /\ x = k * q + (x % k) /\ x % k \in 0..k - 1
  BY <1>1, <1>3
<1> HIDE DEF q
<1>5. q >= 0
  <2> SUFFICES ASSUME q <= -1 PROVE FALSE
    BY <1>4
  <2>1. k * q <= -k
    BY <1>1, <1>3, <1>4
  <2>2. k * q \in Int
    BY <1>1, <1>4
  <2> QED BY <1>1, <1>4, <2>1, <2>2
<1>6. q < m
  <2> SUFFICES ASSUME q >= m PROVE FALSE
    BY <1>4
  <2>1. k * q >= k * m
    BY <1>1, <1>3, <1>4
  <2>2. k * q \in Int /\ k * m \in Int
    BY <1>1, <1>4
  <2> QED BY <1>1, <1>2, <1>4, <2>1, <2>2
<1> QED BY <1>4, <1>5, <1>6 DEF q, k

\* Every event on the sensor has a cell.
LEMMA CellsCoverSensor ==
    ASSUME NEW e, OnSensor(e)
    PROVE  CellOf(e) \in GridCells
<1>1. /\ SensorSize[1] \in Nat \ {0} /\ SensorSize[2] \in Nat \ {0}
      /\ Cells[1] \in Nat \ {0} /\ Cells[2] \in Nat \ {0}
  BY CellsAssumption
<1>2. e.x \in 0..SensorSize[1] - 1 /\ e.y \in 0..SensorSize[2] - 1
  BY DEF OnSensor
<1>3. e.x \div CellSize(1) \in 0..Cells[1] - 1
  BY <1>1, <1>2, Covers DEF CellSize
<1>4. e.y \div CellSize(2) \in 0..Cells[2] - 1
  BY <1>1, <1>2, Covers DEF CellSize
<1> QED BY <1>3, <1>4 DEF CellOf, GridCells

\* The place of a cell is in the vector of the cells, and is of no other.
LEMMA PlacesApart ==
    ASSUME NEW n \in Nat \ {0}, NEW m \in Nat \ {0},
           NEW x \in 0..n - 1, NEW y \in 0..m - 1, NEW u \in 0..n - 1, NEW v \in 0..m - 1
    PROVE  /\ y * n + x \in 0..n * m - 1
           /\ y * n + x = v * n + u => x = u /\ y = v
<1>1. y * n \in Int /\ v * n \in Int /\ n * m \in Int /\ y * n >= 0
  OBVIOUS
<1>2. y * n <= (m - 1) * n /\ (m - 1) * n = n * m - n
  OBVIOUS
<1>3. y * n + x \in 0..n * m - 1
  BY <1>1, <1>2
<1>4. ASSUME y * n + x = v * n + u PROVE x = u /\ y = v
  <2>1. (y - v) * n = u - x
    BY <1>1, <1>4
  <2>2. u - x < n /\ u - x > -n
    OBVIOUS
  <2>3. y - v < 1
    <3> SUFFICES ASSUME y - v >= 1 PROVE FALSE
      OBVIOUS
    <3>1. (y - v) * n >= n
      OBVIOUS
    <3> QED BY <2>1, <2>2, <3>1
  <2>4. y - v > -1
    <3> SUFFICES ASSUME y - v <= -1 PROVE FALSE
      OBVIOUS
    <3>1. (y - v) * n <= -n
      OBVIOUS
    <3> QED BY <2>1, <2>2, <3>1
  <2>5. y = v
    BY <2>3, <2>4
  <2> QED BY <2>5, <1>4
<1> QED BY <1>3, <1>4

\* The place of a cell in the vector is there, and is of no other cell.
LEMMA CellsApart ==
    ASSUME NEW c \in GridCells, NEW d \in GridCells
    PROVE  /\ CellIndex(c) \in 0..Cells[1] * Cells[2] - 1
           /\ CellIndex(c) = CellIndex(d) => c = d
<1>1. Cells[1] \in Nat \ {0} /\ Cells[2] \in Nat \ {0}
  BY CellsAssumption
<1>2. /\ c[1] \in 0..Cells[1] - 1 /\ c[2] \in 0..Cells[2] - 1 /\ c = <<c[1], c[2]>>
      /\ d[1] \in 0..Cells[1] - 1 /\ d[2] \in 0..Cells[2] - 1 /\ d = <<d[1], d[2]>>
  BY DEF GridCells
<1>3. /\ c[2] * Cells[1] + c[1] \in 0..Cells[1] * Cells[2] - 1
      /\ c[2] * Cells[1] + c[1] = d[2] * Cells[1] + d[1] => c[1] = d[1] /\ c[2] = d[2]
  BY <1>1, <1>2, PlacesApart
<1> QED BY <1>2, <1>3 DEF CellIndex

\* What s has of the cell c.
InCell(e, c) == OnSensor(e) /\ CellOf(e) = c
CellEvents(s, c) == Among(s, {e \in Range(s) : InCell(e, c)})

\* One event more is the cell's, or is not.
LEMMA CellEventsAppend ==
    ASSUME NEW s \in Seq(Events), NEW e \in Events, NEW c
    PROVE  CellEvents(Append(s, e), c) =
             IF InCell(e, c) THEN Append(CellEvents(s, c), e) ELSE CellEvents(s, c)
<1> DEFINE a == Append(s, e)
           R == {x \in Range(s) : InCell(x, c)}
           S == {x \in Range(a) : InCell(x, c)}
<1>1. Len(s) \in Nat /\ Len(a) = Len(s) + 1 /\ a[Len(s) + 1] = e
  OBVIOUS
<1>2. \A i \in 1..Len(s) : s[i] \in Range(s)
  BY DEF Range
<1>3. \A i \in 1..Len(s) : s[i] \in Range(a)
  <2>1. \A i \in 1..Len(s) : a[i] = s[i] /\ i \in DOMAIN a
    OBVIOUS
  <2> QED BY <2>1 DEF Range
<1>4. e \in Range(a)
  <2>1. Len(a) \in DOMAIN a /\ a[Len(a)] = e
    OBVIOUS
  <2> QED BY <2>1 DEF Range
<1>5. \A i \in 1..Len(s) : s[i] \in R <=> s[i] \in S
  BY <1>2, <1>3
<1>6. e \in S <=> InCell(e, c)
  BY <1>4
<1> HIDE DEF R, S
<1>7. Among(s, R) = Among(s, S)
  BY <1>1, <1>5, AmongSame
<1>8. Among(a, S) = IF e \in S THEN Append(Among(s, S), e) ELSE Among(s, S)
  BY AmongAppend
<1> QED BY <1>6, <1>7, <1>8 DEF CellEvents, R, S

\* What the cell has was pushed.
LEMMA CellEventsType ==
    ASSUME NEW s \in Seq(Events), NEW c
    PROVE  /\ CellEvents(s, c) \in Seq(Events)
           /\ \A i \in 1..Len(CellEvents(s, c)) : \E j \in 1..Len(s) : CellEvents(s, c)[i] = s[j]
<1> DEFINE S == {x \in Range(s) : InCell(x, c)}
           r == Among(s, S)
<1>1. r \in Seq(Events \cap S)
  BY AmongType
<1>2. Seq(Events \cap S) \subseteq Seq(Events)
  OBVIOUS
<1>3. {r[j] : j \in 1..Len(r)} = {s[i] : i \in 1..Len(s)} \cap S
  <2> HIDE DEF S
  <2> QED BY AmongRange
<1> HIDE DEF S, r
<1>4. \A i \in 1..Len(r) : \E j \in 1..Len(s) : r[i] = s[j]
  BY <1>3
<1> QED BY <1>1, <1>2, <1>4 DEF CellEvents, r, S

-------------------------------------------------------------------------------
(* The window and the grid.                                                *)

PushedInv == Timed(pushed) /\ \A i \in 1..Len(pushed) : pushed[i].t <= now

\* The window has the end of what was pushed, with all that came since setWindow()
\* and that it reaches.
SlideInv ==
    /\ slide \in [window : Int, events : Seq(Events)]
    /\ since \in 0..Len(pushed)
    /\ Reached(slide.events, slide.window) = slide.events
    /\ \E a \in 0..Len(pushed) :
         /\ Suffix(slide.events, pushed, a)
         /\ \A i \in since + 1..Len(pushed) : Young(pushed, slide.window, i) => i > a

\* A cell has what its window reaches of its own events.
GridInv ==
    /\ grid \in [0..Cells[1] * Cells[2] - 1 -> Seq(Events)]
    /\ \A c \in GridCells :
         /\ Timed(CellEvents(pushed, c))
         /\ grid[CellIndex(c)] = Reached(CellEvents(pushed, c), CellWindow)

ContainersInv == PushedInv /\ SlideInv /\ GridInv

\* An event that is pushed is the newest.
LEMMA PushedLast ==
    ASSUME PushedInv, NEW e \in Events, e.t = now, now' = now, pushed' = Append(pushed, e)
    PROVE  PushedInv'
<1>1. Timed(Append(pushed, e))
  BY TimedAppend DEF PushedInv
<1>2. ASSUME NEW i \in 1..Len(Append(pushed, e)) PROVE Append(pushed, e)[i].t <= now
  <2>1. /\ pushed \in Seq(Events) /\ e.t \in Nat
    BY DEF PushedInv, Timed, Events
  <2>2. CASE i = Len(pushed) + 1
    BY <2>1, <2>2
  <2>3. CASE i # Len(pushed) + 1
    BY <2>1, <2>3 DEF PushedInv
  <2> QED BY <2>2, <2>3
<1> DEFINE a == pushed'
<1>3. Timed(a) /\ \A i \in 1..Len(a) : a[i].t <= now'
  BY <1>1, <1>2
<1> QED BY <1>3 DEF PushedInv, Timed

\* push() of the sliding window.
LEMMA SlidePushed ==
    ASSUME NEW s, Timed(s), NEW e \in Events, Timed(Append(s, e)), NEW w \in Int,
           NEW r \in Seq(Events), NEW n \in 0..Len(s), NEW a \in 0..Len(s),
           Suffix(r, s, a), \A i \in n + 1..Len(s) : Young(s, w, i) => i > a
    PROVE  LET v == Trimmed(Append(r, e), w)
           IN  /\ v \in Seq(Events) /\ Reached(v, w) = v
               /\ \E b \in 0..Len(s) + 1 :
                    /\ Suffix(v, Append(s, e), b)
                    /\ \A i \in n + 1..Len(s) + 1 : Young(Append(s, e), w, i) => i > b
<1> DEFINE p == Append(s, e)
           q == Append(r, e)
           v == Trimmed(q, w)
<1>1. s \in Seq(Events) /\ p \in Seq(Events) /\ q \in Seq(Events)
  BY DEF Timed
<1>2. Suffix(q, p, a)
  BY <1>1, SuffixAppend
<1>3. /\ Len(s) \in Nat /\ Len(p) = Len(s) + 1 /\ Len(q) = Len(r) + 1 /\ Len(r) \in Nat
      /\ p[Len(s) + 1] = e /\ \A i \in 1..Len(s) : p[i] = s[i]
  BY <1>1
<1>4. Len(r) = Len(s) - a
  BY DEF Suffix
<1> HIDE DEF p, q
<1>5. Timed(p)
  BY DEF p
<1>6. Timed(q)
  BY <1>1, <1>2, <1>5, TimedSuffix
<1>7. v = Reached(q, w)
  BY <1>6, TrimmedIsReached
<1>8. PICK m \in 0..Len(q) : \A i \in 1..Len(q) : Young(q, w, i) <=> i > m
  BY <1>6, YoungAreLast
<1>9. v \in Seq(Events) /\ Suffix(v, q, m)
  BY <1>6, <1>7, <1>8, ReachedIsSuffix
<1> HIDE DEF v
<1>10. Reached(v, w) = v
  BY <1>6, <1>7, ReachedTwice
<1>11. Suffix(v, p, a + m)
  BY <1>1, <1>2, <1>9, SuffixTrans
<1>12. a + m \in 0..Len(s) + 1
  BY <1>3, <1>11 DEF Suffix
<1>13. ASSUME NEW i \in n + 1..Len(s) + 1, Young(p, w, i) PROVE i > a + m
  <2>1. i > a
    <3>1. CASE i = Len(s) + 1
      BY <1>3, <3>1
    <3>2. CASE i # Len(s) + 1
      <4>1. i \in n + 1..Len(s) /\ i \in 1..Len(s) /\ Len(s) \in 1..Len(s)
        BY <1>3, <3>2
      <4>2. Len(s) \in 1..Len(p) /\ Len(p) \in Len(s)..Len(p) /\ Len(p) \in 1..Len(p)
        BY <1>3, <4>1
      <4>3. p[Len(s)].t <= p[Len(p)].t
        BY <1>5, <4>2 DEF Timed
      <4>4. s[i].t \in Int /\ s[Len(s)].t \in Int /\ p[Len(p)].t \in Int
        BY <1>5, <4>1, <4>2, TimedTypes
      <4>5. p[i] = s[i] /\ p[Len(s)] = s[Len(s)]
        BY <1>3, <4>1
      <4>6. Young(s, w, i)
        <5> DEFINE x == s[i].t
                   y == s[Len(s)].t
                   z == p[Len(p)].t
        <5>1. w <= 0 \/ z - x <= w
          BY <1>13, <4>5 DEF Young
        <5>2. y <= z /\ x \in Int /\ y \in Int /\ z \in Int
          BY <4>3, <4>4, <4>5
        <5> HIDE DEF x, y, z
        <5>3. w <= 0 \/ y - x <= w
          BY <5>1, <5>2
        <5> QED BY <5>3 DEF Young, x, y
      <4> QED BY <4>1, <4>6
    <3> QED BY <3>1, <3>2
  <2>2. i - a \in 1..Len(q) /\ (i - a) + a = i /\ Len(p) \in Nat /\ Len(q) \in Nat /\ Len(q) # 0
    BY <1>3, <1>4, <2>1
  <2>3. Young(q, w, i - a) <=> Young(p, w, (i - a) + a)
    BY <1>2, <2>2, YoungInSuffix
  <2>4. i - a > m
    BY <1>8, <1>13, <2>2, <2>3
  <2> QED BY <1>3, <1>8, <2>4
<1> QED BY <1>9, <1>10, <1>11, <1>12, <1>13 DEF v, q, p

\* insert() of an event that a cell takes.
LEMMA CellPushed ==
    ASSUME NEW s, Timed(s), NEW e \in Events, Timed(Append(s, e)), NEW w \in Int
    PROVE  Trimmed(Append(Reached(s, w), e), w) = Reached(Append(s, e), w)
  BY TrimmedIsReached, ReachedLater

\* push() of both, and insert().
LEMMA PushKeeps ==
    ASSUME ContainersInv, NEW e \in Events, e.t = now, now' = now, Push(e)
    PROVE  ContainersInv'
<1>0. /\ Timed(pushed) /\ \A i \in 1..Len(pushed) : pushed[i].t <= now
      /\ pushed \in Seq(Events) /\ Len(pushed) \in Nat
  BY DEF ContainersInv, PushedInv, Timed
<1>1. /\ pushed' = Append(pushed, e) /\ since' = since
      /\ slide' = [slide EXCEPT !.events = Trimmed(Append(@, e), slide.window)]
      /\ grid' = Inserted(e)
  BY DEF Push
<1>2. PushedInv'
  BY <1>1, PushedLast DEF ContainersInv
<1>3. Timed(Append(pushed, e)) /\ Len(Append(pushed, e)) = Len(pushed) + 1
  BY <1>0, TimedAppend
<1>4. SlideInv'
  <2>1. /\ slide \in [window : Int, events : Seq(Events)] /\ since \in 0..Len(pushed)
    BY DEF ContainersInv, SlideInv
  <2>2. PICK a \in 0..Len(pushed) :
          /\ Suffix(slide.events, pushed, a)
          /\ \A i \in since + 1..Len(pushed) : Young(pushed, slide.window, i) => i > a
    BY DEF ContainersInv, SlideInv
  <2> DEFINE v == Trimmed(Append(slide.events, e), slide.window)
  <2>3. slide.window \in Int /\ slide.events \in Seq(Events)
    BY <2>1
  <2>4. /\ v \in Seq(Events) /\ Reached(v, slide.window) = v
        /\ \E b \in 0..Len(pushed) + 1 :
             /\ Suffix(v, Append(pushed, e), b)
             /\ \A i \in since + 1..Len(pushed) + 1 :
                  Young(Append(pushed, e), slide.window, i) => i > b
    BY <1>0, <1>3, <2>1, <2>2, <2>3, SlidePushed
  <2> HIDE DEF v
  <2>5. slide' = [slide EXCEPT !.events = v]
    BY <1>1 DEF v
  <2>6. slide' \in [window : Int, events : Seq(Events)] /\ slide'.events = v /\ slide'.window = slide.window
    BY <2>1, <2>4, <2>5
  <2>7. since' \in 0..Len(pushed') /\ Len(pushed') = Len(pushed) + 1
    BY <1>0, <1>1, <1>3, <2>1
  <2> QED BY <1>1, <2>4, <2>6, <2>7 DEF SlideInv, Suffix, Young, Reached
<1>5. GridInv'
  <2>1. /\ grid \in [0..Cells[1] * Cells[2] - 1 -> Seq(Events)]
        /\ \A c \in GridCells :
             /\ Timed(CellEvents(pushed, c))
             /\ grid[CellIndex(c)] = Reached(CellEvents(pushed, c), CellWindow)
    BY DEF ContainersInv, GridInv
  <2>2. CellWindow \in Int
    BY WindowsAssumption
  <2>3. ASSUME NEW c \in GridCells
        PROVE  /\ Timed(Append(CellEvents(pushed, c), e))
               /\ CellEvents(Append(pushed, e), c) =
                    IF InCell(e, c) THEN Append(CellEvents(pushed, c), e)
                    ELSE CellEvents(pushed, c)
    <3>1. \A i \in 1..Len(CellEvents(pushed, c)) : CellEvents(pushed, c)[i].t <= e.t
      BY <1>0, CellEventsType
    <3> QED BY <1>0, <2>1, <3>1, TimedAppend, CellEventsAppend
  <2>4. ASSUME NEW c \in GridCells
        PROVE  /\ Timed(CellEvents(Append(pushed, e), c))
               /\ Inserted(e)[CellIndex(c)] = Reached(CellEvents(Append(pushed, e), c), CellWindow)
    <3>1. CellIndex(c) \in DOMAIN grid
      BY <2>1, CellsApart
    <3>2. CASE InCell(e, c)
      <4>1. Inserted(e)[CellIndex(c)] = Trimmed(Append(grid[CellIndex(c)], e), CellWindow)
        BY <3>1, <3>2 DEF Inserted, InCell
      <4> QED BY <2>1, <2>2, <2>3, <3>2, <4>1, CellPushed
    <3>3. CASE ~InCell(e, c)
      <4>1. Inserted(e)[CellIndex(c)] = grid[CellIndex(c)]
        <5>1. CASE ~OnSensor(e)
          BY <5>1 DEF Inserted
        <5>2. CASE OnSensor(e)
          <6>1. CellOf(e) # c /\ CellOf(e) \in GridCells
            BY <3>3, <5>2, CellsCoverSensor DEF InCell
          <6>2. CellIndex(CellOf(e)) # CellIndex(c)
            BY <6>1, CellsApart
          <6> QED BY <3>1, <5>2, <6>2 DEF Inserted
        <5> QED BY <5>1, <5>2
      <4> QED BY <2>1, <2>3, <3>3, <4>1
    <3> QED BY <3>2, <3>3
  <2>5. Inserted(e) \in [0..Cells[1] * Cells[2] - 1 -> Seq(Events)]
    <3>1. CASE ~OnSensor(e)
      BY <2>1, <3>1 DEF Inserted
    <3>2. CASE OnSensor(e)
      <4>1. CellOf(e) \in GridCells
        BY <3>2, CellsCoverSensor
      <4>2. Trimmed(Append(grid[CellIndex(CellOf(e))], e), CellWindow) \in Seq(Events)
        <5>1. InCell(e, CellOf(e))
          BY <3>2 DEF InCell
        <5> DEFINE q == Append(CellEvents(pushed, CellOf(e)), e)
        <5>2. Timed(q)
          BY <2>3, <4>1
        <5>3. Trimmed(Append(grid[CellIndex(CellOf(e))], e), CellWindow) = Reached(q, CellWindow)
          BY <2>1, <2>2, <4>1, <5>2, CellPushed
        <5> HIDE DEF q
        <5>4. Reached(q, CellWindow) \in Seq(Events)
          BY <2>2, <5>2, ReachedTwice DEF Timed
        <5> QED BY <5>3, <5>4
      <4> QED BY <2>1, <3>2, <4>2 DEF Inserted
    <3> QED BY <3>1, <3>2
  <2>6. /\ grid' \in [0..Cells[1] * Cells[2] - 1 -> Seq(Events)]
        /\ \A c \in GridCells :
             /\ Timed(CellEvents(pushed', c))
             /\ grid'[CellIndex(c)] = Reached(CellEvents(pushed', c), CellWindow)
    BY <1>1, <2>4, <2>5, ZenonT(30)
  <2> QED BY <2>6, ZenonT(60) DEF GridInv, CellEvents, Reached, Timed, GridCells, CellIndex, InCell, OnSensor, CellOf, CellSize
<1> QED BY <1>2, <1>4, <1>5 DEF ContainersInv

\* trim() after setWindow().
LEMMA WindowSet ==
    ASSUME ContainersInv, UNCHANGED now, SetWindow
    PROVE  ContainersInv'
<1>0. /\ Timed(pushed) /\ pushed \in Seq(Events) /\ Len(pushed) \in Nat
  BY DEF ContainersInv, PushedInv, Timed
<1>1. UNCHANGED <<grid, pushed>> /\ since' = Len(pushed)
  BY DEF SetWindow
<1>2. PushedInv' /\ GridInv'
  BY <1>1 DEF ContainersInv, PushedInv, GridInv
<1>3. PICK w \in Windows : slide' = [window |-> w, events |-> Trimmed(slide.events, w)]
  BY DEF SetWindow
<1>4. w \in Int
  BY WindowsAssumption
<1>5. PICK a \in 0..Len(pushed) : Suffix(slide.events, pushed, a)
  BY DEF ContainersInv, SlideInv
<1>6. slide.events \in Seq(Events)
  BY DEF ContainersInv, SlideInv
<1>7. Timed(slide.events)
  BY <1>0, <1>5, <1>6, TimedSuffix
<1> DEFINE v == Trimmed(slide.events, w)
<1>8. v = Reached(slide.events, w)
  BY <1>4, <1>7, TrimmedIsReached
<1>9. PICK m \in 0..Len(slide.events) :
        \A i \in 1..Len(slide.events) : Young(slide.events, w, i) <=> i > m
  BY <1>4, <1>7, YoungAreLast
<1>10. v \in Seq(Events) /\ Suffix(v, slide.events, m)
  BY <1>4, <1>7, <1>8, <1>9, ReachedIsSuffix
<1>11. slide' = [window |-> w, events |-> v]
  BY <1>3
<1> HIDE DEF v
<1>12. Reached(v, w) = v
  BY <1>4, <1>7, <1>8, ReachedTwice
<1>13. Suffix(v, pushed, a + m) /\ a + m \in 0..Len(pushed)
  BY <1>0, <1>5, <1>6, <1>10, SuffixTrans DEF Suffix
<1>14. slide' \in [window : Int, events : Seq(Events)] /\ slide'.events = v /\ slide'.window = w
  BY <1>4, <1>10, <1>11
<1>15. since' \in 0..Len(pushed') /\ \A i \in since' + 1..Len(pushed') : FALSE
  BY <1>0, <1>1
<1>16. SlideInv'
  BY <1>1, <1>12, <1>13, <1>14, <1>15 DEF SlideInv, Suffix, Young, Reached
<1> QED BY <1>2, <1>16 DEF ContainersInv

\* What there is of no events.
LEMMA NothingPushed ==
    /\ <<>> \in Seq(Events) /\ Len(<<>>) = 0 /\ Timed(<<>>) /\ Suffix(<<>>, <<>>, 0)
    /\ \A w : Reached(<<>>, w) = <<>>
    /\ EmptyGrid \in [0..Cells[1] * Cells[2] - 1 -> Seq(Events)]
    /\ \A c \in GridCells : CellEvents(<<>>, c) = <<>> /\ EmptyGrid[CellIndex(c)] = <<>>
<1>1. <<>> \in Seq(Events) /\ Len(<<>>) = 0
  OBVIOUS
<1>2. Timed(<<>>) /\ Suffix(<<>>, <<>>, 0)
  BY <1>1 DEF Timed, Suffix
<1>3. \A c : CellEvents(<<>>, c) = <<>>
  BY AmongNone DEF CellEvents
<1>4. EmptyGrid \in [0..Cells[1] * Cells[2] - 1 -> Seq(Events)]
  BY <1>1 DEF EmptyGrid
<1>5. \A c \in GridCells : EmptyGrid[CellIndex(c)] = <<>>
  BY CellsApart DEF EmptyGrid
<1> QED BY <1>1, <1>2, <1>3, <1>4, <1>5, ReachedNone

\* The containers begin empty.
LEMMA ContainersInitInv ==
    ASSUME Init
    PROVE  ContainersInv
<1>1. /\ pushed = <<>> /\ since = 0 /\ grid = EmptyGrid
  BY DEF Init, ContainersInit
<1>2. PICK w \in Windows : slide = [window |-> w, events |-> <<>>]
  BY DEF Init, ContainersInit
<1>3. /\ slide \in [window : Int, events : Seq(Events)] /\ slide.events = <<>>
  BY <1>2, NothingPushed, WindowsAssumption
<1>4. PushedInv
  BY <1>1, NothingPushed DEF PushedInv
<1>5. SlideInv
  BY <1>1, <1>3, NothingPushed DEF SlideInv
<1>6. GridInv
  BY <1>1, NothingPushed DEF GridInv
<1> QED BY <1>4, <1>5, <1>6 DEF ContainersInv

\* clear() of the three.
LEMMA ContainersCleared ==
    ASSUME ContainersInv, Clear
    PROVE  ContainersInv'
<1>1. /\ pushed' = <<>> /\ since' = 0 /\ grid' = EmptyGrid
      /\ slide' = [slide EXCEPT !.events = <<>>]
  BY DEF Clear
<1>2. slide \in [window : Int, events : Seq(Events)]
  BY DEF ContainersInv, SlideInv
<1>3. /\ slide' \in [window : Int, events : Seq(Events)] /\ slide'.events = <<>>
  BY <1>1, <1>2, NothingPushed
<1>4. PushedInv'
  BY <1>1, NothingPushed DEF PushedInv, Timed
<1>5. SlideInv'
  BY <1>1, <1>3, NothingPushed DEF SlideInv, Suffix, Reached, Young
<1>6. GridInv'
  <2> DEFINE g == EmptyGrid
  <2>1. /\ g \in [0..Cells[1] * Cells[2] - 1 -> Seq(Events)]
        /\ \A c \in GridCells :
             Timed(CellEvents(<<>>, c)) /\ g[CellIndex(c)] = Reached(CellEvents(<<>>, c), CellWindow)
    BY NothingPushed
  <2> HIDE DEF g
  <2>2. pushed' = <<>> /\ grid' = g
    BY <1>1 DEF g
  <2> QED BY <2>1, <2>2 DEF GridInv
<1> QED BY <1>4, <1>5, <1>6 DEF ContainersInv

\* Whatever the program does, the time goes on and the containers keep what they have
\* unless it pushes, sets the window or clears.
LEMMA ContainersKeep ==
    ASSUME IInv, ContainersInv, [Next]_vars
    PROVE  ContainersInv'
<1>1. CASE Store
  <2>1. flight # <<>> /\ Push(flight[1]) /\ now' = now
    BY <1>1 DEF Store, Passed
  <2>2. flight[1] \in Events /\ flight[1].t = now
    BY <2>1 DEF IInv, FlightInv
  <2> QED BY <2>1, <2>2, PushKeeps
<1>2. CASE SetContainers
  <2>1. now' = now /\ (SetWindow \/ Clear)
    BY <1>2 DEF SetContainers, Setting
  <2> QED BY <2>1, WindowSet, ContainersCleared
<1>3. CASE UNCHANGED containers /\ now' >= now /\ now' \in Nat
  <2>1. UNCHANGED <<slide, grid, pushed, since>>
    BY <1>3 DEF containers
  <2>2. now \in Nat /\ \A i \in 1..Len(pushed) : pushed[i].t \in Int
    BY TimedTypes DEF IInv, FlightInv, ContainersInv, PushedInv
  <2>3. PushedInv'
    BY <1>3, <2>1, <2>2 DEF ContainersInv, PushedInv
  <2>4. SlideInv' /\ GridInv'
    BY <2>1 DEF ContainersInv, SlideInv, GridInv
  <2> QED BY <2>3, <2>4 DEF ContainersInv
<1>4. CASE Arrive
  <2>1. PICK d : now' = now + d /\ \E q \in program.delays : d = q
    BY <1>4 DEF Arrive
  <2>2. d \in Nat /\ now \in Nat
    BY <2>1, ProgramsAssumption DEF IInv, FlightInv
  <2>3. UNCHANGED containers
    BY <1>4 DEF Arrive
  <2> QED BY <1>3, <2>1, <2>2, <2>3
<1>5. CASE \/ AskBackground \/ AskRefractory \/ AskHot \/ Undistort \/ Show
           \/ SetFilters \/ SetRepresentations \/ UNCHANGED vars
  <2>1. UNCHANGED <<containers, now>>
    BY <1>5 DEF AskBackground, AskRefractory, AskHot, Ask, Undistort, Show, Passed,
                SetFilters, SetRepresentations, Setting, vars
  <2>2. now \in Nat
    BY DEF IInv, FlightInv
  <2> QED BY <1>3, <2>1, <2>2
<1> QED BY <1>1, <1>2, <1>4, <1>5 DEF Next

\* The order of the times, the window and the cells are as above in every state.
THEOREM ContainersInvariant == Spec => []ContainersInv
<1>1. Init => ContainersInv
  BY ContainersInitInv
<1>2. IInv /\ ContainersInv /\ [Next]_vars => ContainersInv'
  BY ContainersKeep
<1> QED BY <1>1, <1>2, Invariant, PTL DEF Spec

\* The window follows from the invariant.
LEMMA WindowHolds == ContainersInv => WindowKeeps
<1> SUFFICES ASSUME ContainersInv PROVE WindowKeeps
  OBVIOUS
<1> DEFINE r == slide.events
           w == slide.window
           n == Len(pushed)
           u == SubSeq(pushed, since + 1, n)
<1>1. /\ Timed(pushed) /\ pushed \in Seq(Events) /\ n \in Nat /\ since \in 0..n
      /\ r \in Seq(Events) /\ Len(r) \in Nat /\ w \in Int /\ Reached(r, w) = r
  BY DEF ContainersInv, PushedInv, SlideInv, Timed
<1>2. PICK a \in 0..n : /\ Suffix(r, pushed, a)
                        /\ \A i \in since + 1..n : Young(pushed, w, i) => i > a
  BY DEF ContainersInv, SlideInv
<1>3. IsSuffix(r, pushed)
  BY <1>1, <1>2, SuffixIs
<1>4. u \in Seq(Events) /\ Suffix(u, pushed, since)
  BY <1>1, SubSeqSuffix
<1> DEFINE v == Reached(u, w)
<1>5. WindowKeeps <=> IsSuffix(r, pushed) /\ Reached(r, w) = r /\ IsSuffix(v, r)
  BY DEF WindowKeeps
<1> HIDE DEF u, r, w, n
<1>6. Timed(u) /\ Len(u) \in Nat /\ Len(u) = n - since
  <2>1. Timed(u)
    BY <1>1, <1>4, TimedSuffix
  <2>2. Len(u) \in Nat
    BY <1>4
  <2> QED BY <1>4, <2>1, <2>2 DEF Suffix, n
<1>7. PICK m \in 0..Len(u) : /\ \A i \in 1..Len(u) : Young(u, w, i) <=> i > m
                             /\ u # <<>> => m < Len(u)
  BY <1>1, <1>6, YoungAreLast
<1>8. v \in Seq(Events) /\ Suffix(v, u, m)
  BY <1>1, <1>6, <1>7, ReachedIsSuffix
<1>9. Suffix(v, pushed, since + m)
  BY <1>1, <1>4, <1>8, SuffixTrans
<1> HIDE DEF v
<1>10. Len(v) \in Nat /\ Len(v) = Len(u) - m
  BY <1>6, <1>8 DEF Suffix
<1>11. CASE Len(u) = 0
  <2>1. Len(v) = 0 /\ Suffix(v, r, Len(r))
    BY <1>1, <1>10, <1>11 DEF Suffix
  <2> QED BY <1>1, <1>3, <1>5, <1>8, <2>1, SuffixIs
<1>12. CASE Len(u) # 0
  <2>1. m < Len(u)
    BY <1>7, <1>12, NothingPushed
  <2>2. m + 1 \in 1..Len(u) /\ m + 1 > m /\ m \in Nat
    BY <1>6, <2>1
  <2>3. Young(pushed, w, (m + 1) + since)
    BY <1>1, <1>4, <1>6, <1>7, <1>12, <2>2, YoungInSuffix DEF n
  <2>4. (m + 1) + since \in since + 1..n
    BY <1>1, <1>6, <2>2
  <2>5. (m + 1) + since > a
    BY <1>2, <2>3, <2>4
  <2>6. a <= since + m
    BY <1>1, <1>2, <2>2, <2>5
  <2>7. Suffix(v, r, (since + m) - a)
    BY <1>1, <1>2, <1>9, <1>10, <2>6, SuffixBetween DEF n
  <2> QED BY <1>1, <1>3, <1>5, <1>8, <2>7, SuffixIs
<1> QED BY <1>11, <1>12

\* After any pushes, settings of its length and clearings, the sliding window has the
\* newest events and none too old, and all that came since its length was set.
THEOREM WindowIsExact == Spec => []WindowKeeps
<1> QED BY WindowHolds, ContainersInvariant, PTL

\* The cells follow from the invariant.
LEMMA GridHolds == ContainersInv => GridKeeps
<1> SUFFICES ASSUME ContainersInv PROVE GridKeeps
  OBVIOUS
<1>1. \A i \in DOMAIN pushed : OnSensor(pushed[i]) => CellOf(pushed[i]) \in GridCells
  BY CellsCoverSensor
<1>2. ASSUME NEW c \in GridCells
      PROVE  CellAt(c[2], c[1]) = Reached(OfCell(c), CellWindow)
  <2>1. c = <<c[1], c[2]>>
    BY DEF GridCells
  <2>2. CellAt(c[2], c[1]) = grid[CellIndex(c)]
    BY <2>1 DEF CellAt
  <2>3. OfCell(c) = CellEvents(pushed, c)
    BY DEF OfCell, CellEvents, InCell
  <2> QED BY <2>2, <2>3 DEF ContainersInv, GridInv
<1> QED BY <1>1, <1>2 DEF GridKeeps, GridCells

\* For every sensor and number of cells that the grid accepts, every event on the
\* sensor has a cell, and each cell has what its own window reaches of its own events.
THEOREM GridIsExact == Spec => []GridKeeps
<1> QED BY GridHolds, ContainersInvariant, PTL

-------------------------------------------------------------------------------
(* The counters of the histogram.                                          *)

CounterType == -CounterMax - 1..CounterMax

\* Two remainders that differ by a multiple of the divisor are the same.
LEMMA RemaindersMeet ==
    ASSUME NEW m \in Nat, m > 0, NEW a \in 0..m - 1, NEW b \in 0..m - 1,
           NEW k \in Int, a - b = k * m
    PROVE  a = b
<1>1. CASE k = 0
  BY <1>1
<1>2. CASE k >= 1
  <2>1. k * m >= m
    BY <1>2
  <2>2. k * m \in Int
    OBVIOUS
  <2> QED BY <2>1, <2>2
<1>3. CASE k <= -1
  <2>1. k * m <= -m
    BY <1>3
  <2>2. k * m \in Int
    OBVIOUS
  <2> QED BY <2>1, <2>2
<1> QED BY <1>1, <1>2, <1>3

\* Division with a remainder.
LEMMA Divided ==
    ASSUME NEW m \in Nat, m > 0, NEW a \in Int
    PROVE  a % m \in 0..m - 1 /\ \E k \in Int : a = k * m + (a % m)
<1>1. a % m \in 0..m - 1
  OBVIOUS
<1>2. a \div m \in Int /\ a = (a \div m) * m + (a % m)
  OBVIOUS
<1> QED BY <1>1, <1>2

\* The remainder may be taken before an addition, or after it.
LEMMA RemainderAdds ==
    ASSUME NEW m \in Nat, m > 0, NEW a \in Int, NEW d \in Int
    PROVE  ((a % m) + d) % m = (a + d) % m
<1> DEFINE r == a % m
<1>1. PICK k \in Int : a = k * m + r
  BY Divided
<1>2. r \in Int
  OBVIOUS
<1> HIDE DEF r
<1> DEFINE b == r + d
           c == a + d
           p == b % m
           q == c % m
<1>3. b \in Int /\ c \in Int
  BY <1>2
<1>4. PICK i \in Int : b = i * m + p
  <2> HIDE DEF b
  <2> QED BY <1>3, Divided
<1>5. PICK j \in Int : c = j * m + q
  <2> HIDE DEF c
  <2> QED BY <1>3, Divided
<1>6. p \in 0..m - 1 /\ q \in 0..m - 1
  BY <1>3
<1> HIDE DEF p, q
<1>7. p - q = ((j - k) - i) * m
  <2> DEFINE x == i * m
             y == j * m
             z == k * m
  <2>1. x \in Int /\ y \in Int /\ z \in Int /\ ((j - k) - i) * m = y - z - x
    OBVIOUS
  <2>2. r + d = x + p /\ a + d = y + q /\ a = z + r
    BY <1>1, <1>4, <1>5
  <2> HIDE DEF x, y, z
  <2> QED BY <1>2, <1>6, <2>1, <2>2
<1>8. p = q
  <2>1. (j - k) - i \in Int
    OBVIOUS
  <2> QED BY <1>6, <1>7, <2>1, RemaindersMeet
<1> QED BY <1>8 DEF p, q, r

\* A counter is of its type, and counting on from it gives what the events give
\* that it stands for; one event always changes it.
LEMMA WrappedCounts ==
    ASSUME NEW n \in Int, NEW d \in {-1, 1}
    PROVE  /\ Wrapped(n) \in CounterType
           /\ Wrapped(Wrapped(n) + d) = Wrapped(n + d)
           /\ Wrapped(n + d) # Wrapped(n)
<1> DEFINE c == CounterMax + 1
           m == 2 * (CounterMax + 1)
           a == n + c
<1>1. c \in Nat /\ m \in Nat /\ m > 0 /\ m >= 2 /\ a \in Int /\ m = 2 * c
  BY TypesAssumption
<1>2. Wrapped(n) = (a % m) - c /\ Wrapped(n + d) = ((a + d) % m) - c
  <2>1. (n + d) + CounterMax + 1 = a + d /\ n + CounterMax + 1 = a
    BY TypesAssumption
  <2> QED BY <2>1 DEF Wrapped
<1>3. Wrapped(Wrapped(n) + d) = (((a % m) + d) % m) - c
  <2>1. a % m \in Int
    BY <1>1
  <2>2. (((a % m) - c) + d) + CounterMax + 1 = (a % m) + d
    <3> DEFINE r == a % m
    <3> HIDE DEF r
    <3>1. r \in Int => ((r - c) + d) + CounterMax + 1 = r + d
      BY TypesAssumption
    <3> QED BY <2>1, <3>1 DEF r
  <2> QED BY <1>2, <2>2 DEF Wrapped
<1>4. a % m \in 0..m - 1 /\ (a + d) % m \in 0..m - 1
  <2>1. a + d \in Int
    BY <1>1
  <2> QED BY <1>1, <2>1
<1>5. (a + d) % m # a % m
  <2> DEFINE b == a + d
             r == a % m
             q == b % m
  <2>1. PICK i \in Int : a = i * m + r
    <3> HIDE DEF a, m
    <3> QED BY <1>1, Divided
  <2>2. PICK j \in Int : b = j * m + q
    <3>1. b \in Int
      BY <1>1
    <3> HIDE DEF b, m
    <3> QED BY <1>1, <3>1, Divided
  <2>3. r \in Int /\ q \in Int
    BY <1>4
  <2> HIDE DEF r, q
  <2> SUFFICES ASSUME q = r PROVE FALSE
    BY DEF r, q
  <2>4. d = (j - i) * m
    <3> HIDE DEF m, a
    <3> DEFINE x == i * m
               y == j * m
    <3>1. x \in Int /\ y \in Int /\ (j - i) * m = y - x
      BY <1>1, <2>1, <2>2
    <3>2. a = x + r /\ a + d = y + q
      BY <2>1, <2>2
    <3> HIDE DEF x, y
    <3> QED BY <1>1, <2>3, <3>1, <3>2
  <2>5. d \in Int /\ j - i \in Int
    BY <2>1, <2>2
  <2> DEFINE k == j - i
  <2> HIDE DEF m, a, k
  <2>6. CASE k = 0
    BY <1>1, <2>4, <2>6 DEF k
  <2>7. CASE k >= 1
    <3>1. k * m >= m
      BY <1>1, <2>5, <2>7 DEF k
    <3>2. k * m = d
      BY <2>4 DEF k
    <3> QED BY <1>1, <3>1, <3>2
  <2>8. CASE k <= -1
    <3>1. k * m <= -m
      BY <1>1, <2>5, <2>8 DEF k
    <3>2. k * m = d
      BY <2>4 DEF k
    <3> QED BY <1>1, <3>1, <3>2
  <2> QED BY <2>5, <2>6, <2>7, <2>8 DEF k
<1>6. ((a % m) + d) % m = (a + d) % m
  <2> HIDE DEF a, m
  <2>1. d \in Int
    OBVIOUS
  <2> QED BY <1>1, <2>1, RemainderAdds
<1> HIDE DEF a
<1>7. Wrapped(n) \in CounterType
  <2> DEFINE r == a % m
  <2>1. r \in 0..m - 1 /\ Wrapped(n) = r - c
    BY <1>2, <1>4
  <2> HIDE DEF r
  <2> QED BY <1>1, <2>1, TypesAssumption DEF CounterType
<1>8. Wrapped(n + d) # Wrapped(n)
  <2> DEFINE r == a % m
             q == (a + d) % m
  <2>1. /\ r \in 0..m - 1 /\ Wrapped(n) = r - c /\ r # q
        /\ q \in 0..m - 1 /\ Wrapped(n + d) = q - c
    BY <1>2, <1>4, <1>5
  <2> HIDE DEF r, q
  <2> QED BY <1>1, <2>1
<1> QED BY <1>2, <1>3, <1>6, <1>7, <1>8

\* Nothing counted is zero.
LEMMA WrappedNone == Wrapped(0) = 0
<1> DEFINE c == CounterMax + 1
           m == 2 * c
<1>1. c \in Nat /\ c > 0 /\ m \in Nat /\ m > 0 /\ c \in 0..m - 1
  BY TypesAssumption
<1>2. c % m = c
  <2>1. PICK k \in Int : c = k * m + (c % m)
    <3>1. c \in Int
      BY <1>1
    <3> HIDE DEF c, m
    <3> QED BY <1>1, <3>1, Divided
  <2>2. c % m \in 0..m - 1
    BY <1>1
  <2> DEFINE r == c % m
  <2>3. c - r = k * m
    <3> HIDE DEF r
    <3>1. k * m \in Int /\ r \in Int => c - r = k * m
      BY <1>1, <2>1 DEF r
    <3> QED BY <1>1, <2>2, <3>1 DEF r
  <2> HIDE DEF m, c
  <2> QED BY <1>1, <2>2, <2>3, RemaindersMeet
<1>3. 0 + CounterMax + 1 = c
  BY TypesAssumption
<1> QED BY <1>1, <1>2, <1>3 DEF Wrapped

-------------------------------------------------------------------------------
(* A queue of events, inserted one after another.                          *)

\* The smallest and the largest of a set that has them.
LEMMA MinIs ==
    ASSUME NEW S \in SUBSET Int, NEW m \in S, \A x \in S : m <= x
    PROVE  Min(S) = m
<1>1. \E x \in S : \A y \in S : x <= y
  OBVIOUS
<1>2. Min(S) \in S /\ \A y \in S : Min(S) <= y
  BY <1>1 DEF Min
<1>3. Min(S) \in Int /\ m \in Int /\ Min(S) <= m /\ m <= Min(S)
  BY <1>2
<1> QED BY <1>3

\* The largest, likewise.
LEMMA MaxIs ==
    ASSUME NEW S \in SUBSET Int, NEW m \in S, \A x \in S : x <= m
    PROVE  Max(S) = m
<1>0. \A x \in S : m >= x
  OBVIOUS
<1>1. \E x \in S : \A y \in S : x >= y
  BY <1>0
<1>2. Max(S) \in S /\ \A y \in S : Max(S) >= y
  BY <1>1 DEF Max
<1>3. Max(S) \in Int /\ m \in Int /\ Max(S) <= m /\ m <= Max(S)
  BY <1>2
<1> QED BY <1>3

\* A set of numbers up to a bound has a largest one.
LEMMA MaxOf ==
    ASSUME NEW b \in Int, NEW S \in SUBSET Int, S # {}, \A x \in S : x <= b
    PROVE  Max(S) \in S /\ \A x \in S : x <= Max(S)
<1> DEFINE T == {b - x : x \in S}
<1>0. \A x \in S : x \in Int /\ b - x \in Nat
  OBVIOUS
<1>1. T \in SUBSET Nat /\ T # {}
  BY <1>0
<1>2. PICK t \in T : \A u \in T : t <= u
  <2> HIDE DEF T
  <2> QED BY <1>1, Least
<1>3. PICK m \in S : t = b - m
  BY <1>2
<1>4. \A x \in S : x <= m
  <2> SUFFICES ASSUME NEW x \in S PROVE x <= m
    OBVIOUS
  <2>1. b - x \in T /\ x \in Int /\ m \in Int
    OBVIOUS
  <2>2. b - m <= b - x
    BY <1>2, <1>3, <2>1
  <2> QED BY <2>1, <2>2
<1>5. Max(S) = m
  BY <1>4, MaxIs
<1> QED BY <1>4, <1>5

\* The largest of some numbers that are bounded.
LEMMA Largest ==
    ASSUME NEW n \in Nat, NEW S \in SUBSET (1..n), S # {}
    PROVE  Max(S) \in S /\ \A x \in S : x <= Max(S)
<1>1. n \in Int /\ S \in SUBSET Int /\ \A x \in S : x <= n
  <2>1. \A x \in S : x \in Int /\ x <= n
    OBVIOUS
  <2> QED BY <2>1
<1> QED BY <1>1, MaxOf

\* How FoldLeft() recurs: over the sets of places, the last place last.
Folds(g, r, es) ==
    g = [s \in SUBSET DOMAIN es |->
           IF s = {} THEN r ELSE Integrated(g[s \ {Max(s)}], es[Max(s)])]

\* There is such a function.
LEMMA FoldsExists ==
    ASSUME NEW r, NEW es, Len(es) \in Nat, DOMAIN es = 1..Len(es)
    PROVE  \E g : Folds(g, r, es)
<1> DEFINE S == DOMAIN es
           Up(g, n) ==
             /\ g = [s \in SUBSET S |-> g[s]]
             /\ \A s \in SUBSET S : Cardinality(s) <= n =>
                  g[s] = IF s = {} THEN r ELSE Integrated(g[s \ {Max(s)}], es[Max(s)])
           I == {n \in Nat : \E g : Up(g, n)}
<1>0. /\ \A s \in SUBSET S : IsFiniteSet(s) /\ Cardinality(s) \in Nat
      /\ IsFiniteSet(S) /\ \A s \in SUBSET S : Cardinality(s) <= Cardinality(S)
  <2>1. IsFiniteSet(S)
    BY FS_Interval
  <2> HIDE DEF S
  <2> QED BY <2>1, FS_Subset, FS_CardinalityType
<1>1. \A s \in SUBSET S : s # {} => Max(s) \in s
  BY Largest
<1> HIDE DEF S
<1>2. 0 \in I
  <2> DEFINE g == [s \in SUBSET S |-> r]
  <2>1. \A s \in SUBSET S : Cardinality(s) <= 0 => s = {}
    BY <1>0, FS_EmptySet
  <2>2. Up(g, 0)
    BY <2>1
  <2> QED BY <2>2
<1>3. ASSUME NEW n \in Nat, n \in I PROVE n + 1 \in I
  <2>1. PICK g : Up(g, n)
    BY <1>3
  <2> DEFINE k == [s \in SUBSET S |-> IF Cardinality(s) <= n THEN g[s]
                                      ELSE Integrated(g[s \ {Max(s)}], es[Max(s)])]
  <2>2. ASSUME NEW s \in SUBSET S, Cardinality(s) <= n + 1
        PROVE  k[s] = IF s = {} THEN r ELSE Integrated(k[s \ {Max(s)}], es[Max(s)])
    <3>1. CASE s = {}
      <4>1. Cardinality(s) <= n
        BY <3>1, FS_EmptySet
      <4> QED BY <2>1, <3>1, <4>1
    <3>2. CASE s # {}
      <4>1. s \ {Max(s)} \in SUBSET S /\ Cardinality(s \ {Max(s)}) <= n
        <5>1. Cardinality(s \ {Max(s)}) = Cardinality(s) - 1
          BY <1>0, <1>1, <3>2, FS_RemoveElement
        <5> QED BY <1>0, <2>2, <5>1
      <4>2. k[s \ {Max(s)}] = g[s \ {Max(s)}]
        BY <4>1
      <4>3. k[s] = Integrated(g[s \ {Max(s)}], es[Max(s)])
        BY <2>1, <3>2
      <4> QED BY <3>2, <4>2, <4>3
    <3> QED BY <3>1, <3>2
  <2>3. k = [s \in SUBSET S |-> k[s]]
    OBVIOUS
  <2> HIDE DEF k
  <2>4. Up(k, n + 1)
    BY <2>2, <2>3
  <2>5. n + 1 \in Nat
    OBVIOUS
  <2> HIDE DEF Up
  <2> QED BY <2>4, <2>5
<1>4. Nat \subseteq I
  <2> HIDE DEF I
  <2> QED BY <1>2, <1>3, Induction
<1>5. PICK g : Up(g, Cardinality(S))
  BY <1>0, <1>4
<1>6. Folds(g, r, es)
  BY <1>0, <1>5 DEF Folds, S
<1> QED BY <1>6

\* The objects after each event of a queue, from the first to the last.
Successive(f, r, es) ==
    /\ f[0] = r
    /\ \A n \in Nat : n < Len(es) => f[n + 1] = Integrated(f[n], es[n + 1])

\* The objects after a queue.
Queued(r, es) == FoldLeft(Integrated, r, es)

\* They are the last of those.
LEMMA FoldSteps ==
    ASSUME NEW r, NEW es, Len(es) \in Nat, DOMAIN es = 1..Len(es)
    PROVE  \E f : Successive(f, r, es) /\ Queued(r, es) = f[Len(es)]
<1> DEFINE g == CHOOSE g : Folds(g, r, es)
           f == [n \in 0..Len(es) |-> g[1..n]]
<1>1. Folds(g, r, es)
  BY FoldsExists
<1>2. Queued(r, es) = g[DOMAIN es]
  BY DEF Queued, FoldLeft, MapThenFoldSet, Folds
<1> HIDE DEF g
<1>3. f[Len(es)] = g[1..Len(es)]
  OBVIOUS
<1>4. f[0] = r
  <2>1. 1..0 = {} /\ {} \in SUBSET DOMAIN es
    OBVIOUS
  <2>2. g[{}] = r
    BY <1>1, <2>1 DEF Folds
  <2> QED BY <2>1, <2>2
<1>5. ASSUME NEW n \in Nat, n < Len(es) PROVE f[n + 1] = Integrated(f[n], es[n + 1])
  <2> DEFINE s == 1..(n + 1)
  <2>1. s \in SUBSET DOMAIN es /\ s # {} /\ n + 1 \in s /\ \A x \in s : x <= n + 1
    BY <1>5
  <2>2. Max(s) = n + 1
    <3>1. Max(s) \in s /\ \A x \in s : x <= Max(s)
      BY <2>1, Largest
    <3> QED BY <2>1, <3>1
  <2>3. s \ {n + 1} = 1..n
    OBVIOUS
  <2> HIDE DEF s
  <2>4. g[s] = Integrated(g[s \ {n + 1}], es[n + 1])
    BY <1>1, <2>1, <2>2 DEF Folds
  <2>5. f[n + 1] = g[s] /\ f[n] = g[1..n]
    BY <1>5 DEF s
  <2> HIDE DEF f
  <2> QED BY <2>3, <2>4, <2>5
<1> HIDE DEF f
<1>6. Successive(f, r, es)
  BY <1>4, <1>5 DEF Successive
<1> QED BY <1>2, <1>3, <1>6

-------------------------------------------------------------------------------
(* The objects and their fields.                                           *)

Fields == {"options", "colors", "colormap", "factor", "offset", "count", "limits",
           "background", "image", "histogram", "surface", "view", "axes", "fade",
           "backdrop", "space", "counter", "peak", "time", "polarity", "events", "points"}

\* What no insertion changes.
Settings == {"options", "colors", "colormap", "factor", "offset", "background",
             "histogram", "surface", "view", "axes", "fade", "backdrop", "space"}

\* What one insertion changes, field by field: k is r with the event e.
With(r, e, k) ==
    /\ DOMAIN k = Fields
    /\ \A f \in Settings : k[f] = r[f]
    /\ k.image = [r.image EXCEPT ![Pixel(e)] = Plain(IF e.p THEN r.colors.on ELSE r.colors.off)]
    /\ k.counter = CounterSet(r.counter, e)
    /\ k.peak = PeakOf(r.peak, CounterSet(r.counter, e)[Pixel(e)])
    /\ k.time = TimeSet(r.time, e) /\ k.polarity = PolaritySet(r.polarity, e)
    /\ k.events = Append(r.events, e)
    /\ k.points = r.points \cup {e}
    /\ k.count = r.count + 1
    /\ k.limits = [min |-> Smaller(r.limits.min, e.t), max |-> Bigger(r.limits.max, e.t)]

\* An insertion changes no more.
LEMMA KeptFields ==
    ASSUME NEW r, DOMAIN r = Fields, NEW e
    PROVE  With(r, e, Kept(CloudKept(r, e), e))
<1> DEFINE a == CloudKept(r, e)
           b == ImageKept(a, e)
           c == HistogramKept(b, e)
           d == SurfaceKept(c, e)
           s == SpaceKept(d, e)
           k == Limited(s, e)
<1>1. /\ DOMAIN a = Fields /\ a.points = r.points \cup {e}
      /\ \A f \in Fields \ {"points"} : a[f] = r[f]
  BY DEF CloudKept, Fields
<1> HIDE DEF a
<1>2. /\ DOMAIN b = Fields
      /\ b.image = [a.image EXCEPT ![Pixel(e)] = Plain(IF e.p THEN a.colors.on ELSE a.colors.off)]
      /\ \A f \in Fields \ {"image"} : b[f] = a[f]
  BY <1>1 DEF ImageKept, Fields
<1> HIDE DEF b
<1>3. /\ DOMAIN c = Fields
      /\ c.counter = CounterSet(b.counter, e)
      /\ c.peak = PeakOf(b.peak, CounterSet(b.counter, e)[Pixel(e)])
      /\ \A f \in Fields \ {"counter", "peak"} : c[f] = b[f]
  BY <1>2 DEF HistogramKept, Fields
<1> HIDE DEF c
<1>4. /\ DOMAIN d = Fields
      /\ d.time = TimeSet(c.time, e) /\ d.polarity = PolaritySet(c.polarity, e)
      /\ \A f \in Fields \ {"time", "polarity"} : d[f] = c[f]
  BY <1>3 DEF SurfaceKept, Fields
<1> HIDE DEF d
<1>5. /\ DOMAIN s = Fields
      /\ s.events = Append(d.events, e)
      /\ \A f \in Fields \ {"events"} : s[f] = d[f]
  BY <1>4 DEF SpaceKept, Fields
<1> HIDE DEF s
<1>6. /\ DOMAIN k = Fields
      /\ k.count = s.count + 1
      /\ k.limits = [min |-> Smaller(s.limits.min, e.t), max |-> Bigger(s.limits.max, e.t)]
      /\ \A f \in Fields \ {"count", "limits"} : k[f] = s[f]
  BY <1>5 DEF Limited, Fields
<1> HIDE DEF k
<1>7. Kept(CloudKept(r, e), e) = k
  BY DEF Kept, k, s, d, c, b, a
<1>8. /\ \A f \in Settings : k[f] = r[f]
      /\ k.image = b.image /\ a.image = r.image /\ a.colors = r.colors
      /\ k.counter = c.counter /\ b.counter = r.counter
      /\ k.peak = c.peak /\ b.peak = r.peak
      /\ k.time = d.time /\ c.time = r.time
      /\ k.polarity = d.polarity /\ c.polarity = r.polarity
      /\ k.events = s.events /\ d.events = r.events
      /\ k.points = a.points
      /\ s.count = r.count /\ s.limits = r.limits
  BY <1>1, <1>2, <1>3, <1>4, <1>5, <1>6 DEF Fields, Settings
<1>9. With(r, e, k)
  BY <1>1, <1>2, <1>3, <1>4, <1>5, <1>6, <1>8 DEF With
<1> QED BY <1>7, <1>9

-------------------------------------------------------------------------------
(* What the objects of r say of the events s that they were given.          *)

ShownEvents == [x : Int, y : Int, t : Int, p : BOOLEAN]

\* Those at one pixel, and by how much the positive ones outnumber the others.
AtOf(s, q) == Among(s, {e \in ShownEvents : Pixel(e) = q})
Ups(h) == {i \in DOMAIN h : h[i].p}
Downs(h) == {i \in DOMAIN h : ~h[i].p}
Net(h) == Cardinality(Ups(h)) - Cardinality(Downs(h))

UnderOf(r, q) == IF r.background # NoBackground THEN r.background[q] ELSE Plain(r.colors.reset)

Typed(r) ==
    /\ DOMAIN r = Fields
    /\ r.offset \in Int /\ r.offset <= 0
    /\ r.count \in Nat
    /\ r.limits \in [min : Int, max : Int] /\ r.limits.max >= Tiny
    /\ r.counter \in [Frame -> CounterType] /\ r.peak \in 0..CounterMax + 1
    /\ r.time \in [Frame -> Int] /\ r.polarity \in [Frame -> BOOLEAN]
    /\ DOMAIN r.image = Frame
    /\ r.points \subseteq ShownEvents
    /\ r.background # NoBackground => \A q \in Frame : \E v : r.background[q] = Plain(v)

\* A pixel of each image is that of the events h.
PixelHolds(r, h, q) ==
    /\ r.counter[q] = Wrapped(Net(h))
    /\ h = <<>> => r.image[q] = UnderOf(r, q) /\ r.time[q] = 0
    /\ h # <<>> =>
         /\ r.image[q] = Plain(IF h[Len(h)].p THEN r.colors.on ELSE r.colors.off)
         /\ r.time[q] = h[Len(h)].t /\ r.polarity[q] = h[Len(h)].p

Suits(r, e) == e.t <= Forever /\ ("ignore_polarity" \in r.options => e.p)

Holding(r, s) ==
    /\ s \in Seq(ShownEvents)
    /\ \A i \in 1..Len(s) : Suits(r, s[i])
    /\ r.events = s
    /\ \A q \in Frame : PixelHolds(r, AtOf(s, q), q)

\* The peak is that of the counts, and the pictures are those of the background.
Scaled(r) ==
    /\ \A q \in Frame : Abs(r.counter[q]) <= r.peak
    /\ r.peak = 0 => \A q \in Frame : r.histogram[q] = UnderOf(r, q)
    /\ r.backdrop = BackdropOf(r)

Limiting(limits, s) ==
    /\ s = <<>> => limits = NoLimits
    /\ \A i \in 1..Len(s) : limits.min <= s[i].t /\ s[i].t <= limits.max
    /\ s # <<>> => \E i \in 1..Len(s) : limits.min = s[i].t
    /\ limits.max = Tiny \/ \E i \in 1..Len(s) : limits.max = s[i].t

Counting(r, s) ==
    /\ r.count = Len(s)
    /\ {e \in r.points : InFrame(e)} = {s[i] : i \in 1..Len(s)}
    /\ Limiting(r.limits, s)

\* One event more.
LEMMA NetAppend ==
    ASSUME NEW h \in Seq(ShownEvents), NEW e \in ShownEvents
    PROVE  /\ Net(h) \in Int
           /\ Net(Append(h, e)) = Net(h) + Step(e)
<1> DEFINE a == Append(h, e)
           n == Len(h)
<1>1. /\ n \in Nat /\ DOMAIN h = 1..n /\ DOMAIN a = 1..n + 1 /\ a[n + 1] = e
      /\ \A i \in 1..n : a[i] = h[i]
  OBVIOUS
<1>2. /\ Ups(a) = IF e.p THEN Ups(h) \cup {n + 1} ELSE Ups(h)
      /\ Downs(a) = IF e.p THEN Downs(h) ELSE Downs(h) \cup {n + 1}
      /\ n + 1 \notin Ups(h) /\ n + 1 \notin Downs(h)
  BY <1>1 DEF Ups, Downs
<1>3. IsFiniteSet(Ups(h)) /\ IsFiniteSet(Downs(h))
  <2>1. IsFiniteSet(1..n)
    BY <1>1, FS_Interval
  <2> QED BY <1>1, <2>1, FS_Subset DEF Ups, Downs
<1>4. /\ Cardinality(Ups(h)) \in Nat /\ Cardinality(Downs(h)) \in Nat
      /\ Cardinality(Ups(h) \cup {n + 1}) = Cardinality(Ups(h)) + 1
      /\ Cardinality(Downs(h) \cup {n + 1}) = Cardinality(Downs(h)) + 1
  BY <1>2, <1>3, FS_CardinalityType, FS_AddElement
<1> HIDE DEF a, n
<1>5. CASE e.p
  <2>1. Cardinality(Ups(a)) = Cardinality(Ups(h)) + 1 /\ Cardinality(Downs(a)) = Cardinality(Downs(h))
    BY <1>2, <1>4, <1>5
  <2> QED BY <1>4, <1>5, <2>1 DEF Net, Step, a
<1>6. CASE ~e.p
  <2>1. Cardinality(Ups(a)) = Cardinality(Ups(h)) /\ Cardinality(Downs(a)) = Cardinality(Downs(h)) + 1
    BY <1>2, <1>4, <1>6
  <2> QED BY <1>4, <1>6, <2>1 DEF Net, Step, a
<1> QED BY <1>5, <1>6

\* No events.
LEMMA NetNone == Net(<<>>) = 0
<1>1. Ups(<<>>) = {} /\ Downs(<<>>) = {}
  BY DEF Ups, Downs
<1>2. Cardinality({}) = 0
  BY FS_EmptySet
<1>3. Cardinality(Ups(<<>>)) = 0 /\ Cardinality(Downs(<<>>)) = 0
  BY <1>1, <1>2
<1>4. 0 - 0 = 0
  OBVIOUS
<1> QED BY <1>3, <1>4, Zenon DEF Net

\* An event is at its own pixel.
LEMMA AtAppend ==
    ASSUME NEW s \in Seq(ShownEvents), NEW e \in ShownEvents, NEW q
    PROVE  /\ AtOf(s, q) \in Seq(ShownEvents)
           /\ AtOf(Append(s, e), q) = IF Pixel(e) = q THEN Append(AtOf(s, q), e) ELSE AtOf(s, q)
<1> DEFINE S == {x \in ShownEvents : Pixel(x) = q}
<1>1. e \in S <=> Pixel(e) = q
  OBVIOUS
<1>2. Seq(ShownEvents \cap S) \subseteq Seq(ShownEvents)
  OBVIOUS
<1> HIDE DEF S
<1>3. Among(s, S) \in Seq(ShownEvents \cap S)
  BY AmongType
<1>4. Among(Append(s, e), S) = IF e \in S THEN Append(Among(s, S), e) ELSE Among(s, S)
  BY AmongAppend
<1> QED BY <1>1, <1>2, <1>3, <1>4 DEF AtOf, S

\* The newest event is the last of its pixel.
LEMMA PixelKept ==
    ASSUME NEW r, Typed(r), NEW h \in Seq(ShownEvents), NEW e \in ShownEvents, InFrame(e),
           PixelHolds(r, h, Pixel(e)), NEW k, With(r, e, k)
    PROVE  /\ PixelHolds(k, Append(h, e), Pixel(e))
           /\ k.counter[Pixel(e)] \in CounterType
           /\ k.counter[Pixel(e)] # r.counter[Pixel(e)]
<1> DEFINE q == Pixel(e)
           a == Append(h, e)
<1>1. q \in Frame
  BY DEF InFrame
<1>2. Len(a) = Len(h) + 1 /\ a # <<>> /\ a[Len(a)] = e
  OBVIOUS
<1>3. Net(h) \in Int /\ Net(a) = Net(h) + Step(e) /\ Step(e) \in {-1, 1}
  BY NetAppend DEF Step
<1>4. /\ k.counter = [r.counter EXCEPT ![q] = Wrapped(@ + Step(e))]
      /\ k.image = [r.image EXCEPT ![q] = Plain(IF e.p THEN r.colors.on ELSE r.colors.off)]
      /\ k.time = [r.time EXCEPT ![q] = e.t] /\ k.polarity = [r.polarity EXCEPT ![q] = e.p]
      /\ k.colors = r.colors
  <2>2. /\ k.counter = CounterSet(r.counter, e)
        /\ k.image = [r.image EXCEPT ![q] = Plain(IF e.p THEN r.colors.on ELSE r.colors.off)]
        /\ k.time = TimeSet(r.time, e) /\ k.polarity = PolaritySet(r.polarity, e)
        /\ \A f \in Settings : k[f] = r[f]
    BY DEF With
  <2>3. k.colors = r.colors
    BY <2>2 DEF Settings
  <2> QED BY <2>2, <2>3 DEF CounterSet, TimeSet, PolaritySet
<1> HIDE DEF q, a
<1>5. /\ k.counter[q] = Wrapped(r.counter[q] + Step(e))
      /\ k.image[q] = Plain(IF e.p THEN r.colors.on ELSE r.colors.off)
      /\ k.time[q] = e.t /\ k.polarity[q] = e.p
  BY <1>1, <1>4 DEF Typed
<1>6. r.counter[q] = Wrapped(Net(h))
  BY DEF PixelHolds, q
<1>7. /\ k.counter[q] = Wrapped(Net(a)) /\ Wrapped(Net(a)) \in CounterType
      /\ Wrapped(Net(a)) # Wrapped(Net(h))
  <2> DEFINE n == Net(h)
             d == Step(e)
  <2>1. n \in Int /\ d \in {-1, 1} /\ n + d \in Int
    BY <1>3
  <2>2. Net(a) = n + d /\ r.counter[q] = Wrapped(n) /\ k.counter[q] = Wrapped(r.counter[q] + d)
    BY <1>3, <1>5, <1>6
  <2> HIDE DEF n, d
  <2>3. Wrapped(Wrapped(n) + d) = Wrapped(n + d) /\ Wrapped(n + d) # Wrapped(n)
    BY <2>1, WrappedCounts
  <2>4. Wrapped(n + d) \in CounterType
    BY <2>1, WrappedCounts
  <2>5. /\ k.counter[q] = Wrapped(n + d) /\ Wrapped(Net(a)) = Wrapped(n + d)
    BY <2>2, <2>3, Zenon
  <2> QED BY <2>3, <2>4, <2>5 DEF n
<1>8. PixelHolds(k, a, q)
  BY <1>2, <1>4, <1>5, <1>7 DEF PixelHolds
<1> QED BY <1>5, <1>6, <1>7, <1>8 DEF a, q

\* An insertion leaves the settings as they are.
LEMMA WithSettings ==
    ASSUME NEW r, NEW e, NEW k, With(r, e, k)
    PROVE  /\ k.options = r.options /\ k.colors = r.colors /\ k.colormap = r.colormap
           /\ k.offset = r.offset /\ k.background = r.background
           /\ k.histogram = r.histogram /\ k.view = r.view /\ k.backdrop = r.backdrop
BY DEF With, Settings

\* The objects keep their types.
LEMMA TypedKept ==
    ASSUME NEW r, Typed(r), NEW s, Holding(r, s), NEW e \in ShownEvents, InFrame(e),
           NEW k, With(r, e, k)
    PROVE  Typed(k)
<1> DEFINE q == Pixel(e)
<1>1. q \in Frame /\ e.t \in Int /\ e.p \in BOOLEAN
  BY DEF InFrame, ShownEvents
<1>2. k.counter[q] \in CounterType
  <2>1. AtOf(s, q) \in Seq(ShownEvents) /\ PixelHolds(r, AtOf(s, q), q)
    BY <1>1, AtAppend DEF Holding
  <2> QED BY <2>1, PixelKept
<1>3. /\ k.counter = [r.counter EXCEPT ![q] = Wrapped(@ + Step(e))]
      /\ k.time = [r.time EXCEPT ![q] = e.t] /\ k.polarity = [r.polarity EXCEPT ![q] = e.p]
      /\ DOMAIN k.image = DOMAIN r.image
      /\ k.peak = PeakOf(r.peak, k.counter[q])
      /\ k.points = r.points \cup {e} /\ k.count = r.count + 1
      /\ k.limits = [min |-> Smaller(r.limits.min, e.t), max |-> Bigger(r.limits.max, e.t)]
      /\ DOMAIN k = Fields
  BY DEF With, CounterSet, TimeSet, PolaritySet
<1> HIDE DEF q
<1>4. k.counter \in [Frame -> CounterType]
  <2>1. k.counter = [r.counter EXCEPT ![q] = k.counter[q]]
    BY <1>1, <1>3 DEF Typed
  <2> QED BY <1>2, <2>1 DEF Typed
<1>5. k.time \in [Frame -> Int] /\ k.polarity \in [Frame -> BOOLEAN] /\ DOMAIN k.image = Frame
  BY <1>1, <1>3 DEF Typed
<1>6. k.peak \in 0..CounterMax + 1
  BY <1>2, <1>3, TypesAssumption DEF Typed, PeakOf, Bigger, Abs, CounterType
<1>7. k.limits \in [min : Int, max : Int] /\ k.limits.max >= Tiny
  BY <1>1, <1>3, TypesAssumption DEF Typed, Smaller, Bigger
<1>8. k.points \subseteq ShownEvents /\ k.count \in Nat
  BY <1>3 DEF Typed
<1>9. k.offset = r.offset /\ k.background = r.background
  BY WithSettings
<1> QED BY <1>3, <1>4, <1>5, <1>6, <1>7, <1>8, <1>9 DEF Typed

\* They hold the event as well.
LEMMA HoldingKept ==
    ASSUME NEW r, Typed(r), NEW s, Holding(r, s), NEW e \in ShownEvents, InFrame(e),
           Suits(r, e), NEW k, With(r, e, k)
    PROVE  Holding(k, Append(s, e))
<1> DEFINE a == Append(s, e)
<1>1. /\ s \in Seq(ShownEvents) /\ Len(s) \in Nat /\ a \in Seq(ShownEvents)
      /\ Len(a) = Len(s) + 1 /\ a[Len(s) + 1] = e /\ \A i \in 1..Len(s) : a[i] = s[i]
  BY DEF Holding
<1>2. k.events = a
  BY DEF With, Holding
<1>3. /\ k.options = r.options /\ k.colors = r.colors /\ k.background = r.background
  BY WithSettings
<1>4. ASSUME NEW i \in 1..Len(a) PROVE Suits(k, a[i])
  <2>1. CASE i = Len(s) + 1
    BY <1>1, <1>3, <2>1 DEF Suits
  <2>2. CASE i # Len(s) + 1
    <3>1. i \in 1..Len(s)
      BY <1>1, <2>2
    <3> QED BY <1>1, <1>3, <3>1 DEF Suits, Holding
  <2> QED BY <2>1, <2>2
<1>5. ASSUME NEW q \in Frame PROVE PixelHolds(k, AtOf(a, q), q)
  <2>1. AtOf(s, q) \in Seq(ShownEvents) /\ PixelHolds(r, AtOf(s, q), q)
    BY <1>1, AtAppend DEF Holding
  <2>2. CASE Pixel(e) = q
    <3>1. AtOf(a, q) = Append(AtOf(s, q), e)
      BY <1>1, <2>2, AtAppend
    <3> QED BY <2>1, <2>2, <3>1, PixelKept
  <2>3. CASE Pixel(e) # q
    <3>1. AtOf(a, q) = AtOf(s, q)
      BY <1>1, <2>3, AtAppend
    <3>2. /\ k.counter[q] = r.counter[q] /\ k.image[q] = r.image[q]
          /\ k.time[q] = r.time[q] /\ k.polarity[q] = r.polarity[q]
      BY <2>3 DEF With, CounterSet, TimeSet, PolaritySet, Typed
    <3> QED BY <1>3, <2>1, <3>1, <3>2 DEF PixelHolds, UnderOf
  <2> QED BY <2>2, <2>3
<1> HIDE DEF a
<1> QED BY <1>1, <1>2, <1>4, <1>5 DEF Holding, a

\* The peak covers the new count, and is not zero.
LEMMA ScaledKept ==
    ASSUME NEW r, Typed(r), NEW s, Holding(r, s), Scaled(r), NEW e \in ShownEvents, InFrame(e),
           NEW k, With(r, e, k)
    PROVE  Scaled(k)
<1> DEFINE q == Pixel(e)
<1>1. q \in Frame /\ r.counter[q] \in Int /\ r.peak \in Nat /\ Abs(r.counter[q]) <= r.peak
  BY TypesAssumption DEF InFrame, Typed, Scaled, CounterType
<1>2. k.counter[q] \in Int /\ k.counter[q] # r.counter[q]
  <2>1. AtOf(s, q) \in Seq(ShownEvents) /\ PixelHolds(r, AtOf(s, q), q)
    BY <1>1, AtAppend DEF Holding
  <2>2. k.counter[q] \in CounterType /\ k.counter[q] # r.counter[q]
    BY <2>1, PixelKept
  <2> QED BY <2>2, TypesAssumption DEF CounterType
<1>3. k.peak = PeakOf(r.peak, k.counter[q])
  BY DEF With
<1>4. ASSUME NEW p \in Frame PROVE Abs(k.counter[p]) <= k.peak
  <2>1. CASE p = q
    BY <1>1, <1>2, <1>3, <2>1 DEF PeakOf, Bigger, Abs
  <2>2. CASE p # q
    <3>1. k.counter[p] = r.counter[p] /\ r.counter[p] \in Int /\ Abs(r.counter[p]) <= r.peak
      BY <2>2, TypesAssumption DEF With, CounterSet, Typed, Scaled, CounterType
    <3> HIDE DEF q
    <3> QED BY <1>1, <1>2, <1>3, <3>1 DEF PeakOf, Bigger, Abs
  <2> QED BY <2>1, <2>2
<1>5. k.peak # 0
  <2> HIDE DEF q
  <2> QED BY <1>1, <1>2, <1>3 DEF PeakOf, Bigger, Abs
<1>6. k.backdrop = BackdropOf(k)
  <2>1. /\ k.colors = r.colors /\ k.view = r.view /\ k.background = r.background
        /\ k.backdrop = r.backdrop /\ r.backdrop = BackdropOf(r)
    BY WithSettings DEF Scaled
  <2> QED BY <2>1 DEF BackdropOf
<1> QED BY <1>4, <1>5, <1>6 DEF Scaled

\* The limits move with the event.
LEMMA LimitingAppend ==
    ASSUME NEW s \in Seq(ShownEvents), NEW e \in ShownEvents, e.t <= Forever,
           NEW limits \in [min : Int, max : Int], limits.max >= Tiny, Limiting(limits, s)
    PROVE  Limiting([min |-> Smaller(limits.min, e.t), max |-> Bigger(limits.max, e.t)],
                    Append(s, e))
<1> DEFINE a == Append(s, e)
           n == Len(s)
           l == Smaller(limits.min, e.t)
           u == Bigger(limits.max, e.t)
<1>1. /\ n \in Nat /\ Len(a) = n + 1 /\ a # <<>> /\ a[n + 1] = e
      /\ \A i \in 1..n : a[i] = s[i]
      /\ \A i \in 1..n : s[i].t \in Int
      /\ e.t \in Int /\ limits.min \in Int /\ limits.max \in Int
  <2>1. /\ n \in Nat /\ Len(a) = n + 1 /\ a # <<>> /\ a[n + 1] = e
        /\ \A i \in 1..n : a[i] = s[i] /\ s[i] \in ShownEvents
    OBVIOUS
  <2>2. \A x \in ShownEvents : x.t \in Int
    BY DEF ShownEvents
  <2>3. limits.min \in Int /\ limits.max \in Int
    OBVIOUS
  <2> QED BY <2>1, <2>2, <2>3
<1>2. ASSUME NEW i \in 1..Len(a) PROVE l <= a[i].t /\ a[i].t <= u
  <2>1. CASE i = n + 1
    BY <1>1, <2>1 DEF Smaller, Bigger
  <2>2. CASE i # n + 1
    <3>1. i \in 1..n
      BY <1>1, <2>2
    <3>2. a[i] = s[i] /\ limits.min <= s[i].t /\ s[i].t <= limits.max /\ s[i].t \in Int
      BY <1>1, <3>1 DEF Limiting
    <3> QED BY <1>1, <3>2 DEF Smaller, Bigger
  <2> QED BY <2>1, <2>2
<1>3. \E i \in 1..Len(a) : l = a[i].t
  <2>1. CASE l = e.t
    <3>1. n + 1 \in 1..Len(a) /\ l = a[n + 1].t
      BY <1>1, <2>1
    <3> QED BY <3>1
  <2>2. CASE l # e.t
    <3>1. l = limits.min /\ limits.min < e.t
      BY <1>1, <2>2 DEF Smaller
    <3>2. s # <<>>
      <4>1. ~(Forever < e.t)
        BY <1>1, TypesAssumption
      <4>2. limits = NoLimits => limits.min = Forever
        BY DEF NoLimits
      <4> QED BY <3>1, <4>1, <4>2 DEF Limiting
    <3>3. PICK i \in 1..n : limits.min = s[i].t
      BY <3>2 DEF Limiting
    <3>4. i \in 1..Len(a) /\ l = a[i].t
      BY <1>1, <3>1, <3>3
    <3> QED BY <3>4
  <2> QED BY <2>1, <2>2
<1>4. u = Tiny \/ \E i \in 1..Len(a) : u = a[i].t
  <2>1. CASE u = e.t
    <3>1. n + 1 \in 1..Len(a) /\ u = a[n + 1].t
      BY <1>1, <2>1
    <3> QED BY <3>1
  <2>2. CASE u # e.t
    <3>1. u = limits.max
      BY <2>2 DEF Bigger
    <3>2. CASE \E i \in 1..n : limits.max = s[i].t
      <4>1. PICK i \in 1..n : limits.max = s[i].t
        BY <3>2
      <4>2. i \in 1..Len(a) /\ u = a[i].t
        BY <1>1, <3>1, <4>1
      <4> QED BY <4>2
    <3> QED BY <3>1, <3>2 DEF Limiting
  <2> QED BY <2>1, <2>2
<1> HIDE DEF a, l, u
<1>5. Limiting([min |-> l, max |-> u], a)
  BY <1>1, <1>2, <1>3, <1>4 DEF Limiting
<1> QED BY <1>5 DEF a, l, u

\* The event is counted.
LEMMA CountingKept ==
    ASSUME NEW r, Typed(r), NEW s, Holding(r, s), Counting(r, s), NEW e \in ShownEvents,
           InFrame(e), Suits(r, e), NEW k, With(r, e, k)
    PROVE  Counting(k, Append(s, e))
<1> DEFINE a == Append(s, e)
<1>1. /\ s \in Seq(ShownEvents) /\ Len(s) \in Nat /\ Len(a) = Len(s) + 1
      /\ a[Len(s) + 1] = e /\ \A i \in 1..Len(s) : a[i] = s[i]
  BY DEF Holding
<1>2. /\ k.count = r.count + 1 /\ k.points = r.points \cup {e}
      /\ k.limits = [min |-> Smaller(r.limits.min, e.t), max |-> Bigger(r.limits.max, e.t)]
  BY DEF With
<1>3. Limiting(k.limits, a)
  BY <1>1, <1>2, LimitingAppend DEF Typed, Counting, Suits
<1>4. {x \in k.points : InFrame(x)} = {x \in r.points : InFrame(x)} \cup {e}
  BY <1>2
<1>5. {a[i] : i \in 1..Len(a)} = {s[i] : i \in 1..Len(s)} \cup {e}
  <2>1. 1..Len(a) = 1..Len(s) \cup {Len(s) + 1}
    BY <1>1
  <2> HIDE DEF a
  <2> QED BY <1>1, <2>1
<1> HIDE DEF a
<1> QED BY <1>1, <1>2, <1>3, <1>4, <1>5 DEF Counting, a

\* The events an insertion shows: none, or the event as it is seen.
Taken(r, s, e) == IF ~Rejected(r, e) /\ InFrame(e) THEN Append(s, Seen(r, e)) ELSE s

\* Whatever its place and its polarity, an event has a legal form.
LEMMA SeenSuits ==
    ASSUME NEW r, Typed(r), NEW e \in Events, e.t <= Forever
    PROVE  /\ Seen(r, e) \in ShownEvents /\ Suits(r, Seen(r, e))
           /\ Pixel(Seen(r, e)) = Pixel(e)
<1> DEFINE s == Seen(r, e)
<1>1. e \in [{"x", "y", "t", "p"} -> Int \cup BOOLEAN] /\ e.t \in Nat
  BY DEF Events
<1>2. /\ DOMAIN s = {"x", "y", "t", "p"} /\ s.x = e.x /\ s.y = e.y /\ s.t = e.t + r.offset
  BY <1>1 DEF Seen
<1>3. s.p = (e.p \/ "ignore_polarity" \in r.options)
  BY <1>1, Zenon DEF Seen
<1>4. e.x \in Int /\ e.y \in Int /\ r.offset \in Int /\ r.offset <= 0
  BY DEF Events, Typed
<1>5. s \in ShownEvents
  <2>1. s = [x |-> s.x, y |-> s.y, t |-> s.t, p |-> s.p]
    <3>1. s = [f \in {"x", "y", "t", "p"} |-> s[f]]
      <4> DEFINE u == [e EXCEPT !.t = @ + r.offset]
      <4>1. s = [u EXCEPT !["p"] = s["p"]]
        BY <1>1, <1>3, Zenon DEF Seen
      <4>2. DOMAIN u = {"x", "y", "t", "p"} /\ u = [f \in DOMAIN u |-> u[f]]
        BY <1>1
      <4> HIDE DEF u, s
      <4> QED BY <4>1, <4>2
    <3> HIDE DEF s
    <3> QED BY <3>1
  <2>2. s.p \in BOOLEAN
    BY <1>3, Zenon
  <2> HIDE DEF s
  <2>3. s.t \in Int /\ s.x \in Int /\ s.y \in Int
    BY <1>1, <1>2, <1>4
  <2> QED BY <2>1, <2>2, <2>3, Zenon DEF ShownEvents
<1> HIDE DEF s
<1>6. s.t <= Forever
  BY <1>1, <1>2, <1>4, TypesAssumption
<1>7. "ignore_polarity" \in r.options => s.p
  BY <1>3
<1> QED BY <1>2, <1>5, <1>6, <1>7 DEF s, Suits, Pixel

\* An event off the frame is a point of the cloud only.
LEMMA CloudKeeps ==
    ASSUME NEW r, Typed(r), NEW s, Holding(r, s), Scaled(r), NEW e \in ShownEvents, ~InFrame(e)
    PROVE  /\ Typed(CloudKept(r, e)) /\ Holding(CloudKept(r, e), s) /\ Scaled(CloudKept(r, e))
           /\ Counting(r, s) => Counting(CloudKept(r, e), s)
           /\ CloudKept(r, e).options = r.options /\ CloudKept(r, e).offset = r.offset
<1> DEFINE c == CloudKept(r, e)
<1>1. /\ DOMAIN c = Fields /\ c.points = r.points \cup {e}
      /\ \A f \in Fields \ {"points"} : c[f] = r[f]
  BY DEF CloudKept, Fields, Typed
<1> HIDE DEF c
<1>2. /\ c.options = r.options /\ c.colors = r.colors /\ c.offset = r.offset
      /\ c.background = r.background /\ c.histogram = r.histogram /\ c.view = r.view
      /\ c.backdrop = r.backdrop /\ c.count = r.count /\ c.limits = r.limits
      /\ c.counter = r.counter /\ c.peak = r.peak /\ c.time = r.time
      /\ c.polarity = r.polarity /\ c.image = r.image /\ c.events = r.events
  BY <1>1 DEF Fields
<1>3. Typed(c)
  BY <1>1, <1>2 DEF Typed
<1>4. Holding(c, s)
  BY <1>2 DEF Holding, Suits, PixelHolds, UnderOf
<1>5. Scaled(c)
  BY <1>2 DEF Scaled, BackdropOf, UnderOf
<1>6. Counting(r, s) => Counting(c, s)
  <2>1. {x \in c.points : InFrame(x)} = {x \in r.points : InFrame(x)}
    BY <1>1
  <2> QED BY <1>2, <2>1 DEF Counting
<1> QED BY <1>2, <1>3, <1>4, <1>5, <1>6 DEF c

\* One insertion.
LEMMA InsertedOne ==
    ASSUME NEW r, Typed(r), NEW s, Holding(r, s), Scaled(r), NEW e \in Events, e.t <= Forever
    PROVE  /\ Typed(Integrated(r, e)) /\ Holding(Integrated(r, e), Taken(r, s, e))
           /\ Scaled(Integrated(r, e))
           /\ Counting(r, s) => Counting(Integrated(r, e), Taken(r, s, e))
           /\ Integrated(r, e).options = r.options /\ Integrated(r, e).offset = r.offset
<1> DEFINE x == Seen(r, e)
<1>1. x \in ShownEvents /\ Suits(r, x) /\ (InFrame(x) <=> InFrame(e))
  BY SeenSuits DEF InFrame
<1>2. CASE Rejected(r, e)
  BY <1>2 DEF Integrated, Taken
<1>3. CASE ~Rejected(r, e) /\ ~InFrame(e)
  <2>1. Integrated(r, e) = CloudKept(r, x) /\ Taken(r, s, e) = s
    BY <1>3 DEF Integrated, Taken
  <2> HIDE DEF x
  <2> QED BY <1>1, <1>3, <2>1, CloudKeeps
<1>4. CASE ~Rejected(r, e) /\ InFrame(e)
  <2> DEFINE k == Kept(CloudKept(r, x), x)
  <2>1. Integrated(r, e) = k /\ Taken(r, s, e) = Append(s, x)
    BY <1>4 DEF Integrated, Taken
  <2> HIDE DEF x
  <2>2. With(r, x, k)
    BY KeptFields DEF Typed
  <2> HIDE DEF k
  <2>3. k.options = r.options /\ k.offset = r.offset
    BY <2>2, WithSettings
  <2>4. Typed(k)
    BY <1>1, <1>4, <2>2, TypedKept
  <2>5. Holding(k, Append(s, x))
    BY <1>1, <1>4, <2>2, HoldingKept
  <2>6. Scaled(k)
    BY <1>1, <1>4, <2>2, ScaledKept
  <2>7. Counting(r, s) => Counting(k, Append(s, x))
    BY <1>1, <1>4, <2>2, CountingKept
  <2> QED BY <2>1, <2>3, <2>4, <2>5, <2>6, <2>7
<1> QED BY <1>2, <1>3, <1>4

\* The beginnings of a sequence.
LEMMA Beginnings ==
    ASSUME NEW T, NEW es \in Seq(T)
    PROVE  /\ SubSeq(es, 1, 0) = <<>> /\ SubSeq(es, 1, Len(es)) = es
           /\ \A n \in Nat : n < Len(es) =>
                /\ SubSeq(es, 1, n) \in Seq(T) /\ es[n + 1] \in T
                /\ SubSeq(es, 1, n + 1) = Append(SubSeq(es, 1, n), es[n + 1])
<1>1. SubSeq(es, 1, 0) = <<>> /\ SubSeq(es, 1, Len(es)) = es
  OBVIOUS
<1>2. ASSUME NEW n \in Nat, n < Len(es)
      PROVE  /\ SubSeq(es, 1, n) \in Seq(T) /\ es[n + 1] \in T
             /\ SubSeq(es, 1, n + 1) = Append(SubSeq(es, 1, n), es[n + 1])
  <2>1. n + 1 \in 1..Len(es) /\ Len(es) \in Nat /\ n \in 0..Len(es)
    BY <1>2
  <2>2. SubSeq(es, 1, n) \in Seq(T) /\ es[n + 1] \in T
    BY <2>1
  <2> DEFINE a == SubSeq(es, 1, n + 1)
             b == Append(SubSeq(es, 1, n), es[n + 1])
  <2>3. a \in Seq(T) /\ Len(a) = n + 1 /\ \A i \in 1..n + 1 : a[i] = es[i]
    BY <2>1
  <2>4. b \in Seq(T) /\ Len(b) = n + 1 /\ \A i \in 1..n + 1 : b[i] = es[i]
    BY <2>1, <2>2
  <2>5. a = b
    <3> HIDE DEF a, b
    <3> QED BY <2>3, <2>4
  <2> QED BY <2>2, <2>5
<1> QED BY <1>1, <1>2

\* What a queue of events shows.
Visible(r) == {e \in Events : ~Rejected(r, e) /\ InFrame(e)}
Sights(r, h) == [i \in 1..Len(h) |-> Seen(r, h[i])]

\* One event more is one sight more.
LEMMA SightsAppend ==
    ASSUME NEW r, NEW h \in Seq(Events), NEW e \in Events, NEW s \in Seq(ShownEvents),
           \A x \in Events : x.t <= Forever => Seen(r, x) \in ShownEvents,
           \A i \in 1..Len(h) : h[i].t <= Forever, e.t <= Forever
    PROVE  s \o Sights(r, Append(h, e)) = Append(s \o Sights(r, h), Seen(r, e))
<1> DEFINE a == Append(h, e)
           u == s \o Sights(r, a)
           v == s \o Sights(r, h)
           w == Append(v, Seen(r, e))
<1>1. /\ Len(h) \in Nat /\ Len(a) = Len(h) + 1 /\ a[Len(h) + 1] = e
      /\ \A i \in 1..Len(h) : a[i] = h[i] /\ h[i] \in Events
      /\ Len(s) \in Nat
  OBVIOUS
<1> HIDE DEF a
<1> DEFINE x == Sights(r, a)
           y == Sights(r, h)
<1>2. /\ Seen(r, e) \in ShownEvents
      /\ \A i \in 1..Len(h) : Seen(r, h[i]) \in ShownEvents
      /\ \A i \in 1..Len(a) : Seen(r, a[i]) \in ShownEvents
  <2>1. \A i \in 1..Len(h) : Seen(r, h[i]) \in ShownEvents
    BY <1>1
  <2>2. \A i \in 1..Len(a) : i = Len(h) + 1 \/ i \in 1..Len(h)
    BY <1>1
  <2> QED BY <1>1, <2>1, <2>2
<1>3. /\ x \in Seq(ShownEvents) /\ Len(x) = Len(h) + 1
      /\ \A i \in 1..Len(h) + 1 : x[i] = Seen(r, a[i])
  BY <1>1, <1>2 DEF Sights
<1>4. /\ y \in Seq(ShownEvents) /\ Len(y) = Len(h)
      /\ \A i \in 1..Len(h) : y[i] = Seen(r, h[i])
  BY <1>1, <1>2 DEF Sights
<1> HIDE DEF x, y
<1>5. x = Append(y, Seen(r, e))
  <2> DEFINE z == Append(y, Seen(r, e))
  <2>1. /\ z \in Seq(ShownEvents) /\ Len(z) = Len(h) + 1 /\ z[Len(h) + 1] = Seen(r, e)
        /\ \A i \in 1..Len(h) : z[i] = y[i]
    BY <1>2, <1>4
  <2>2. \A i \in 1..Len(h) + 1 : z[i] = x[i]
    <3>1. \A i \in 1..Len(h) + 1 : i = Len(h) + 1 \/ i \in 1..Len(h)
      BY <1>1
    <3>2. x[Len(h) + 1] = Seen(r, e)
      BY <1>1, <1>3
    <3>3. \A i \in 1..Len(h) : x[i] = y[i]
      BY <1>1, <1>3, <1>4
    <3> HIDE DEF z
    <3> QED BY <2>1, <3>1, <3>2, <3>3
  <2> HIDE DEF z
  <2>3. x = z
    BY <1>3, <2>1, <2>2
  <2> QED BY <2>3 DEF z
<1>6. s \o Append(y, Seen(r, e)) = Append(s \o y, Seen(r, e))
  BY <1>2, <1>4
<1> QED BY <1>5, <1>6 DEF x, y, a

\* Rejection and shift of an event are matters of the options and the offset.
LEMMA SameSettings ==
    ASSUME NEW r, NEW k, k.options = r.options, k.offset = r.offset
    PROVE  \A e : (Rejected(k, e) <=> Rejected(r, e)) /\ Seen(k, e) = Seen(r, e)
BY DEF Rejected, Seen

\* What es makes of the objects r and the events s.
Advanced(r, s, es, k, v) ==
    k = Queued(r, es) /\ v = s \o Sights(r, Among(es, Visible(r)))

\* A queue shows what is visible of it, in its order.
LEMMA InsertedAll ==
    ASSUME NEW r, Typed(r), NEW s, Holding(r, s), Scaled(r),
           NEW es \in Seq(Events), \A i \in 1..Len(es) : es[i].t <= Forever,
           NEW k, NEW v, Advanced(r, s, es, k, v)
    PROVE  /\ Typed(k) /\ Holding(k, v) /\ Scaled(k)
           /\ Counting(r, s) => Counting(k, v)
<1> DEFINE h(n) == Among(SubSeq(es, 1, n), Visible(r))
           w(n) == s \o Sights(r, h(n))
           Good(f, n) ==
             /\ Typed(f[n]) /\ Holding(f[n], w(n)) /\ Scaled(f[n])
             /\ Counting(r, s) => Counting(f[n], w(n))
             /\ f[n].options = r.options /\ f[n].offset = r.offset
<1>0. Len(es) \in Nat /\ DOMAIN es = 1..Len(es)
  OBVIOUS
<1>8. k = Queued(r, es) /\ v = s \o Sights(r, Among(es, Visible(r)))
  BY DEF Advanced
<1>1. PICK f : Successive(f, r, es) /\ Queued(r, es) = f[Len(es)]
  BY <1>0, FoldSteps
<1>2. /\ SubSeq(es, 1, 0) = <<>> /\ SubSeq(es, 1, Len(es)) = es
      /\ \A n \in Nat : n < Len(es) =>
           /\ SubSeq(es, 1, n) \in Seq(Events) /\ es[n + 1] \in Events
           /\ SubSeq(es, 1, n + 1) = Append(SubSeq(es, 1, n), es[n + 1])
  BY Beginnings
<1>3. s \in Seq(ShownEvents)
  BY DEF Holding
<1>4. Good(f, 0)
  <2>1. f[0] = r
    BY <1>1 DEF Successive
  <2>2. h(0) = <<>>
    BY <1>2, AmongNone
  <2>3. s \o Sights(r, <<>>) = s
    <3>1. Sights(r, <<>>) = <<>>
      BY DEF Sights
    <3>2. s \o <<>> = s
      BY <1>3
    <3> QED BY <3>1, <3>2
  <2>4. w(0) = s
    BY <2>2, <2>3
  <2> HIDE DEF w
  <2> QED BY <2>1, <2>4
<1>5. ASSUME NEW n \in Nat, n < Len(es), Good(f, n) PROVE Good(f, n + 1)
  <2> DEFINE b == SubSeq(es, 1, n)
             e == es[n + 1]
             g == f[n]
  <2>1. b \in Seq(Events) /\ e \in Events /\ SubSeq(es, 1, n + 1) = Append(b, e)
    BY <1>2, <1>5
  <2>2. e.t <= Forever /\ \A i \in 1..Len(b) : b[i].t <= Forever
    <3>1. n + 1 \in 1..Len(es)
      BY <1>0, <1>5
    <3>2. Len(b) = n /\ \A i \in 1..n : b[i] = es[i] /\ i \in 1..Len(es)
      BY <1>0, <1>5
    <3> HIDE DEF b
    <3> QED BY <3>1, <3>2
  <2>3. f[n + 1] = Integrated(g, e)
    BY <1>1, <1>5 DEF Successive
  <2> HIDE DEF b, e
  <2>4. h(n) \in Seq(Events) /\ h(n) = Among(b, Visible(r))
        /\ \A i \in 1..Len(h(n)) : h(n)[i].t <= Forever
    <3>1. Among(b, Visible(r)) \in Seq(Events \cap Visible(r))
      BY <2>1, AmongType
    <3>2. Events \cap Visible(r) \subseteq Events
      OBVIOUS
    <3>3. {Among(b, Visible(r))[j] : j \in 1..Len(Among(b, Visible(r)))}
            = {b[i] : i \in 1..Len(b)} \cap Visible(r)
      BY <2>1, AmongRange
    <3>4. h(n) = Among(b, Visible(r))
      BY DEF b
    <3>5. Among(b, Visible(r)) \in Seq(Events)
      BY <3>1, <3>2
    <3>6. \A j \in 1..Len(Among(b, Visible(r))) : Among(b, Visible(r))[j] \in {b[i] : i \in 1..Len(b)}
      BY <3>3
    <3> QED BY <2>2, <3>4, <3>5, <3>6
  <2>5. h(n + 1) = IF e \in Visible(r) THEN Append(h(n), e) ELSE h(n)
    <3>1. Among(Append(b, e), Visible(r))
            = IF e \in Visible(r) THEN Append(Among(b, Visible(r)), e) ELSE Among(b, Visible(r))
      BY <2>1, AmongAppend
    <3>2. h(n + 1) = Among(Append(b, e), Visible(r))
      BY <2>1
    <3> HIDE DEF h
    <3> QED BY <2>4, <3>1, <3>2
  <2> HIDE DEF h
  <2>6. \A x : (Rejected(g, x) <=> Rejected(r, x)) /\ Seen(g, x) = Seen(r, x)
    BY <1>5, SameSettings
  <2>7. w(n + 1) = Taken(g, w(n), e)
    <3>1. e \in Visible(r) <=> ~Rejected(g, e) /\ InFrame(e)
      BY <2>1, <2>6 DEF Visible
    <3>2. CASE e \in Visible(r)
      <4>1. \A x \in Events : x.t <= Forever => Seen(r, x) \in ShownEvents
        BY SeenSuits
      <4>2. s \o Sights(r, Append(h(n), e)) = Append(s \o Sights(r, h(n)), Seen(r, e))
        BY <1>3, <2>1, <2>2, <2>4, <4>1, SightsAppend
      <4> QED BY <2>5, <2>6, <3>1, <3>2, <4>2 DEF Taken
    <3>3. CASE e \notin Visible(r)
      BY <2>5, <3>1, <3>3 DEF Taken
    <3> QED BY <3>2, <3>3
  <2> HIDE DEF w
  <2>8. /\ Typed(g) /\ Holding(g, w(n)) /\ Scaled(g) /\ (Counting(r, s) => Counting(g, w(n)))
        /\ g.options = r.options /\ g.offset = r.offset
    BY <1>5
  <2> HIDE DEF g
  <2>9. /\ Typed(Integrated(g, e)) /\ Holding(Integrated(g, e), Taken(g, w(n), e))
        /\ Scaled(Integrated(g, e))
        /\ Counting(g, w(n)) => Counting(Integrated(g, e), Taken(g, w(n), e))
        /\ Integrated(g, e).options = g.options /\ Integrated(g, e).offset = g.offset
    BY <2>1, <2>2, <2>8, InsertedOne
  <2> QED BY <2>3, <2>7, <2>8, <2>9
<1> HIDE DEF Good
<1>6. Good(f, Len(es))
  <2> DEFINE I == {n \in Nat : n <= Len(es) => Good(f, n)}
  <2>1. 0 \in I
    BY <1>4
  <2>2. \A n \in Nat : n \in I => n + 1 \in I
    BY <1>0, <1>5
  <2> HIDE DEF I
  <2>3. Nat \subseteq I
    BY <2>1, <2>2, Induction
  <2> QED BY <1>0, <2>3 DEF I
<1>7. w(Len(es)) = v
  BY <1>2, <1>8
<1> QED BY <1>1, <1>6, <1>7, <1>8 DEF Good

\* The objects are of their types, and hold and show what the ghost says.
RepresentationInv ==
    /\ Typed(rep) /\ Holding(rep, shown) /\ Scaled(rep)
    /\ ~torn => Counting(rep, shown)
    /\ torn \in BOOLEAN
    /\ queue \in Seq(Events) /\ \A i \in 1..Len(queue) : queue[i].t <= Forever

\* insert() of a queue, of one event or of many.
LEMMA IntegratesKeeps ==
    ASSUME RepresentationInv, NEW es \in Seq(Events), \A i \in 1..Len(es) : es[i].t <= Forever,
           Integrates(es)
    PROVE  /\ Typed(rep') /\ Holding(rep', shown') /\ Scaled(rep')
           /\ ~torn' => Counting(rep', shown')
           /\ torn' \in BOOLEAN
<1> DEFINE in == Among(es, {e \in Range(es) : ~Rejected(rep, e) /\ InFrame(e)})
           v == shown \o Sights(rep, Among(es, Visible(rep)))
<1>1. in = Among(es, Visible(rep))
  <2>1. Len(es) \in Nat /\ \A i \in 1..Len(es) : es[i] \in Events /\ es[i] \in Range(es)
    BY DEF Range
  <2>2. \A i \in 1..Len(es) :
          es[i] \in {e \in Range(es) : ~Rejected(rep, e) /\ InFrame(e)} <=> es[i] \in Visible(rep)
    BY <2>1 DEF Visible
  <2> QED BY <2>1, <2>2, AmongSame
<1>2. in \in Seq(Events \cap Visible(rep))
  BY <1>1, AmongType
<1>3. DOMAIN in = 1..Len(in)
  <2> HIDE DEF in
  <2> QED BY <1>2
<1>4. shown' = shown \o [i \in DOMAIN in |-> Seen(rep, in[i])] /\ torn' = torn
      /\ rep' = Queued(rep, es)
  BY DEF Integrates, Queued
<1> HIDE DEF in
<1>5. shown' = v
  BY <1>1, <1>3, <1>4 DEF Sights
<1>6. Typed(rep) /\ Holding(rep, shown) /\ Scaled(rep) /\ (~torn => Counting(rep, shown))
  BY DEF RepresentationInv
<1> HIDE DEF v
<1> DEFINE k == Queued(rep, es)
<1>7. /\ Typed(k) /\ Holding(k, v) /\ Scaled(k) /\ (Counting(rep, shown) => Counting(k, v))
  <2>1. v = shown \o Sights(rep, Among(es, Visible(rep)))
    BY DEF v
  <2>2. k = Queued(rep, es)
    OBVIOUS
  <2>3. es \in Seq(Events) /\ \A i \in 1..Len(es) : es[i].t <= Forever
    OBVIOUS
  <2> HIDE DEF k
  <2>4. Advanced(rep, shown, es, k, v)
    BY <2>1, <2>2 DEF Advanced
  <2> QED BY <1>6, <2>3, <2>4, InsertedAll
<1> HIDE DEF k
<1>8. rep' = k
  BY <1>4 DEF k
<1> QED BY <1>4, <1>5, <1>6, <1>7, <1>8 DEF RepresentationInv

-------------------------------------------------------------------------------
(* clear().                                                                *)

\* What clear_() leaves, field by field: k is r erased.
Blanked(r, picture, k) ==
    /\ DOMAIN k = Fields
    /\ \A f \in {"options", "colors", "colormap", "factor", "offset", "count", "limits",
                 "background", "view", "axes", "fade"} : k[f] = r[f]
    /\ k.image = picture /\ k.histogram = picture
    /\ k.counter = Zeros /\ k.peak = 0
    /\ k.time = Zeros /\ k.polarity = [q \in Frame |-> FALSE]
    /\ k.backdrop = BackdropOf(r)
    /\ k.events = <<>> /\ k.points = {}

\* clear_() does so.
LEMMA ErasedFields ==
    ASSUME NEW r, DOMAIN r = Fields, NEW picture
    PROVE  Blanked(r, picture, Erased(r, picture))
<1> DEFINE a == ImageErased(r, picture)
           b == HistogramErased(a, picture)
           c == SurfaceErased(b, picture)
           d == SpaceErased(c)
           k == CloudErased(d)
<1>1. /\ DOMAIN a = Fields /\ a.image = picture
      /\ \A f \in Fields \ {"image"} : a[f] = r[f]
  BY DEF ImageErased, Fields
<1> HIDE DEF a
<1>2. /\ DOMAIN b = Fields /\ b.histogram = picture /\ b.counter = Zeros /\ b.peak = 0
      /\ \A f \in Fields \ {"histogram", "counter", "peak"} : b[f] = a[f]
  BY <1>1 DEF HistogramErased, Fields
<1> HIDE DEF b
<1>3. /\ DOMAIN c = Fields /\ c.time = Zeros /\ c.polarity = [q \in Frame |-> FALSE]
      /\ \A f \in Fields \ {"surface", "time", "polarity"} : c[f] = b[f]
  BY <1>2 DEF SurfaceErased, Fields
<1> HIDE DEF c
<1>4. BackdropOf(c) = BackdropOf(r)
  <2>1. c.background = r.background /\ c.colors = r.colors /\ c.view = r.view
    BY <1>1, <1>2, <1>3 DEF Fields
  <2> QED BY <2>1 DEF BackdropOf
<1>5. /\ DOMAIN d = Fields /\ d.backdrop = BackdropOf(r) /\ d.events = <<>>
      /\ \A f \in Fields \ {"space", "backdrop", "events"} : d[f] = c[f]
  <2> DEFINE back == BackdropOf(c)
  <2>1. d = [c EXCEPT !.space = back, !.backdrop = back, !.events = <<>>]
    BY DEF SpaceErased
  <2> HIDE DEF back, d
  <2>2. /\ DOMAIN d = Fields /\ d.backdrop = back /\ d.events = <<>>
        /\ \A f \in Fields \ {"space", "backdrop", "events"} : d[f] = c[f]
    BY <1>3, <2>1 DEF Fields
  <2> QED BY <1>4, <2>2 DEF back
<1> HIDE DEF d
<1>6. /\ DOMAIN k = Fields /\ k.points = {}
      /\ \A f \in Fields \ {"points"} : k[f] = d[f]
  BY <1>5 DEF CloudErased, Fields
<1> HIDE DEF k
<1>7. Erased(r, picture) = k
  BY DEF Erased, k, d, c, b, a
<1>8. Blanked(r, picture, k)
  BY <1>1, <1>2, <1>3, <1>5, <1>6 DEF Fields, Blanked
<1> QED BY <1>7, <1>8

\* Objects that were erased hold nothing, and show the picture.
LEMMA BlankedHolds ==
    ASSUME NEW r, NEW picture, NEW k, Blanked(r, picture, k),
           r.offset \in Int, r.offset <= 0, r.count = 0, r.limits = NoLimits,
           DOMAIN picture = Frame, \A q \in Frame : picture[q] = UnderOf(r, q),
           r.background # NoBackground => \A q \in Frame : \E v : r.background[q] = Plain(v)
    PROVE  Typed(k) /\ Holding(k, <<>>) /\ Scaled(k) /\ Counting(k, <<>>)
<1>1. /\ k.options = r.options /\ k.colors = r.colors /\ k.offset = r.offset
      /\ k.count = 0 /\ k.limits = NoLimits /\ k.background = r.background /\ k.view = r.view
      /\ DOMAIN k = Fields
      /\ k.image = picture /\ k.histogram = picture /\ k.counter = Zeros /\ k.peak = 0
      /\ k.time = Zeros /\ k.polarity = [q \in Frame |-> FALSE]
      /\ k.backdrop = BackdropOf(r) /\ k.events = <<>> /\ k.points = {}
  BY DEF Blanked
<1>2. /\ Zeros \in [Frame -> CounterType] /\ Zeros \in [Frame -> Int]
      /\ \A q \in Frame : Zeros[q] = 0
  BY TypesAssumption DEF Zeros, CounterType
<1>3. k.polarity \in [Frame -> BOOLEAN]
  BY <1>1
<1>4. k.limits \in [min : Int, max : Int] /\ k.limits.max >= Tiny
  BY <1>1, TypesAssumption DEF NoLimits
<1>5. Typed(k)
  BY <1>1, <1>2, <1>3, <1>4, TypesAssumption DEF Typed
<1>6. \A q \in Frame : UnderOf(k, q) = UnderOf(r, q)
  BY <1>1 DEF UnderOf
<1>7. Holding(k, <<>>)
  <2>1. ASSUME NEW q \in Frame PROVE PixelHolds(k, AtOf(<<>>, q), q)
    <3>1. AtOf(<<>>, q) = <<>>
      BY AmongNone DEF AtOf
    <3>2. k.counter[q] = Wrapped(Net(<<>>))
      BY <1>1, <1>2, NetNone, WrappedNone
    <3>3. k.image[q] = UnderOf(k, q) /\ k.time[q] = 0
      BY <1>1, <1>2, <1>6
    <3> QED BY <3>1, <3>2, <3>3 DEF PixelHolds
  <2> QED BY <1>1, <2>1 DEF Holding
<1>8. Scaled(k)
  <2>1. BackdropOf(k) = BackdropOf(r)
    BY <1>1 DEF BackdropOf
  <2> QED BY <1>1, <1>2, <1>6, <2>1 DEF Scaled, Abs
<1>9. Counting(k, <<>>)
  BY <1>1, <1>4 DEF Counting, Limiting, NoLimits
<1> QED BY <1>5, <1>7, <1>8, <1>9

\* clear().
LEMMA ClearedAllHolds ==
    ASSUME NEW r, DOMAIN r = Fields, r.offset \in Int, r.offset <= 0, NEW k, k = ClearedAll(r)
    PROVE  Typed(k) /\ Holding(k, <<>>) /\ Scaled(k) /\ Counting(k, <<>>)
<1> DEFINE s == [r EXCEPT !.count = 0, !.limits = NoLimits, !.background = NoBackground]
           picture == Blank(r.colors)
<1>1. /\ DOMAIN s = Fields /\ s.count = 0 /\ s.limits = NoLimits /\ s.background = NoBackground
      /\ s.colors = r.colors /\ s.offset = r.offset
  BY DEF Fields
<1>2. k = Erased(s, picture)
  BY DEF ClearedAll
<1> HIDE DEF s
<1>3. DOMAIN picture = Frame /\ \A q \in Frame : picture[q] = UnderOf(s, q)
  BY <1>1 DEF Blank, UnderOf
<1> HIDE DEF picture
<1>4. Blanked(s, picture, k)
  BY <1>1, <1>2, ErasedFields
<1> QED BY <1>1, <1>3, <1>4, BlankedHolds

\* clear() with a background that the objects take.
LEMMA ClearedOverHolds ==
    ASSUME Typed(rep), NEW b, Accepted(b), NEW k, k = ClearedOver(b)
    PROVE  Typed(k) /\ Holding(k, <<>>) /\ Scaled(k) /\ Counting(k, <<>>)
<1> DEFINE picture == Placed(b)
           r == [rep EXCEPT !.count = 0, !.limits = NoLimits]
           s == [r EXCEPT !.background = picture]
<1>1. /\ DOMAIN picture = Frame
      /\ \A q \in Frame : picture # NoBackground /\ \E v : picture[q] = Plain(v)
  <2>1. DOMAIN picture = Frame
    BY DEF Placed
  <2>2. ASSUME NEW q \in Frame PROVE picture # NoBackground
    BY <2>1 DEF NoBackground
  <2>3. ASSUME NEW q \in Frame PROVE \E v : picture[q] = Plain(v)
    BY DEF Placed
  <2> QED BY <2>1, <2>2, <2>3
<1>2. k = Erased(s, picture)
  BY DEF ClearedOver
<1> HIDE DEF picture
<1>3. /\ DOMAIN s = Fields /\ s.count = 0 /\ s.limits = NoLimits /\ s.background = picture
      /\ s.offset = rep.offset
  BY DEF Fields, Typed
<1> HIDE DEF s
<1>4. \A q \in Frame : picture[q] = UnderOf(s, q)
  BY <1>1, <1>3 DEF UnderOf
<1>5. Blanked(s, picture, k)
  BY <1>2, <1>3, ErasedFields
<1>6. s.offset \in Int /\ s.offset <= 0
  BY <1>3 DEF Typed
<1> QED BY <1>1, <1>3, <1>4, <1>5, <1>6, BlankedHolds

\* A refused background leaves what was shown, and no count of it.
LEMMA RefusedHolds ==
    ASSUME Typed(rep), Holding(rep, shown), Scaled(rep), NEW b, ~Accepted(b),
           NEW k, k = ClearedOver(b)
    PROVE  Typed(k) /\ Holding(k, shown) /\ Scaled(k)
<1>1. /\ DOMAIN k = Fields /\ k.count = 0 /\ k.limits = NoLimits
      /\ k.points = rep.points \/ k.points = {}
      /\ \A f \in Fields \ {"count", "limits", "points"} : k[f] = rep[f]
  <2> DEFINE r == [rep EXCEPT !.count = 0, !.limits = NoLimits]
  <2>1. /\ DOMAIN r = Fields /\ r.count = 0 /\ r.limits = NoLimits
        /\ \A f \in Fields \ {"count", "limits"} : r[f] = rep[f]
    BY DEF Fields, Typed
  <2>2. k = CloudErased(r) \/ k = r
    BY DEF ClearedOver
  <2> HIDE DEF r
  <2> QED BY <2>1, <2>2 DEF CloudErased, Fields
<1>2. /\ k.options = rep.options /\ k.colors = rep.colors /\ k.offset = rep.offset
      /\ k.background = rep.background /\ k.histogram = rep.histogram /\ k.view = rep.view
      /\ k.backdrop = rep.backdrop
      /\ k.counter = rep.counter /\ k.peak = rep.peak /\ k.time = rep.time
      /\ k.polarity = rep.polarity /\ k.image = rep.image /\ k.events = rep.events
  BY <1>1 DEF Fields
<1>3. Typed(k)
  <2>1. k.limits \in [min : Int, max : Int] /\ k.limits.max >= Tiny
    BY <1>1, TypesAssumption DEF NoLimits
  <2>2. k.points \subseteq ShownEvents
    BY <1>1 DEF Typed
  <2> QED BY <1>1, <1>2, <2>1, <2>2 DEF Typed
<1>4. Holding(k, shown)
  BY <1>2 DEF Holding, Suits, PixelHolds, UnderOf
<1>5. Scaled(k)
  BY <1>2 DEF Scaled, BackdropOf, UnderOf
<1> QED BY <1>3, <1>4, <1>5

-------------------------------------------------------------------------------
(* The calls that neither insert nor clear.                                *)

\* What setTimeOffset(), setView(), showAxes() and the like, and render(), may change.
Adjusted(k) ==
    /\ DOMAIN k = Fields
    /\ \A f \in Fields \ {"offset", "view", "backdrop", "axes", "fade", "factor",
                          "histogram", "surface", "space"} : k[f] = rep[f]
    /\ k.offset \in Int /\ k.offset <= 0
    /\ k.backdrop = BackdropOf(k)
    /\ rep.peak = 0 => k.histogram = rep.histogram

\* These leave what is held and counted alone.
LEMMA AdjustedHolds ==
    ASSUME RepresentationInv, Adjusted(rep'), UNCHANGED <<queue, shown, torn>>
    PROVE  RepresentationInv'
<1> DEFINE k == rep'
<1>1. /\ k.options = rep.options /\ k.colors = rep.colors
      /\ k.background = rep.background /\ k.count = rep.count /\ k.limits = rep.limits
      /\ k.counter = rep.counter /\ k.peak = rep.peak /\ k.time = rep.time
      /\ k.polarity = rep.polarity /\ k.image = rep.image /\ k.events = rep.events
      /\ k.points = rep.points
      /\ DOMAIN k = Fields /\ k.offset \in Int /\ k.offset <= 0
      /\ k.backdrop = BackdropOf(k) /\ (rep.peak = 0 => k.histogram = rep.histogram)
  BY DEF Adjusted, Fields
<1>2. /\ Typed(rep) /\ Holding(rep, shown) /\ Scaled(rep) /\ (~torn => Counting(rep, shown))
      /\ shown' = shown /\ torn' = torn /\ queue' = queue
      /\ torn \in BOOLEAN /\ queue \in Seq(Events)
      /\ \A i \in 1..Len(queue) : queue[i].t <= Forever
  BY DEF RepresentationInv
<1> HIDE DEF k
<1>3. Typed(k)
  BY <1>1, <1>2 DEF Typed
<1>4. Holding(k, shown)
  BY <1>1, <1>2 DEF Holding, Suits, PixelHolds, UnderOf
<1>5. Scaled(k)
  <2>1. \A q \in Frame : UnderOf(k, q) = UnderOf(rep, q)
    BY <1>1 DEF UnderOf
  <2> QED BY <1>1, <1>2, <2>1 DEF Scaled
<1>6. ~torn => Counting(k, shown)
  BY <1>1, <1>2 DEF Counting
<1> QED BY <1>2, <1>3, <1>4, <1>5, <1>6 DEF RepresentationInv, k

\* Objects that were cleared, with the ghosts.
LEMMA ClearedInv ==
    ASSUME RepresentationInv, Typed(rep'), Holding(rep', <<>>), Scaled(rep'),
           Counting(rep', <<>>), shown' = <<>>, torn' \in BOOLEAN, queue' = queue
    PROVE  RepresentationInv'
BY DEF RepresentationInv

\* The other calls.
LEMMA AdjustmentHolds ==
    ASSUME RepresentationInv, now \in Nat,
           \/ SetTimeOffset([t |-> now])
           \/ \E view \in Views : SetView(view)
           \/ \E state \in BOOLEAN : ShowAxes(state) \/ FadeWithDepth(state)
           \/ \E factor \in Outliers : SetOutlierRejection(factor)
           \/ \E tau \in Taus, kernel \in Kernels : Render(kernel, tau)
    PROVE  RepresentationInv'
<1>0. DOMAIN rep = Fields /\ rep.offset \in Int /\ rep.offset <= 0 /\ rep.backdrop = BackdropOf(rep)
  BY DEF RepresentationInv, Typed, Scaled
<1>1. CASE SetTimeOffset([t |-> now])
  <2> DEFINE k == [rep EXCEPT !.offset = -now]
  <2>1. rep' = k /\ UNCHANGED <<queue, shown, torn>>
    BY <1>1 DEF SetTimeOffset
  <2>2. /\ DOMAIN k = Fields /\ k.offset = -now /\ \A f \in Fields \ {"offset"} : k[f] = rep[f]
    BY <1>0 DEF Fields
  <2>3. -now \in Int /\ -now <= 0
    OBVIOUS
  <2> HIDE DEF k
  <2>4. k.backdrop = rep.backdrop /\ k.background = rep.background /\ k.colors = rep.colors
        /\ k.view = rep.view /\ k.histogram = rep.histogram
    BY <2>2 DEF Fields
  <2>5. k.backdrop = BackdropOf(k)
    BY <1>0, <2>4 DEF BackdropOf
  <2>6. Adjusted(k)
    BY <1>0, <2>2, <2>3, <2>4, <2>5 DEF Adjusted
  <2> QED BY <2>1, <2>6, AdjustedHolds
<1>2. CASE \E view \in Views : SetView(view)
  <2>1. PICK view \in Views : SetView(view)
    BY <1>2
  <2> DEFINE back == BackdropOf([rep EXCEPT !.view = view])
             v == [rep EXCEPT !.view = view]
             k == [rep EXCEPT !.view = view, !.backdrop = back]
  <2>2. rep' = k /\ UNCHANGED <<queue, shown, torn>>
    BY <2>1 DEF SetView
  <2>3. /\ v.view = view /\ v.background = rep.background /\ v.colors = rep.colors
    BY <1>0 DEF Fields
  <2>4. back = BackdropOf(v)
    OBVIOUS
  <2> HIDE DEF back, v
  <2>5. /\ DOMAIN k = Fields /\ k.view = view /\ k.backdrop = back
        /\ \A f \in Fields \ {"view", "backdrop"} : k[f] = rep[f]
    BY <1>0 DEF Fields
  <2> HIDE DEF k
  <2>6. k.background = rep.background /\ k.colors = rep.colors /\ k.histogram = rep.histogram
        /\ k.offset = rep.offset
    BY <2>5 DEF Fields
  <2>7. k.backdrop = BackdropOf(k)
    BY <2>3, <2>4, <2>5, <2>6 DEF BackdropOf
  <2>8. Adjusted(k)
    BY <1>0, <2>5, <2>6, <2>7 DEF Adjusted
  <2> QED BY <2>2, <2>8, AdjustedHolds
<1>3. CASE \/ \E state \in BOOLEAN : ShowAxes(state) \/ FadeWithDepth(state)
           \/ \E factor \in Outliers : SetOutlierRejection(factor)
  <2> DEFINE k == rep'
  <2>1. /\ DOMAIN k = Fields /\ UNCHANGED <<queue, shown, torn>>
        /\ \A f \in Fields \ {"axes", "fade", "factor"} : k[f] = rep[f]
    BY <1>0, <1>3 DEF ShowAxes, FadeWithDepth, SetOutlierRejection, Fields
  <2> HIDE DEF k
  <2>2. k.backdrop = rep.backdrop /\ k.background = rep.background /\ k.colors = rep.colors
        /\ k.view = rep.view /\ k.histogram = rep.histogram /\ k.offset = rep.offset
    BY <2>1 DEF Fields
  <2>3. k.backdrop = BackdropOf(k)
    BY <1>0, <2>2 DEF BackdropOf
  <2>4. Adjusted(k)
    BY <1>0, <2>1, <2>2, <2>3 DEF Adjusted
  <2> QED BY <2>1, <2>4, AdjustedHolds DEF k
<1>4. CASE \E tau \in Taus, kernel \in Kernels : Render(kernel, tau)
  <2>1. PICK tau \in Taus, kernel \in Kernels : Render(kernel, tau)
    BY <1>4
  <2> DEFINE h == HistogramDrawn(rep.factor)
             u == SurfaceDrawn(kernel, tau)
             w == SpaceDrawn
             k == [rep EXCEPT !.histogram = IF rep.peak = 0 THEN @ ELSE h,
                              !.surface = u, !.space = w]
  <2>2. rep' = k /\ UNCHANGED <<queue, shown, torn>>
    BY <2>1 DEF Render
  <2> HIDE DEF h, u, w
  <2>3. /\ DOMAIN k = Fields /\ (rep.peak = 0 => k.histogram = rep.histogram)
        /\ \A f \in Fields \ {"histogram", "surface", "space"} : k[f] = rep[f]
    BY <1>0 DEF Fields
  <2> HIDE DEF k
  <2>4. k.backdrop = rep.backdrop /\ k.background = rep.background /\ k.colors = rep.colors
        /\ k.view = rep.view /\ k.offset = rep.offset
    BY <2>3 DEF Fields
  <2>5. k.backdrop = BackdropOf(k)
    BY <1>0, <2>4 DEF BackdropOf
  <2>6. Adjusted(k)
    BY <1>0, <2>3, <2>4, <2>5 DEF Adjusted
  <2> QED BY <2>2, <2>6, AdjustedHolds
<1> QED BY <1>1, <1>2, <1>3, <1>4

\* clear(), and what calls it.
LEMMA ClearHolds ==
    ASSUME RepresentationInv,
           \/ ClearAll
           \/ \E b \in Backgrounds : ClearOver(b)
           \/ \E colors \in Colors : SetValues(colors)
           \/ \E c \in Colormaps : SetColormap(c)
    PROVE  RepresentationInv'
<1>0. Typed(rep) /\ DOMAIN rep = Fields /\ rep.offset \in Int /\ rep.offset <= 0
  BY DEF RepresentationInv, Typed
<1>1. CASE ClearAll
  <2>1. rep' = ClearedAll(rep) /\ shown' = <<>> /\ torn' = FALSE /\ queue' = queue
    BY <1>1 DEF ClearAll
  <2> QED BY <1>0, <2>1, ClearedAllHolds, ClearedInv
<1>2. CASE \E b \in Backgrounds : ClearOver(b)
  <2>1. PICK b \in Backgrounds : ClearOver(b)
    BY <1>2
  <2>2. /\ rep' = ClearedOver(b) /\ queue' = queue
        /\ shown' = (IF Accepted(b) THEN <<>> ELSE shown) /\ torn' = ~Accepted(b)
    BY <2>1 DEF ClearOver
  <2>3. CASE Accepted(b)
    <3>1. /\ Typed(rep') /\ Holding(rep', <<>>) /\ Scaled(rep') /\ Counting(rep', <<>>)
      BY <1>0, <2>2, <2>3, ClearedOverHolds
    <3> QED BY <2>2, <2>3, <3>1, ClearedInv
  <2>4. CASE ~Accepted(b)
    <3>1. /\ Typed(rep') /\ Holding(rep', shown) /\ Scaled(rep')
      BY <1>0, <2>2, <2>4, RefusedHolds DEF RepresentationInv
    <3>2. torn' /\ torn' \in BOOLEAN /\ shown' = shown
      BY <2>2, <2>4
    <3> QED BY <2>2, <3>1, <3>2 DEF RepresentationInv
  <2> QED BY <2>3, <2>4
<1>3. CASE \E colors, colormap : Painted(colors, colormap)
  <2>1. PICK colors, colormap : Painted(colors, colormap)
    BY <1>3
  <2> DEFINE r == [rep EXCEPT !.colors = colors, !.colormap = colormap]
  <2>2. rep' = ClearedAll(r) /\ shown' = <<>> /\ torn' = FALSE /\ queue' = queue
    BY <2>1 DEF Painted
  <2>3. DOMAIN r = Fields /\ r.offset = rep.offset
    BY <1>0 DEF Fields
  <2> HIDE DEF r
  <2> QED BY <1>0, <2>2, <2>3, ClearedAllHolds, ClearedInv
<1>4. CASE \E colors \in Colors : SetValues(colors)
  BY <1>3, <1>4 DEF SetValues
<1>5. CASE \E c \in Colormaps : SetColormap(c)
  BY <1>3, <1>5 DEF SetColormap
<1> QED BY <1>1, <1>2, <1>4, <1>5

-------------------------------------------------------------------------------
(* The representations in a program.                                       *)

\* insert(), of an event or of a queue, and what fills the queue.
LEMMA InsertHolds ==
    ASSUME RepresentationInv, NEW e \in Events, e.t <= Forever, Insert(e) \/ Enqueue(e)
    PROVE  RepresentationInv'
<1>1. queue \in Seq(Events) /\ \A i \in 1..Len(queue) : queue[i].t <= Forever
  BY DEF RepresentationInv
<1>2. CASE Insert(e)
  <2> DEFINE es == <<e>>
  <2>1. es \in Seq(Events) /\ \A i \in 1..Len(es) : es[i].t <= Forever
    OBVIOUS
  <2>2. Integrates(es) /\ queue' = queue
    BY <1>2 DEF Insert
  <2> HIDE DEF es
  <2>3. /\ Typed(rep') /\ Holding(rep', shown') /\ Scaled(rep')
        /\ (~torn' => Counting(rep', shown')) /\ torn' \in BOOLEAN
    BY <2>1, <2>2, IntegratesKeeps
  <2> QED BY <1>1, <2>2, <2>3 DEF RepresentationInv
<1>3. CASE Enqueue(e)
  <2>1. queue' = Append(queue, e) /\ UNCHANGED <<rep, shown, torn>>
    BY <1>3 DEF Enqueue
  <2>2. queue' \in Seq(Events)
    BY <1>1, <2>1
  <2>3. ASSUME NEW i \in 1..Len(queue') PROVE queue'[i].t <= Forever
    <3>1. i = Len(queue) + 1 \/ i \in 1..Len(queue)
      BY <1>1, <2>1
    <3>2. CASE i = Len(queue) + 1
      BY <1>1, <2>1, <3>2
    <3>3. CASE i \in 1..Len(queue)
      BY <1>1, <2>1, <3>3
    <3> QED BY <3>1, <3>2, <3>3
  <2> QED BY <2>1, <2>2, <2>3 DEF RepresentationInv
<1> QED BY <1>2, <1>3

\* A queue that is inserted, and kept or emptied.
LEMMA InsertQueueHolds ==
    ASSUME RepresentationInv, NEW keep, InsertQueue(keep)
    PROVE  RepresentationInv'
<1>1. queue \in Seq(Events) /\ \A i \in 1..Len(queue) : queue[i].t <= Forever
  BY DEF RepresentationInv
<1>2. Integrates(queue) /\ queue' \in {queue, <<>>}
  BY DEF InsertQueue
<1>3. /\ Typed(rep') /\ Holding(rep', shown') /\ Scaled(rep')
      /\ (~torn' => Counting(rep', shown')) /\ torn' \in BOOLEAN
  BY <1>1, <1>2, IntegratesKeeps
<1>4. queue' \in Seq(Events) /\ \A i \in 1..Len(queue') : queue'[i].t <= Forever
  <2>1. <<>> \in Seq(Events) /\ \A i \in 1..Len(<<>>) : FALSE
    OBVIOUS
  <2> QED BY <1>1, <1>2, <2>1
<1> QED BY <1>3, <1>4 DEF RepresentationInv

\* At first the objects were just cleared.
LEMMA RepresentationInitHolds == RepresentationInit => RepresentationInv
<1> SUFFICES ASSUME RepresentationInit PROVE RepresentationInv
  OBVIOUS
<1>1. PICK options \in Options :
         rep = ClearedAll([options |-> options, colors |-> InitialColors,
                           colormap |-> FALSE, factor |-> 0, offset |-> 0,
                           count |-> 0, limits |-> NoLimits, background |-> NoBackground,
                           image |-> <<>>, histogram |-> <<>>, surface |-> <<>>,
                           view |-> InitialView, axes |-> FALSE, fade |-> FALSE,
                           backdrop |-> <<>>, space |-> <<>>, counter |-> <<>>, peak |-> 0,
                           time |-> <<>>, polarity |-> <<>>, events |-> <<>>, points |-> {}])
  BY DEF RepresentationInit
<1> DEFINE r == [options |-> options, colors |-> InitialColors,
                 colormap |-> FALSE, factor |-> 0, offset |-> 0,
                 count |-> 0, limits |-> NoLimits, background |-> NoBackground,
                 image |-> <<>>, histogram |-> <<>>, surface |-> <<>>,
                 view |-> InitialView, axes |-> FALSE, fade |-> FALSE,
                 backdrop |-> <<>>, space |-> <<>>, counter |-> <<>>, peak |-> 0,
                 time |-> <<>>, polarity |-> <<>>, events |-> <<>>, points |-> {}]
<1>2. DOMAIN r = Fields /\ r.offset = 0
  BY DEF Fields
<1>3. rep = ClearedAll(r) /\ queue = <<>> /\ shown = <<>> /\ torn = FALSE
  BY <1>1 DEF RepresentationInit
<1> HIDE DEF r
<1>4. Typed(rep) /\ Holding(rep, <<>>) /\ Scaled(rep) /\ Counting(rep, <<>>)
  BY <1>2, <1>3, ClearedAllHolds
<1>5. queue \in Seq(Events) /\ \A i \in 1..Len(queue) : queue[i].t <= Forever
  <2>1. <<>> \in Seq(Events) /\ \A i \in 1..Len(<<>>) : FALSE
    OBVIOUS
  <2> QED BY <1>3, <2>1
<1>6. torn \in BOOLEAN
  BY <1>3
<1>7. Holding(rep, shown) /\ Counting(rep, shown)
  BY <1>3, <1>4
<1> QED BY <1>4, <1>5, <1>6, <1>7 DEF RepresentationInv

\* The times stay within their type.
TimeInv == now <= Forever

\* Every step keeps the times and the representations as they should be.
LEMMA RepresentationKeeps ==
    ASSUME IInv, TimeInv, RepresentationInv, [Next]_vars
    PROVE  TimeInv' /\ RepresentationInv'
<1>0. now \in Nat /\ now <= Forever
  BY DEF IInv, FlightInv, TimeInv
<1>1. CASE UNCHANGED representation /\ now' <= Forever
  BY <1>1 DEF representation, RepresentationInv, TimeInv
<1>2. CASE Arrive
  BY <1>1, <1>2 DEF Arrive
<1>3. CASE Show
  <2>1. flight # <<>> /\ now' = now /\ (Insert(flight[1]) \/ Enqueue(flight[1]))
    BY <1>3 DEF Show, Passed
  <2>2. flight[1] \in Events /\ flight[1].t = now
    BY <2>1 DEF IInv, FlightInv
  <2> QED BY <1>0, <2>1, <2>2, InsertHolds DEF TimeInv
<1>4. CASE SetRepresentations
  <2>1. now' = now
    BY <1>4 DEF SetRepresentations, Setting
  <2>2. \/ \E keep \in BOOLEAN : InsertQueue(keep)
        \/ \/ ClearAll
           \/ \E b \in Backgrounds : ClearOver(b)
           \/ \E colors \in Colors : SetValues(colors)
           \/ \E c \in Colormaps : SetColormap(c)
        \/ \/ SetTimeOffset([t |-> now])
           \/ \E view \in Views : SetView(view)
           \/ \E state \in BOOLEAN : ShowAxes(state) \/ FadeWithDepth(state)
           \/ \E factor \in Outliers : SetOutlierRejection(factor)
           \/ \E tau \in Taus, kernel \in Kernels : Render(kernel, tau)
    BY <1>4 DEF SetRepresentations
  <2>3. RepresentationInv'
    BY <1>0, <2>2, InsertQueueHolds, ClearHolds, AdjustmentHolds
  <2> QED BY <1>0, <2>1, <2>3 DEF TimeInv
<1>5. CASE \/ AskBackground \/ AskRefractory \/ AskHot \/ Undistort \/ Store
           \/ SetFilters \/ SetContainers \/ UNCHANGED vars
  <2>1. UNCHANGED <<representation, now>>
    BY <1>5 DEF AskBackground, AskRefractory, AskHot, Ask, Undistort, Store, Passed,
                SetFilters, SetContainers, Setting, vars
  <2> QED BY <1>0, <1>1, <2>1
<1> QED BY <1>2, <1>3, <1>4, <1>5 DEF Next

\* In every state the objects hold and show what the ghosts say.
THEOREM RepresentationInvariant == Spec => [](TimeInv /\ RepresentationInv)
<1>1. Init => TimeInv /\ RepresentationInv
  BY RepresentationInitHolds, TypesAssumption DEF Init, TimeInv
<1>2. IInv /\ TimeInv /\ RepresentationInv /\ [Next]_vars => TimeInv' /\ RepresentationInv'
  BY RepresentationKeeps
<1> QED BY <1>1, <1>2, Invariant, PTL DEF Spec

-------------------------------------------------------------------------------
(* What follows of what the objects say and draw.                           *)

\* The events at a pixel.
LEMMA AtIs ==
    ASSUME NEW q, shown \in Seq(ShownEvents)
    PROVE  At(q) = AtOf(shown, q) /\ At(q) \in Seq(ShownEvents)
<1>1. Len(shown) \in Nat /\ \A i \in 1..Len(shown) : shown[i] \in ShownEvents /\ shown[i] \in Range(shown)
  BY DEF Range
<1>2. \A i \in 1..Len(shown) :
        shown[i] \in {e \in Range(shown) : Pixel(e) = q} <=> shown[i] \in {e \in ShownEvents : Pixel(e) = q}
  BY <1>1
<1>3. At(q) = AtOf(shown, q)
  BY <1>1, <1>2, AmongSame DEF At, AtOf
<1>4. AtOf(shown, q) \in Seq(ShownEvents)
  <2> DEFINE S == {e \in ShownEvents : Pixel(e) = q}
  <2>1. Seq(ShownEvents \cap S) \subseteq Seq(ShownEvents)
    OBVIOUS
  <2> HIDE DEF S
  <2>2. Among(shown, S) \in Seq(ShownEvents \cap S)
    BY AmongType
  <2> QED BY <2>1, <2>2 DEF AtOf, S
<1> QED BY <1>3, <1>4

\* What the invariant says of a pixel, in the words of the properties.
LEMMA PixelIs ==
    ASSUME RepresentationInv, NEW q \in Frame
    PROVE  /\ At(q) \in Seq(ShownEvents)
           /\ rep.counter[q] = Wrapped(Net(At(q)))
           /\ At(q) = <<>> => rep.image[q] = Under(q) /\ rep.time[q] = 0
           /\ At(q) # <<>> =>
                /\ rep.image[q] = Shows(q, Last(At(q)))
                /\ rep.time[q] = Last(At(q)).t /\ rep.polarity[q] = Last(At(q)).p
<1>1. shown \in Seq(ShownEvents) /\ PixelHolds(rep, AtOf(shown, q), q)
  BY DEF RepresentationInv, Holding
<1>2. At(q) = AtOf(shown, q) /\ At(q) \in Seq(ShownEvents)
  BY <1>1, AtIs
<1> DEFINE h == At(q)
<1> HIDE DEF h
<1>3. PixelHolds(rep, h, q)
  BY <1>1, <1>2 DEF h
<1>4. UnderOf(rep, q) = Under(q) /\ Last(h) = h[Len(h)]
  BY DEF UnderOf, Under, Last
<1>5. /\ rep.counter[q] = Wrapped(Net(h))
      /\ h = <<>> => rep.image[q] = Under(q) /\ rep.time[q] = 0
      /\ h # <<>> =>
           /\ rep.image[q] = Shows(q, Last(h))
           /\ rep.time[q] = Last(h).t /\ rep.polarity[q] = Last(h).p
  BY <1>3, <1>4 DEF PixelHolds, Shows
<1> QED BY <1>2, <1>5 DEF h

\* The objects hold the events that they were shown.
LEMMA HeldIsShown == RepresentationInv => HoldsWhatIsShown
<1> SUFFICES ASSUME RepresentationInv PROVE HoldsWhatIsShown
  OBVIOUS
<1>1. rep.events = shown
  BY DEF RepresentationInv, Holding
<1>2. ASSUME NEW q \in Frame
      PROVE  LET here == At(q)
                 net == Cardinality({i \in DOMAIN here : here[i].p})
                          - Cardinality({i \in DOMAIN here : ~here[i].p})
             IN  /\ rep.counter[q] = Wrapped(net)
                 /\ IF here = <<>> THEN rep.image[q] = Under(q) /\ rep.time[q] = 0
                    ELSE /\ rep.image[q] = Shows(q, Last(here))
                         /\ rep.time[q] = Last(here).t /\ rep.polarity[q] = Last(here).p
  BY PixelIs DEF Net, Ups, Downs
<1> QED BY <1>1, <1>2 DEF HoldsWhatIsShown

\* The count and the limits are those of these events.
LEMMA CountedIsShown == RepresentationInv => CountsWhatIsShown
<1> SUFFICES ASSUME RepresentationInv, ~torn PROVE CountsWhatIsShown
  BY DEF CountsWhatIsShown
<1> DEFINE times == {shown[i].t : i \in DOMAIN shown}
           l == rep.limits
<1>1. /\ shown \in Seq(ShownEvents) /\ rep.count = Len(shown)
      /\ {e \in rep.points : InFrame(e)} = {shown[i] : i \in 1..Len(shown)}
      /\ Limiting(l, shown) /\ l \in [min : Int, max : Int] /\ l.max >= Tiny
  BY DEF RepresentationInv, Holding, Counting, Typed
<1>2. Len(shown) \in Nat /\ DOMAIN shown = 1..Len(shown) /\ (Len(shown) = 0 <=> shown = <<>>)
  BY <1>1
<1>3. Range(shown) = {shown[i] : i \in 1..Len(shown)}
  BY <1>2 DEF Range
<1>4. times \subseteq Int /\ (times = {} <=> Len(shown) = 0)
  <2>1. \A i \in 1..Len(shown) : shown[i].t \in Int
    <3>1. \A i \in 1..Len(shown) : shown[i] \in ShownEvents
      BY <1>1
    <3> QED BY <3>1 DEF ShownEvents
  <2>2. CASE Len(shown) # 0
    <3>1. 1 \in DOMAIN shown
      BY <1>2, <2>2
    <3>2. shown[1].t \in times
      BY <3>1
    <3> QED BY <1>2, <2>1, <2>2, <3>2
  <2>3. CASE Len(shown) = 0
    <3>1. DOMAIN shown = {}
      BY <1>2, <2>3
    <3> QED BY <2>3, <3>1
  <2> QED BY <2>2, <2>3
<1>5. /\ l.min \in Int /\ l.max \in Int /\ l.max >= 1
      /\ \A t \in times : l.min <= t /\ t <= l.max
      /\ times # {} => l.min \in times
      /\ l.max = 1 \/ l.max \in times
  <2>1. l.min \in Int /\ l.max \in Int /\ l.max >= 1
    BY <1>1, TypesAssumption
  <2>2. /\ \A i \in 1..Len(shown) : l.min <= shown[i].t /\ shown[i].t <= l.max
        /\ shown # <<>> => \E i \in 1..Len(shown) : l.min = shown[i].t
        /\ l.max = 1 \/ \E i \in 1..Len(shown) : l.max = shown[i].t
    BY <1>1, TypesAssumption DEF Limiting
  <2> HIDE DEF l
  <2> QED BY <1>2, <1>4, <2>1, <2>2
<1>6. FirstTimestamp = (IF rep.count = 0 THEN 0 ELSE l.min)
      /\ LastTimestamp = (IF rep.count = 0 THEN 0 ELSE l.max)
  BY DEF FirstTimestamp, LastTimestamp
<1> HIDE DEF times, l
<1>7. FirstTimestamp = IF times = {} THEN 0 ELSE Min(times)
  BY <1>1, <1>4, <1>5, <1>6, MinIs
<1>8. times = {} => LastTimestamp = 0
  BY <1>1, <1>4, <1>6
<1>9. times # {} /\ Max(times) > 0 => LastTimestamp = Max(times)
  <2> SUFFICES ASSUME times # {}, Max(times) > 0 PROVE LastTimestamp = Max(times)
    OBVIOUS
  <2>1. Max(times) \in times /\ \A t \in times : t <= Max(times)
    BY <1>4, <1>5, MaxOf
  <2>2. Max(times) = l.max
    <3>1. Max(times) \in Int /\ Max(times) <= l.max
      BY <1>4, <1>5, <2>1
    <3>2. CASE l.max = 1
      <4> HIDE DEF l
      <4> QED BY <3>1, <3>2
    <3>3. CASE l.max \in times
      <4>1. l.max <= Max(times)
        BY <2>1, <3>3
      <4> QED BY <1>5, <3>1, <4>1
    <3> QED BY <1>5, <3>2, <3>3
  <2> QED BY <1>1, <1>4, <1>6, <2>2
<1> QED BY <1>1, <1>3, <1>7, <1>8, <1>9 DEF CountsWhatIsShown, times

\* A histogram is scaled by its peak, or by what takes its place: a count or one.
LEMMA WholeIs ==
    ASSUME RepresentationInv, NEW factor
    PROVE  /\ Whole(factor) \in Int
           /\ factor = 0 => Whole(factor) = rep.peak
           /\ factor # 0 => Whole(factor) >= 1
<1> DEFINE active == SelectSeq(SetToSeq({<<q, Abs(rep.counter[q])>> : q \in Frame}),
                               LAMBDA a : a[2] # 0)
           counts == [i \in DOMAIN active |-> active[i][2]]
           median == Middle(counts)
           deviation == Bigger(Middle([i \in DOMAIN counts |-> Abs(counts[i] - median)]), 1)
           chosen == {p \in Frame : 2 * Abs(rep.counter[p]) <= 2 * median + factor * deviation}
           inliers == {Abs(rep.counter[q]) : q \in chosen}
<1>1. Whole(factor) = IF factor = 0 THEN rep.peak
                      ELSE IF counts = <<>> THEN 1 ELSE Max(inliers \cup {1})
  BY DEF Whole
<1>2. chosen \subseteq Frame
  OBVIOUS
<1> HIDE DEF active, counts, median, deviation, chosen
<1>3. rep.peak \in 0..CounterMax + 1 /\ \A q \in Frame : Abs(rep.counter[q]) \in 0..CounterMax + 1
  <2>1. rep.counter \in [Frame -> CounterType] /\ rep.peak \in 0..CounterMax + 1
    BY DEF RepresentationInv, Typed
  <2>2. \A n \in CounterType : Abs(n) \in 0..CounterMax + 1
    BY TypesAssumption DEF CounterType, Abs
  <2> QED BY <2>1, <2>2
<1>4. inliers \subseteq 0..CounterMax + 1
  BY <1>2, <1>3
<1> HIDE DEF inliers
<1>5. Max(inliers \cup {1}) \in Int /\ Max(inliers \cup {1}) >= 1
  <2>1. /\ inliers \cup {1} \in SUBSET Int /\ inliers \cup {1} # {}
        /\ CounterMax + 1 \in Int /\ \A x \in inliers \cup {1} : x <= CounterMax + 1
    BY <1>4, TypesAssumption
  <2>2. Max(inliers \cup {1}) \in inliers \cup {1} /\ 1 <= Max(inliers \cup {1})
    BY <2>1, MaxOf
  <2> QED BY <2>1, <2>2
<1>6. rep.peak \in Int
  BY <1>3, TypesAssumption
<1> QED BY <1>1, <1>5, <1>6

\* A pixel that is mixed of its value and V_RESET is in scale if its part is.
LEMMA MixedInScale ==
    ASSUME NEW positive, NEW part \in Int, NEW whole \in Int, 0 <= part, part <= whole,
           whole > 0
    PROVE  InScale(Mixed(positive, part, whole))
<1>1. \A v : InScale(Plain(v)) /\ InScale(<<v, part, whole>>)
  BY DEF InScale, Plain
<1> QED BY <1>1 DEF Mixed

\* What is under the events is in scale.
LEMMA PlainInScale == \A v : InScale(Plain(v))
BY DEF InScale, Plain

\* No drawn count goes past the peak, or past what takes its place.
LEMMA CountsInScale ==
    ASSUME RepresentationInv, NEW factor, rep.peak > 0, NEW q \in Frame
    PROVE  InScale(HistogramDrawn(factor)[q])
<1> DEFINE w == Whole(factor)
           n == rep.counter[q]
           x == IF OneSided THEN Bigger(n, 0) ELSE Abs(n)
           y == Cut(factor, x, w)
<1>1. HistogramDrawn(factor)[q] =
        IF n = 0 /\ rep.background # NoBackground THEN rep.background[q]
        ELSE Mixed(n > 0, y, w)
  BY DEF HistogramDrawn
<1>2. w \in Int /\ w > 0 /\ (factor = 0 => w = rep.peak)
  <2>1. w \in Int /\ (factor = 0 => w = rep.peak) /\ (factor # 0 => w >= 1)
    BY WholeIs
  <2> HIDE DEF w
  <2> QED BY <2>1
<1>3. n \in Int /\ Abs(n) <= rep.peak /\ rep.peak \in Int
  BY TypesAssumption DEF RepresentationInv, Typed, Scaled, CounterType
<1>4. rep.background # NoBackground => \E v : rep.background[q] = Plain(v)
  BY DEF RepresentationInv, Typed
<1>5. x \in Int /\ 0 <= x /\ x <= rep.peak
  <2> HIDE DEF n
  <2> QED BY <1>3 DEF Bigger, Abs
<1> HIDE DEF w, n, x
<1>6. y \in Int /\ 0 <= y /\ y <= w
  BY <1>2, <1>3, <1>5 DEF Cut, Smaller
<1> HIDE DEF y
<1>7. InScale(Mixed(n > 0, y, w))
  BY <1>2, <1>6, MixedInScale
<1> QED BY <1>1, <1>4, <1>7, PlainInScale

\* The last event at a pixel is one of those shown.
LEMMA LastAt ==
    ASSUME RepresentationInv, NEW q \in Frame, At(q) # <<>>
    PROVE  /\ Last(At(q)).t <= Forever /\ ("ignore_polarity" \in rep.options => Last(At(q)).p)
           /\ \E i \in 1..Len(shown) : Last(At(q)) = shown[i]
<1> DEFINE S == {e \in ShownEvents : Pixel(e) = q}
           h == Among(shown, S)
<1>1. shown \in Seq(ShownEvents)
  BY DEF RepresentationInv, Holding
<1>2. At(q) = h /\ At(q) \in Seq(ShownEvents)
  BY <1>1, AtIs DEF AtOf
<1> HIDE DEF S
<1>3. {Among(shown, S)[j] : j \in 1..Len(Among(shown, S))} = {shown[i] : i \in 1..Len(shown)} \cap S
  BY <1>1, AmongRange
<1>4. {h[j] : j \in 1..Len(h)} \subseteq {shown[i] : i \in 1..Len(shown)}
  BY <1>3
<1> HIDE DEF h
<1>5. Last(h) = h[Len(h)] /\ Len(h) \in 1..Len(h)
  <2>1. h \in Seq(ShownEvents) /\ h # <<>>
    BY <1>2
  <2> QED BY <2>1 DEF Last
<1>6. PICK i \in 1..Len(shown) : Last(h) = shown[i]
  BY <1>4, <1>5
<1>7. Suits(rep, shown[i])
  BY DEF RepresentationInv, Holding
<1> QED BY <1>2, <1>6, <1>7 DEF Suits

\* The last times after zero.
LastTimes == {rep.time[q] : q \in {p \in Frame : rep.time[p] > 0}}

\* They are between the smallest and the largest of them.
LEMMA TimesSpan ==
    ASSUME RepresentationInv, NEW q \in Frame, rep.time[q] > 0
    PROVE  /\ Min(LastTimes) \in Int /\ Max(LastTimes) \in Int
           /\ Min(LastTimes) <= rep.time[q] /\ rep.time[q] <= Max(LastTimes)
<1>1. rep.time \in [Frame -> Int]
  BY DEF RepresentationInv, Typed
<1>2. LastTimes \in SUBSET Nat /\ \A t \in LastTimes : t <= Forever
  <2>1. ASSUME NEW r \in Frame, rep.time[r] > 0 PROVE rep.time[r] \in Nat /\ rep.time[r] <= Forever
    <3>1. At(r) # <<>> /\ rep.time[r] = Last(At(r)).t /\ At(r) \in Seq(ShownEvents)
      BY <1>1, <2>1, PixelIs
    <3>2. Last(At(r)).t <= Forever
      BY <3>1, LastAt
    <3> QED BY <1>1, <2>1, <3>1, <3>2
  <2> QED BY <2>1 DEF LastTimes
<1>3. rep.time[q] \in LastTimes
  BY DEF LastTimes
<1>4. Min(LastTimes) \in LastTimes /\ \A t \in LastTimes : Min(LastTimes) <= t
  <2>1. PICK m \in LastTimes : \A t \in LastTimes : m <= t
    BY <1>2, <1>3, Least
  <2>2. LastTimes \in SUBSET Int
    BY <1>2
  <2> QED BY <2>1, <2>2, MinIs
<1>5. Max(LastTimes) \in LastTimes /\ \A t \in LastTimes : t <= Max(LastTimes)
  <2>1. LastTimes \in SUBSET Int /\ Forever \in Int /\ LastTimes # {}
    BY <1>2, <1>3, TypesAssumption
  <2> QED BY <1>2, <2>1, MaxOf
<1>6. Min(LastTimes) \in Int /\ Max(LastTimes) \in Int
  <2>1. \A t \in LastTimes : t \in Int
    BY <1>2
  <2> QED BY <1>4, <1>5, <2>1
<1> QED BY <1>3, <1>4, <1>5, <1>6

\* No last time is past the limit, unless a clear() threw and left the times.
LEMMA TimesLimited ==
    ASSUME RepresentationInv, ~torn, NEW q \in Frame
    PROVE  rep.time[q] <= rep.limits.max
<1>1. rep.limits.max \in Int /\ rep.limits.max >= 1
  BY TypesAssumption DEF RepresentationInv, Typed
<1>2. CASE At(q) = <<>>
  <2>1. rep.time[q] = 0
    BY <1>2, PixelIs
  <2> QED BY <1>1, <2>1
<1>3. CASE At(q) # <<>>
  <2>1. PICK i \in 1..Len(shown) : Last(At(q)) = shown[i]
    BY <1>3, LastAt
  <2>2. rep.time[q] = shown[i].t
    BY <1>3, <2>1, PixelIs
  <2>3. shown[i].t <= rep.limits.max
    BY DEF RepresentationInv, Counting, Limiting
  <2> QED BY <2>2, <2>3
<1> QED BY <1>2, <1>3

\* With each kernel a pixel of a surface goes neither back nor past its value.
LEMMA TimesInScale ==
    ASSUME RepresentationInv, ~torn, NEW q \in Frame, NEW kernel \in Kernels, NEW tau \in Taus
    PROVE  InScale(SurfaceDrawn(kernel, tau)[q])
<1> DEFINE t == rep.time[q]
           max == rep.limits.max
           B == Brightness(kernel, tau, t)
           low == Min(LastTimes)
           high == Max(LastTimes)
<1>1. t \in Int /\ max \in Int /\ max >= 1 /\ t <= max
  BY TypesAssumption, TimesLimited DEF RepresentationInv, Typed
<1>2. tau \in Int /\ tau > 0
  BY TausAssumption
<1>3. SurfaceDrawn(kernel, tau)[q] =
        IF t = 0 /\ rep.background # NoBackground THEN rep.background[q]
        ELSE Mixed(rep.polarity[q], B[1], B[2])
  <2>1. ~(max < 0)
    BY <1>1
  <2> QED BY <2>1 DEF SurfaceDrawn
<1>4. rep.background # NoBackground => \E v : rep.background[q] = Plain(v)
  BY DEF RepresentationInv, Typed
<1>5. /\ kernel = "none" => B = IF t <= 0 \/ low = high THEN <<0, 1>> ELSE <<t - low, high - low>>
      /\ kernel = "linear" => B = <<Bigger(tau - (max - t), 0), tau>>
      /\ kernel = "exponential" =>
           B = <<tau + Bigger(-(max - t), 0), tau + Bigger(max - t, 0)>>
  BY DEF Brightness, LastTimes
<1>6. t > 0 => low \in Int /\ high \in Int /\ low <= t /\ t <= high
  BY TimesSpan
<1> HIDE DEF t, max, B, low, high
<1>7. \E part, whole \in Int :
        B = <<part, whole>> /\ 0 <= part /\ part <= whole /\ whole > 0
  <2>1. CASE kernel = "none" /\ ~(t <= 0 \/ low = high)
    <3>1. low \in Int /\ high \in Int /\ low <= t /\ t <= high /\ low # high
      BY <1>1, <1>6, <2>1
    <3>2. t - low \in Int /\ high - low \in Int /\ 0 <= t - low /\ t - low <= high - low
          /\ high - low > 0
      BY <1>1, <3>1
    <3> QED BY <1>5, <2>1, <3>2
  <2>2. CASE kernel = "none" /\ (t <= 0 \/ low = high)
    BY <1>5, <2>2
  <2>3. CASE kernel = "linear"
    <3> DEFINE a == Bigger(tau - (max - t), 0)
    <3>1. a \in Int /\ 0 <= a /\ a <= tau
      BY <1>1, <1>2 DEF Bigger
    <3> HIDE DEF a
    <3> QED BY <1>2, <1>5, <2>3, <3>1 DEF a
  <2>4. CASE kernel = "exponential"
    <3> DEFINE a == tau + Bigger(-(max - t), 0)
               b == tau + Bigger(max - t, 0)
    <3>1. a \in Int /\ b \in Int /\ 0 <= a /\ a <= b /\ b > 0
      BY <1>1, <1>2 DEF Bigger
    <3> HIDE DEF a, b
    <3> QED BY <1>5, <2>4, <3>1 DEF a, b
  <2> QED BY <2>1, <2>2, <2>3, <2>4 DEF Kernels
<1>8. InScale(Mixed(rep.polarity[q], B[1], B[2]))
  BY <1>7, MixedInScale
<1> QED BY <1>3, <1>4, <1>8, PlainInScale

\* Of two fractions the one with more of it, out of no more, is larger.
LEMMA FractionsCompare ==
    ASSUME NEW m \in Int, NEW n \in Int, NEW d \in Int, NEW c \in Int,
           n > 0, d > 0, m >= n, c >= d, m > n \/ c > d
    PROVE  m * c > n * d
<1>1. \A k, x, y \in Int : k > 0 /\ x >= y => k * x >= k * y /\ (x > y => k * x > k * y)
  <2> SUFFICES ASSUME NEW k \in Int, NEW x \in Int, NEW y \in Int, k > 0, x >= y
               PROVE  k * x >= k * y /\ (x > y => k * x > k * y)
    OBVIOUS
  <2>1. PICK z \in Nat : x = y + z /\ (x > y => z > 0)
    <3>1. x - y \in Nat /\ x = y + (x - y) /\ (x > y => x - y > 0)
      OBVIOUS
    <3> QED BY <3>1
  <2>2. k * x = k * y + k * z /\ k * z >= 0 /\ (z > 0 => k * z > 0)
    BY <2>1
  <2>3. k * y \in Int /\ k * z \in Int
    BY <2>1
  <2> QED BY <2>1, <2>2, <2>3
<1>2. /\ c * m >= c * n /\ (m > n => c * m > c * n)
      /\ n * c >= n * d /\ (c > d => n * c > n * d)
  <2>1. c > 0
    OBVIOUS
  <2> QED BY <1>1, <2>1
<1>3. c * m = m * c /\ c * n = n * c /\ m * c \in Int /\ n * c \in Int /\ n * d \in Int
  OBVIOUS
<1>4. \A x, y, z \in Int : x >= y /\ y >= z /\ (x > y \/ y > z) => x > z
  OBVIOUS
<1> QED BY <1>2, <1>3, <1>4

\* A later time is brighter than an earlier one.
LEMMA LaterIsBrighter ==
    ASSUME RepresentationInv, NEW kernel \in Kernels, NEW tau \in Taus,
           NEW p \in Frame, NEW q \in Frame, rep.time[q] > rep.time[p], rep.time[p] > 0
    PROVE  \E m, n, d, c \in Int :
             /\ Brightness(kernel, tau, rep.time[q]) = <<m, d>>
             /\ Brightness(kernel, tau, rep.time[p]) = <<n, c>>
             /\ kernel = "none" => m # 0
             /\ n # 0 => n > 0 /\ d > 0 /\ m >= n /\ c >= d /\ (m > n \/ c > d)
<1> DEFINE a == rep.time[p]
           b == rep.time[q]
           max == rep.limits.max
           low == Min(LastTimes)
           high == Max(LastTimes)
           B(t) == Brightness(kernel, tau, t)
<1>1. a \in Int /\ b \in Int /\ max \in Int /\ a > 0 /\ b > a
  BY DEF RepresentationInv, Typed
<1>2. tau \in Int /\ tau > 0
  BY TausAssumption
<1>3. low \in Int /\ high \in Int /\ low <= a /\ b <= high
  BY <1>1, TimesSpan
<1>4. /\ kernel = "none" => \A t : B(t) = IF t <= 0 \/ low = high THEN <<0, 1>> ELSE <<t - low, high - low>>
      /\ kernel = "linear" => \A t : B(t) = <<Bigger(tau - (max - t), 0), tau>>
      /\ kernel = "exponential" =>
           \A t : B(t) = <<tau + Bigger(-(max - t), 0), tau + Bigger(max - t, 0)>>
  BY DEF Brightness, LastTimes
<1>5. SUFFICES \E m, n, d, c \in Int :
             /\ B(b) = <<m, d>> /\ B(a) = <<n, c>>
             /\ kernel = "none" => m # 0
             /\ n # 0 => n > 0 /\ d > 0 /\ m >= n /\ c >= d /\ (m > n \/ c > d)
  OBVIOUS
<1> HIDE DEF a, b, max, low, high, B
<1>6. CASE kernel = "none"
  <2>1. B(b) = <<b - low, high - low>> /\ B(a) = <<a - low, high - low>>
    BY <1>1, <1>3, <1>4, <1>6
  <2>2. /\ b - low \in Int /\ a - low \in Int /\ high - low \in Int
        /\ b - low > 0 /\ a - low >= 0 /\ high - low > 0 /\ b - low > a - low
    BY <1>1, <1>3
  <2> QED BY <2>1, <2>2
<1>7. CASE kernel = "linear"
  <2> DEFINE m == Bigger(tau - (max - b), 0)
             n == Bigger(tau - (max - a), 0)
  <2>1. B(b) = <<m, tau>> /\ B(a) = <<n, tau>>
    BY <1>4, <1>7
  <2>2. m \in Int /\ n \in Int /\ (n # 0 => n > 0 /\ m > n)
    BY <1>1, <1>2 DEF Bigger
  <2> HIDE DEF m, n
  <2>3. kernel # "none"
    BY <1>7
  <2> QED BY <1>2, <2>1, <2>2, <2>3
<1>8. CASE kernel = "exponential"
  <2> DEFINE m == tau + Bigger(-(max - b), 0)
             n == tau + Bigger(-(max - a), 0)
             d == tau + Bigger(max - b, 0)
             c == tau + Bigger(max - a, 0)
  <2>1. B(b) = <<m, d>> /\ B(a) = <<n, c>>
    BY <1>4, <1>8
  <2>2. /\ m \in Int /\ n \in Int /\ d \in Int /\ c \in Int
        /\ n > 0 /\ d > 0 /\ m >= n /\ c >= d /\ (m > n \/ c > d)
    BY <1>1, <1>2 DEF Bigger
  <2> HIDE DEF m, n, d, c
  <2>3. kernel # "none"
    BY <1>8
  <2> QED BY <2>1, <2>2, <2>3
<1> QED BY <1>6, <1>7, <1>8 DEF Kernels

\* With each kernel a surface tells the order of the last times of its pixels.
LEMMA TimesTellAge == RepresentationInv => SurfaceTellsAge
<1> SUFFICES ASSUME RepresentationInv, NEW kernel \in Kernels, NEW tau \in Taus, NEW q \in Frame
             PROVE  LET drawn == SurfaceDrawn(kernel, tau)
                    IN  /\ At(q) = <<>> /\ (kernel = "none" \/ rep.background # NoBackground) =>
                             drawn[q] = Under(q)
                        /\ \A p \in Frame :
                             rep.time[q] > rep.time[p] /\ rep.time[p] > 0 =>
                               LET faded == drawn[p][1] = rep.colors.reset
                               IN  /\ kernel = "none" \/ ~faded =>
                                        drawn[q][1] = Shows(q, Last(At(q)))[1]
                                   /\ ~faded => drawn[q][2] * drawn[p][3] > drawn[p][2] * drawn[q][3]
  BY DEF SurfaceTellsAge
<1> DEFINE drawn == SurfaceDrawn(kernel, tau)
           B(t) == Brightness(kernel, tau, t)
<1>1. rep.time \in [Frame -> Int] /\ ~(rep.limits.max < 0)
  BY TypesAssumption DEF RepresentationInv, Typed
<1>2. \A r \in Frame : drawn[r] =
        IF rep.time[r] = 0 /\ rep.background # NoBackground THEN rep.background[r]
        ELSE Mixed(rep.polarity[r], B(rep.time[r])[1], B(rep.time[r])[2])
  BY <1>1 DEF SurfaceDrawn
<1>3. kernel = "none" => B(0) = <<0, 1>>
  <2>1. 0 <= 0
    OBVIOUS
  <2> QED BY <2>1 DEF Brightness
<1> HIDE DEF drawn, B
<1>4. ASSUME At(q) = <<>>, kernel = "none" \/ rep.background # NoBackground PROVE drawn[q] = Under(q)
  <2>1. rep.time[q] = 0
    BY <1>4, PixelIs
  <2>2. CASE rep.background # NoBackground
    BY <1>2, <2>1, <2>2 DEF Under
  <2>3. CASE rep.background = NoBackground
    <3>1. drawn[q] = Mixed(rep.polarity[q], 0, 1)
      BY <1>2, <1>3, <1>4, <2>1, <2>3
    <3> QED BY <2>3, <3>1 DEF Mixed, Under
  <2> QED BY <2>2, <2>3
<1>5. ASSUME NEW p \in Frame, rep.time[q] > rep.time[p], rep.time[p] > 0
      PROVE  /\ kernel = "none" \/ drawn[p][1] # rep.colors.reset =>
                  drawn[q][1] = Shows(q, Last(At(q)))[1]
             /\ drawn[p][1] # rep.colors.reset =>
                  drawn[q][2] * drawn[p][3] > drawn[p][2] * drawn[q][3]
  <2>1. PICK m, n, d, c \in Int :
          /\ B(rep.time[q]) = <<m, d>> /\ B(rep.time[p]) = <<n, c>>
          /\ kernel = "none" => m # 0
          /\ n # 0 => n > 0 /\ d > 0 /\ m >= n /\ c >= d /\ (m > n \/ c > d)
    BY <1>5, LaterIsBrighter DEF B
  <2>2. rep.time[q] # 0 /\ rep.time[p] # 0
    BY <1>1, <1>5
  <2>3. /\ drawn[q] = Mixed(rep.polarity[q], m, d)
        /\ drawn[p] = Mixed(rep.polarity[p], n, c)
    BY <1>2, <2>1, <2>2
  <2>4. /\ rep.polarity[q] = Last(At(q)).p
        /\ "ignore_polarity" \in rep.options => rep.polarity[q]
    <3>1. At(q) # <<>> /\ rep.polarity[q] = Last(At(q)).p
      BY <2>2, PixelIs
    <3>2. "ignore_polarity" \in rep.options => Last(At(q)).p
      BY <3>1, LastAt
    <3> QED BY <3>1, <3>2
  <2>5. m # 0 => drawn[q][1] = Shows(q, Last(At(q)))[1] /\ drawn[q][2] = m /\ drawn[q][3] = d
    BY <2>3, <2>4 DEF Mixed, Plain, Shows, OneSided
  <2>6. drawn[p][1] # rep.colors.reset => n # 0 /\ drawn[p][2] = n /\ drawn[p][3] = c
    BY <2>3 DEF Mixed, Plain
  <2>7. n # 0 => m # 0 /\ m * c > n * d
    BY <2>1, FractionsCompare
  <2> QED BY <2>1, <2>5, <2>6, <2>7
<1> QED BY <1>4, <1>5 DEF drawn

\* What SpaceTime_ draws at a pixel.
LEMMA SpaceDrawnAt ==
    ASSUME RepresentationInv, NEW q \in Frame
    PROVE  \/ \E j \in 1..Len(shown) :
                /\ SeenAt(shown[j]) = q
                /\ \A k \in 1..Len(shown) : SeenAt(shown[k]) = q => k <= j
                /\ SpaceDrawn[q] = Plain(Shows(q, shown[j])[1])
                     \/ SpaceDrawn[q] = <<Shows(q, shown[j])[1], Age(shown[j])[1],
                                          Age(shown[j])[2], rep.backdrop[q]>>
           \/ /\ \A k \in 1..Len(shown) : SeenAt(shown[k]) # q
              /\ rep.axes /\ q \in AxesAt(rep.view) /\ SpaceDrawn[q] = Plain(AxesValue)
           \/ /\ \A k \in 1..Len(shown) : SeenAt(shown[k]) # q
              /\ SpaceDrawn[q] = rep.backdrop[q]
<1> DEFINE drawn == {i \in DOMAIN rep.events : SeenAt(rep.events[i]) = q}
           e == rep.events[Topmost(drawn)]
           value == IF e.p THEN rep.colors.on ELSE rep.colors.off
<1>1. rep.events = shown /\ DOMAIN shown = 1..Len(shown) /\ Len(shown) \in Nat
  BY DEF RepresentationInv, Holding
<1>2. SpaceDrawn[q] =
        IF drawn # {} THEN IF rep.fade THEN Faded(value, q, Age(e)) ELSE Plain(value)
        ELSE IF rep.axes /\ q \in AxesAt(rep.view) THEN Plain(AxesValue)
        ELSE rep.backdrop[q]
  BY DEF SpaceDrawn
<1>3. drawn \in SUBSET (1..Len(shown)) /\ \A k \in 1..Len(shown) : k \in drawn <=> SeenAt(shown[k]) = q
  BY <1>1
<1> DEFINE j == Topmost(drawn)
<1>4. CASE drawn # {}
  <2>1. j \in drawn /\ \A k \in drawn : k <= j
    <3> HIDE DEF drawn
    <3> QED BY <1>1, <1>3, <1>4, Largest DEF Topmost
  <2>2. e = shown[j] /\ value = Shows(q, shown[j])[1]
    BY <1>1 DEF Shows, Plain
  <2> HIDE DEF drawn, j, e, value
  <2>3. SpaceDrawn[q] = Faded(value, q, Age(e)) \/ SpaceDrawn[q] = Plain(value)
    BY <1>2, <1>4
  <2>4. Faded(value, q, Age(e)) \in {Plain(value), <<value, Age(e)[1], Age(e)[2], rep.backdrop[q]>>}
    BY DEF Faded
  <2>5. j \in 1..Len(shown) /\ SeenAt(shown[j]) = q
        /\ \A k \in 1..Len(shown) : SeenAt(shown[k]) = q => k <= j
    BY <1>3, <2>1
  <2> QED BY <2>2, <2>3, <2>4, <2>5
<1>5. CASE drawn = {}
  <2> HIDE DEF drawn, e, value
  <2> QED BY <1>2, <1>3, <1>5
<1> QED BY <1>4, <1>5

\* The last event drawn at a pixel is the newest there.
LEMMA NewestDrawnLast == RepresentationInv => NewestInFront
<1> SUFFICES ASSUME RepresentationInv,
                    \A i, j \in DOMAIN shown : i < j => shown[i].t <= shown[j].t,
                    NEW i \in DOMAIN shown, SeenAt(shown[i]) \in Frame
             PROVE  \E j \in DOMAIN shown :
                      /\ SeenAt(shown[j]) = SeenAt(shown[i]) /\ shown[j].t >= shown[i].t
                      /\ SpaceDrawn[SeenAt(shown[i])][1] = Shows(SeenAt(shown[i]), shown[j])[1]
  BY DEF NewestInFront
<1> DEFINE q == SeenAt(shown[i])
<1>1. /\ shown \in Seq(ShownEvents) /\ DOMAIN shown = 1..Len(shown)
      /\ \A k \in DOMAIN shown : shown[k].t \in Int
  <2>1. shown \in Seq(ShownEvents)
    BY DEF RepresentationInv, Holding
  <2>2. DOMAIN shown = 1..Len(shown) /\ \A k \in DOMAIN shown : shown[k] \in ShownEvents
    BY <2>1
  <2> QED BY <2>1, <2>2 DEF ShownEvents
<1> HIDE DEF q
<1>2. q \in Frame /\ SeenAt(shown[i]) = q
  BY DEF q
<1>3. PICK j \in 1..Len(shown) :
        /\ SeenAt(shown[j]) = q
        /\ \A k \in 1..Len(shown) : SeenAt(shown[k]) = q => k <= j
        /\ SpaceDrawn[q] = Plain(Shows(q, shown[j])[1])
             \/ SpaceDrawn[q] = <<Shows(q, shown[j])[1], Age(shown[j])[1],
                                  Age(shown[j])[2], rep.backdrop[q]>>
  BY <1>1, <1>2, SpaceDrawnAt
<1>4. SpaceDrawn[q][1] = Shows(q, shown[j])[1]
  <2> DEFINE v == Shows(q, shown[j])[1]
             a == Age(shown[j])
  <2>1. Plain(v)[1] = v /\ <<v, a[1], a[2], rep.backdrop[q]>>[1] = v
    BY DEF Plain
  <2> HIDE DEF v, a
  <2> QED BY <1>3, <2>1 DEF v, a
<1>5. shown[j].t >= shown[i].t
  <2>1. i <= j /\ i \in Int /\ j \in Int
    BY <1>1, <1>2, <1>3
  <2>2. CASE i = j
    BY <1>1, <2>2
  <2>3. CASE i < j
    <3>1. shown[i].t <= shown[j].t
      BY <1>1, <2>3
    <3> QED BY <1>1, <3>1
  <2> QED BY <2>1, <2>2, <2>3
<1> QED BY <1>1, <1>2, <1>3, <1>4, <1>5

\* The backdrop is the background where the view shows it, or V_RESET.
LEMMA BackdropBehind ==
    ASSUME RepresentationInv, NEW q \in Frame
    PROVE  LET behind == {f \in Frame : Project(f, 1, 1, rep.view) = q}
               b == rep.backdrop[q]
           IN  /\ \/ behind = {} /\ b = Plain(rep.colors.reset)
                  \/ \E f \in behind : b = Under(f)
               /\ \E v : b = Plain(v)
<1> DEFINE behind == {f \in Frame : Project(f, 1, 1, rep.view) = q}
           b == rep.backdrop[q]
<1>1. \/ behind = {} /\ b = Plain(rep.colors.reset)
      \/ \E f \in behind : b = Under(f)
  <2>1. rep.backdrop = BackdropOf(rep)
    BY DEF RepresentationInv, Scaled
  <2>2. CASE rep.background = NoBackground
    <3>1. b = Plain(rep.colors.reset)
      BY <2>1, <2>2 DEF BackdropOf
    <3> QED BY <2>2, <3>1 DEF Under
  <2>3. CASE rep.background # NoBackground
    <3>1. b = IF behind = {} THEN Plain(rep.colors.reset)
              ELSE rep.background[CHOOSE f \in behind : TRUE]
      BY <2>1, <2>3 DEF BackdropOf, Backdrop
    <3> QED BY <2>3, <3>1 DEF Under
  <2> QED BY <2>2, <2>3
<1>2. \E v : b = Plain(v)
  <2>1. \A f \in Frame : \E v : Under(f) = Plain(v)
    BY DEF RepresentationInv, Typed, Under
  <2> QED BY <1>1, <2>1
<1> QED BY <1>1, <1>2

\* Where nothing is drawn, the backdrop is that of the view.
LEMMA BackdropIsSeen == RepresentationInv => BackdropFollows
<1> SUFFICES ASSUME RepresentationInv, NEW q \in Frame
             PROVE  LET behind == {f \in Frame : Project(f, 1, 1, rep.view) = q}
                        drawn == SpaceDrawn[q]
                        back == IF Len(drawn) = 4 THEN drawn[4] ELSE drawn
                    IN  \/ Len(drawn) = 3 /\ \E i \in DOMAIN shown : SeenAt(shown[i]) = q
                        \/ rep.axes /\ q \in AxesAt(rep.view)
                        \/ behind = {} /\ back = Plain(rep.colors.reset)
                        \/ \E f \in behind : back = Under(f)
  BY DEF BackdropFollows
<1> DEFINE behind == {f \in Frame : Project(f, 1, 1, rep.view) = q}
           d == SpaceDrawn[q]
           back == IF Len(d) = 4 THEN d[4] ELSE d
           b == rep.backdrop[q]
<1>1. DOMAIN shown = 1..Len(shown)
  BY DEF RepresentationInv, Holding
<1>2. \A v : Len(Plain(v)) = 3
  BY DEF Plain
<1>3. \/ behind = {} /\ b = Plain(rep.colors.reset)
      \/ \E f \in behind : b = Under(f)
  BY BackdropBehind
<1>4. \E v : b = Plain(v)
  BY BackdropBehind
<1> HIDE DEF d, b, behind
<1>5. CASE d = b
  <2>1. back = b
    BY <1>2, <1>4, <1>5
  <2> QED BY <1>3, <2>1 DEF d, behind
<1>6. CASE \E j \in 1..Len(shown) : SeenAt(shown[j]) = q /\ \E v : d = Plain(v)
  BY <1>1, <1>2, <1>6 DEF d
<1>7. CASE \E v, m, n : d = <<v, m, n, b>>
  <2>1. back = b
    <3>1. PICK v, m, n : d = <<v, m, n, b>>
      BY <1>7
    <3>2. Len(<<v, m, n, b>>) = 4 /\ <<v, m, n, b>>[4] = b
      OBVIOUS
    <3> QED BY <3>1, <3>2
  <2> QED BY <1>3, <2>1 DEF d, behind
<1> QED BY <1>5, <1>6, <1>7, SpaceDrawnAt DEF d, b

\* A pixel of a cloud that fades goes neither before the box nor behind it.
LEMMA AgesInScale ==
    ASSUME RepresentationInv, ~torn, NEW q \in Frame
    PROVE  InScale(SpaceDrawn[q])
<1>1. CASE \E v : SpaceDrawn[q] = Plain(v)
  BY <1>1, PlainInScale
<1>2. ASSUME NEW j \in 1..Len(shown), NEW v, NEW b,
             SpaceDrawn[q] = <<v, Age(shown[j])[1], Age(shown[j])[2], b>>
      PROVE  InScale(SpaceDrawn[q])
  <2> DEFINE t == shown[j].t
             l == rep.limits
  <2>1. /\ t \in Int /\ l.min \in Int /\ l.max \in Int
        /\ l.min <= t /\ t <= l.max
    <3>1. shown[j] \in ShownEvents /\ l \in [min : Int, max : Int]
      BY DEF RepresentationInv, Typed, Holding
    <3>2. l.min <= t /\ t <= l.max
      BY DEF RepresentationInv, Counting, Limiting
    <3> QED BY <3>1, <3>2 DEF ShownEvents
  <2>2. Age(shown[j]) = IF l.max - l.min > 0 THEN <<l.max - t, l.max - l.min>> ELSE <<0, 1>>
    BY DEF Age
  <2> DEFINE a == Age(shown[j])
  <2> HIDE DEF a
  <2>3. a[2] > 0 /\ a[1] \in 0..a[2]
    <3>1. \A m, n, u \in Int : m <= u /\ u <= n /\ n - m > 0 => n - u \in 0..(n - m)
      OBVIOUS
    <3>2. l.max - l.min > 0 => l.max - t \in 0..(l.max - l.min)
      BY ONLY <2>1, <3>1
    <3> HIDE DEF t, l
    <3>3. CASE l.max - l.min > 0
      BY <2>2, <3>2, <3>3 DEF a
    <3>4. CASE ~(l.max - l.min > 0)
      BY <2>2, <3>4 DEF a
    <3> QED BY <3>3, <3>4
  <2> QED BY <1>2, <2>3 DEF InScale, a
<1>3. \E v : rep.backdrop[q] = Plain(v)
  BY BackdropBehind
<1> QED BY <1>1, <1>2, <1>3, SpaceDrawnAt

\* Nothing that is drawn goes past its value.
LEMMA AllInScale == RepresentationInv => DrawnInScale
<1> SUFFICES ASSUME RepresentationInv PROVE DrawnInScale
  OBVIOUS
<1>1. /\ \A q \in Frame : Abs(rep.counter[q]) <= rep.peak
      /\ rep.peak = 0 => \A q \in Frame : rep.histogram[q] = Under(q)
  BY DEF RepresentationInv, Scaled, UnderOf, Under
<1> QED BY <1>1, CountsInScale, TimesInScale, AgesInScale DEF DrawnInScale

\* The objects are exact in every state that satisfies the invariant.
LEMMA ObjectsAreExact == RepresentationInv => RepresentationExact
BY HeldIsShown, CountedIsShown, AllInScale, TimesTellAge, NewestDrawnLast, BackdropIsSeen DEF RepresentationExact

\* Whatever is inserted, rendered, set, cleared, rejected or refused, the objects hold
\* the events since they were cleared.  A histogram scales each count by no less than it;
\* unless a clear() threw, the objects count these events, and the surface, with each
\* kernel, and the cloud go neither back nor past the value of a pixel.  With each
\* kernel a surface is in the order of its times; its pixels without events are left
\* as they were with the kernel NONE or over a background, and not claimed otherwise.
THEOREM RepresentationIsExact == Spec => []RepresentationExact
<1>1. TimeInv /\ RepresentationInv => RepresentationExact
  BY ObjectsAreExact
<1> QED BY <1>1, RepresentationInvariant, PTL

-------------------------------------------------------------------------------
(* The types.                                                              *)

\* The box of the statistics has a count for each of its pixels.
StatsInv ==
    /\ DOMAIN stats = {"box", "counts", "sums"}
    /\ DOMAIN stats.counts = 0..stats.box.w * stats.box.h - 1

\* It keeps them when it grows, and when it is cleared.
LEMMA StatsKeep ==
    ASSUME StatsInv, [Next]_vars
    PROVE  StatsInv'
<1>1. CASE UNCHANGED containers
  BY <1>1 DEF containers, StatsInv
<1>2. CASE Store
  <2> DEFINE e == flight[1]
             box == Extent(e)
             counts == CountsIn(box)
             i == Index(box, e.x, e.y)
             sums == Summed(stats.sums, e, counts[i])
             grown == [counts EXCEPT ![i] = @ + 1]
  <2>1. stats' = [box |-> box, counts |-> grown, sums |-> sums]
    BY <1>2 DEF Store, Push, Accounted
  <2>2. DOMAIN counts = 0..box.w * box.h - 1
    <3> HIDE DEF box
    <3> QED BY DEF CountsIn, Moved, StatsInv
  <2> HIDE DEF counts, sums, box, i
  <2>3. DOMAIN grown = 0..box.w * box.h - 1
    BY <2>2
  <2> HIDE DEF grown
  <2> QED BY <2>1, <2>3 DEF StatsInv
<1>3. CASE SetContainers /\ SetWindow
  BY <1>3 DEF SetWindow, StatsInv
<1>4. CASE SetContainers /\ Clear
  <2> DEFINE zeros == [i \in DOMAIN stats.counts |-> 0]
  <2>1. stats' = [stats EXCEPT !.sums = NoSums, !.counts = zeros]
    BY <1>4 DEF Clear, Cleared
  <2>2. DOMAIN zeros = DOMAIN stats.counts
    OBVIOUS
  <2> HIDE DEF zeros
  <2>3. /\ DOMAIN stats' = DOMAIN stats /\ stats'.box = stats.box /\ stats'.counts = zeros
    BY <2>1 DEF StatsInv
  <2> QED BY <2>2, <2>3 DEF StatsInv
<1>5. CASE SetContainers
  BY <1>3, <1>4, <1>5 DEF SetContainers
<1>6. CASE \/ Arrive \/ AskBackground \/ AskRefractory \/ AskHot \/ Undistort \/ Show
           \/ SetFilters \/ SetRepresentations \/ UNCHANGED vars
  BY <1>1, <1>6 DEF Arrive, AskBackground, AskRefractory, AskHot, Ask, Undistort, Show, Passed,
                    SetFilters, SetRepresentations, Setting, vars
<1> QED BY <1>2, <1>5, <1>6 DEF Next

\* Every object is of its type in every state: the counts of the statistics are
\* those of their box, the cells those of the grid, and a counter that wraps is
\* still one of its type, of which the peak is at most one more than the largest.
THEOREM TypeCorrect == Spec => []TypeOK
<1>1. Init => StatsInv
  <2>1. 0..0 * 0 - 1 = {}
    OBVIOUS
  <2> QED BY <2>1 DEF Init, ContainersInit, StatsInv, NoRect
<1>2. StatsInv /\ [Next]_vars => StatsInv'
  BY StatsKeep
<1>3. IInv /\ ContainersInv /\ RepresentationInv /\ StatsInv => TypeOK
  <2> SUFFICES ASSUME IInv, ContainersInv, RepresentationInv, StatsInv PROVE TypeOK
    OBVIOUS
  <2>1. program \in Programs /\ stage \in 1..Len(program.chain) + 1 /\ Len(flight) <= 1
    <3>1. Len(<<>>) = 0 /\ \A e : Len(<<e>>) = 1
      OBVIOUS
    <3>2. flight = <<>> \/ \E e \in Events : flight = <<e>>
      BY DEF IInv, FlightInv
    <3>3. Len(flight) = 0 \/ Len(flight) = 1
      BY <3>1, <3>2
    <3>4. Len(flight) <= 1
      <4>1. 0 <= 1 /\ 1 <= 1
        OBVIOUS
      <4> QED BY <3>3, <4>1, Zenon
    <3>5. program \in Programs /\ stage \in 1..Len(program.chain) + 1
      BY DEF IInv, FlightInv
    <3> QED BY <3>4, <3>5
  <2>2. background.map \in [Sensor -> Int] /\ refractory.map \in [Sensor -> Int]
    BY DEF IInv, BackgroundInv, RefractoryInv, Newest
  <2>3. hot.counts \in [Sensor -> Nat] /\ hot.mask \subseteq Sensor
    BY DEF IInv, HotInv, HotState
  <2>4. DOMAIN grid = 0..Cells[1] * Cells[2] - 1
    BY DEF ContainersInv, GridInv
  <2>5. /\ rep.counter \in [Frame -> -CounterMax - 1..CounterMax]
        /\ rep.count \in Nat /\ rep.peak \in 0..CounterMax + 1
    BY DEF RepresentationInv, Typed, CounterType
  <2> QED BY <2>1, <2>2, <2>3, <2>4, <2>5 DEF TypeOK, StatsInv
<1> QED BY <1>1, <1>2, <1>3, Invariant, ContainersInvariant, RepresentationInvariant, PTL DEF Spec

-------------------------------------------------------------------------------
(* The statistics: what their sums and counts are of what was pushed.      *)

\* How many events of s there are at a pixel, and the pixels that have one.
Tally(s, q) == Cardinality({j \in DOMAIN s : PixelOf(s[j]) = q})
Touched(s) == {PixelOf(s[j]) : j \in DOMAIN s}

\* The tallies are what the counts of a table should be.
LEMMA TallyType ==
    ASSUME NEW s \in Seq(Events)
    PROVE  /\ IsFiniteSet(Touched(s)) /\ Touched(s) \subseteq Int \X Int
           /\ \A q : Tally(s, q) \in 0..Len(s) /\ (Tally(s, q) > 0 <=> q \in Touched(s))
<1>1. DOMAIN s = 1..Len(s) /\ Len(s) \in Nat /\ \A j \in 1..Len(s) : s[j] \in Events
  BY ElementOfSeq
<1>2. IsFiniteSet(DOMAIN s) /\ Cardinality(DOMAIN s) = Len(s)
  <2>1. Len(s) = 0 => 1 > Len(s)
    BY <1>1
  <2> QED BY <1>1, <2>1, FS_Interval, SMTT(20)
<1>3. IsFiniteSet(Touched(s))
  <2> DEFINE f == [j \in DOMAIN s |-> PixelOf(s[j])]
  <2>1. f \in Surjection(DOMAIN s, Touched(s))
    BY DEF Surjection, Touched
  <2> HIDE DEF f
  <2> QED BY <1>2, <2>1, FS_Surjection
<1>4. Touched(s) \subseteq Int \X Int
  BY <1>1 DEF Touched, PixelOf, Events
<1>5. ASSUME NEW q
      PROVE  Tally(s, q) \in 0..Len(s) /\ (Tally(s, q) > 0 <=> q \in Touched(s))
  <2> DEFINE J == {j \in DOMAIN s : PixelOf(s[j]) = q}
  <2>1. IsFiniteSet(J) /\ Cardinality(J) <= Len(s)
    <3>1. J \in SUBSET DOMAIN s
      OBVIOUS
    <3> HIDE DEF J
    <3> QED BY <1>2, <3>1, FS_Subset
  <2>2. Cardinality(J) \in Nat /\ (Cardinality(J) = 0 <=> J = {})
    BY <2>1, FS_CardinalityType, FS_EmptySet
  <2>3. J # {} <=> q \in Touched(s)
    BY DEF Touched
  <2>4. Tally(s, q) = Cardinality(J)
    BY DEF Tally
  <2> HIDE DEF J
  <2> QED BY <1>1, <2>1, <2>2, <2>3, <2>4
<1> QED BY <1>3, <1>4, <1>5

\* One event more is one more at its pixel.
LEMMA TallyAppend ==
    ASSUME NEW s \in Seq(Events), NEW e \in Events
    PROVE  /\ Touched(Append(s, e)) = Touched(s) \cup {PixelOf(e)}
           /\ \A q : Tally(Append(s, e), q) = Tally(s, q) + (IF q = PixelOf(e) THEN 1 ELSE 0)
<1> DEFINE n == Len(s)
           z == Append(s, e)
<1>1. /\ DOMAIN s = 1..n /\ n \in Nat /\ DOMAIN z = 1..n + 1
      /\ \A j \in 1..n : z[j] = s[j]
      /\ z[n + 1] = e
  OBVIOUS
<1>2. 1..n + 1 = 1..n \cup {n + 1} /\ n + 1 \notin 1..n
  BY <1>1
<1> HIDE DEF n, z
<1>3. Touched(z) = Touched(s) \cup {PixelOf(e)}
  BY <1>1, <1>2 DEF Touched
<1>4. ASSUME NEW q PROVE Tally(z, q) = Tally(s, q) + (IF q = PixelOf(e) THEN 1 ELSE 0)
  <2> DEFINE J == {j \in DOMAIN s : PixelOf(s[j]) = q}
             K == {j \in DOMAIN z : PixelOf(z[j]) = q}
  <2>1. IsFiniteSet(J) /\ Cardinality(J) \in Nat
    <3>1. J \in SUBSET 1..n
      BY <1>1
    <3>2. IsFiniteSet(1..n)
      BY ONLY <1>1, 1 \in Int, n \in Int, FS_Interval
    <3> QED BY <3>1, <3>2, FS_Subset, FS_CardinalityType
  <2>2. n + 1 \notin J /\ K = IF q = PixelOf(e) THEN J \cup {n + 1} ELSE J
    <3>1. \A j : j \in K <=> (j \in J \/ (j = n + 1 /\ q = PixelOf(e)))
      BY <1>1, <1>2
    <3>2. n + 1 \notin J
      BY <1>1, <1>2
    <3> HIDE DEF J, K
    <3>3. CASE q = PixelOf(e)
      BY <3>1, <3>2, <3>3
    <3>4. CASE q # PixelOf(e)
      BY <3>1, <3>2, <3>4
    <3> QED BY <3>3, <3>4
  <2>3. Tally(s, q) = Cardinality(J) /\ Tally(z, q) = Cardinality(K)
    BY DEF Tally
  <2> HIDE DEF J, K
  <2>4. CASE q = PixelOf(e)
    <3>1. n + 1 \notin J /\ K = J \cup {n + 1}
      BY <2>2, <2>4
    <3>2. Cardinality(K) = Cardinality(J) + 1
      BY ONLY <2>1, <3>1, FS_AddElement
    <3> QED BY <2>3, <2>4, <3>2
  <2>5. CASE q # PixelOf(e)
    BY <2>1, <2>2, <2>3, <2>5
  <2> QED BY <2>4, <2>5
<1> QED BY <1>3, <1>4 DEF z

-------------------------------------------------------------------------------
(* The box, and the counts in it.                                          *)

Boxes == [x : Int, y : Int, w : Nat \ {0}, h : Nat \ {0}]

\* Every event is in the box, which has the tally of each of its pixels.
CountsInv(box, counts, s) ==
    /\ (box = NoRect /\ s = <<>>) \/ box \in Boxes
    /\ counts \in [0..box.w * box.h - 1 -> Nat]
    /\ \A x, y \in Int : Holds(box, x, y) => counts[Index(box, x, y)] = Tally(s, <<x, y>>)
    /\ \A i \in DOMAIN s : Holds(box, s[i].x, s[i].y)

\* A place for each pixel of a box, and a pixel for each place.
LEMMA BoxPlaces ==
    ASSUME NEW b \in Boxes, NEW x \in Int, NEW y \in Int, Holds(b, x, y)
    PROVE  /\ Index(b, x, y) \in 0..b.w * b.h - 1
           /\ b.x + (Index(b, x, y) % b.w) = x
           /\ b.y + (Index(b, x, y) \div b.w) = y
<1>1. b.w \in Nat \ {0} /\ b.h \in Nat \ {0} /\ b.x \in Int /\ b.y \in Int
  BY DEF Boxes
<1>2. x - b.x \in 0..b.w - 1 /\ y - b.y \in 0..b.h - 1
  BY DEF Holds
<1>3. /\ Index(b, x, y) \in 0..b.w * b.h - 1
      /\ Index(b, x, y) % b.w = x - b.x /\ Index(b, x, y) \div b.w = y - b.y
  <2> DEFINE c == x - b.x
             r == y - b.y
             w == b.w
             h == b.h
  <2>1. w \in Nat \ {0} /\ h \in Nat \ {0} /\ c \in 0..w - 1 /\ r \in 0..h - 1
    BY <1>1, <1>2
  <2>2. Index(b, x, y) = r * w + c
    BY DEF Index
  <2> HIDE DEF c, r, w, h
  <2>3. r * w + c \in 0..w * h - 1 /\ (r * w + c) % w = c /\ (r * w + c) \div w = r
    BY <2>1, RowMajor
  <2> QED BY <2>2, <2>3 DEF c, r, w, h
<1> QED BY <1>1, <1>3

\* One dimension of a box that grows has what it had, and the new value.
LEMMA Grows ==
    ASSUME NEW o \in Int, NEW w \in Nat \ {0}, NEW v \in Int
    PROVE  /\ Size(o, w, v) \in Nat \ {0} /\ Origin(o, w, v) \in Int
           /\ v - Origin(o, w, v) \in 0..Size(o, w, v) - 1
           /\ \A u \in Int : u - o \in 0..w - 1 => u - Origin(o, w, v) \in 0..Size(o, w, v) - 1
<1> DEFINE needed == Right(o + w, v + 1) - Left(o, v)
           z == Size(o, w, v)
           half == (w * 3) \div 2
<1>1. half \in Int
  OBVIOUS
<1>2. z = IF needed > w THEN Right(needed, half) ELSE needed
  BY DEF Size
<1> HIDE DEF half, z
<1>3. needed \in Int /\ needed >= w /\ needed >= v + 1 - o /\ needed >= o + w - v
  BY DEF Right, Left
<1> HIDE DEF needed
<1>4. z \in Int /\ z >= needed
  BY <1>1, <1>2, <1>3 DEF Right
<1>5. Origin(o, w, v) = IF v < o THEN (o + w) - z ELSE o
  BY DEF Origin, z
<1> QED BY <1>3, <1>4, <1>5 DEF z

\* The box of an event has it, and all that the box before had.
LEMMA ExtentHolds ==
    ASSUME NEW e \in Events, stats.box = NoRect \/ stats.box \in Boxes
    PROVE  /\ Extent(e) \in Boxes
           /\ Holds(Extent(e), e.x, e.y)
           /\ \A x, y \in Int : Holds(stats.box, x, y) => Holds(Extent(e), x, y)
<1> DEFINE b == stats.box
           g == GrownBox(b, e.x, e.y)
<1>0. e.x \in Int /\ e.y \in Int
  BY DEF Events
<1>1. CASE Holds(b, e.x, e.y)
  <2>1. Extent(e) = b
    BY <1>1 DEF Extent
  <2>2. b # NoRect
    <3> SUFFICES ASSUME b = NoRect PROVE FALSE
      OBVIOUS
    <3> QED BY <1>0, <1>1 DEF Holds, NoRect
  <2> QED BY <1>1, <2>1, <2>2
<1>2. CASE ~Holds(b, e.x, e.y)
  <2>1. Extent(e) = g
    BY <1>2 DEF Extent
  <2>2. CASE b = NoRect
    <3>1. g = [x |-> e.x, y |-> e.y, w |-> 1, h |-> 1]
      BY <2>2 DEF GrownBox, NoRect
    <3>2. g \in Boxes /\ Holds(g, e.x, e.y)
      BY <1>0, <3>1 DEF Boxes, Holds
    <3>3. \A x, y \in Int : ~Holds(b, x, y)
      BY <2>2 DEF Holds, NoRect
    <3> QED BY <2>1, <3>2, <3>3
  <2>3. CASE b \in Boxes
    <3>1. b.w \in Nat \ {0} /\ b.h \in Nat \ {0} /\ b.x \in Int /\ b.y \in Int
      BY <2>3 DEF Boxes
    <3>2. g = [x |-> Origin(b.x, b.w, e.x), y |-> Origin(b.y, b.h, e.y),
               w |-> Size(b.x, b.w, e.x), h |-> Size(b.y, b.h, e.y)]
      BY <3>1 DEF GrownBox
    <3> HIDE DEF b, g
    <3>3. g \in Boxes
      BY <1>0, <3>1, <3>2, Grows DEF Boxes
    <3>4. Holds(g, e.x, e.y)
      BY <1>0, <3>1, <3>2, Grows DEF Holds
    <3>5. \A x, y \in Int : Holds(b, x, y) => Holds(g, x, y)
      BY <1>0, <3>1, <3>2, Grows DEF Holds
    <3> QED BY <2>1, <3>3, <3>4, <3>5 DEF b
  <2> QED BY <2>2, <2>3
<1> QED BY <1>1, <1>2

\* Counts that are moved to a box that holds all of theirs are the same counts.
LEMMA MovedKeeps ==
    ASSUME NEW old, NEW counts, NEW s \in Seq(Events), CountsInv(old, counts, s),
           NEW new \in Boxes,
           \A x, y \in Int : Holds(old, x, y) => Holds(new, x, y)
    PROVE  CountsInv(new, Moved(counts, old, new), s)
<1> DEFINE m == Moved(counts, old, new)
           Place(x, y) == IF Holds(old, x, y) THEN counts[Index(old, x, y)] ELSE 0
<1>0. \A j \in DOMAIN s : s[j] \in Events /\ s[j].x \in Int /\ s[j].y \in Int
  <2>1. \A j \in DOMAIN s : s[j] \in Events
    BY ElementOfSeq
  <2> QED BY <2>1 DEF Events
<1>1. \A x, y \in Int : Place(x, y) = Tally(s, <<x, y>>)
  <2> HIDE DEF Place
  <2> SUFFICES ASSUME NEW x \in Int, NEW y \in Int PROVE Place(x, y) = Tally(s, <<x, y>>)
    BY ZenonT(40)
  <2> USE DEF Place
  <2>1. CASE Holds(old, x, y)
    BY <2>1 DEF CountsInv
  <2>2. CASE ~Holds(old, x, y)
    <3>1. \A j \in DOMAIN s : PixelOf(s[j]) # <<x, y>>
      BY <1>0, <2>2 DEF CountsInv, PixelOf
    <3>2. <<x, y>> \notin Touched(s)
      BY <3>1 DEF Touched
    <3>3. Tally(s, <<x, y>>) = 0
      BY <3>2, TallyType
    <3> QED BY <2>2, <3>3
  <2> QED BY <2>1, <2>2
<1>2. \A q : Tally(s, q) \in Nat
  <2>1. \A q : Tally(s, q) \in 0..Len(s)
    BY TallyType
  <2> QED BY <2>1
<1>3. new.w \in Nat \ {0} /\ new.h \in Nat \ {0} /\ new.x \in Int /\ new.y \in Int
  BY DEF Boxes
<1>4. \A x, y \in Int : Place(x, y) \in Nat
  BY <1>1, <1>2
<1> HIDE DEF Place
<1>5. m = [i \in 0..new.w * new.h - 1 |-> Place(new.x + (i % new.w), new.y + (i \div new.w))]
  BY DEF Moved, Place
<1>6. \A i \in 0..new.w * new.h - 1 : new.x + (i % new.w) \in Int /\ new.y + (i \div new.w) \in Int
  <2> SUFFICES ASSUME NEW i \in 0..new.w * new.h - 1
               PROVE  new.x + (i % new.w) \in Int /\ new.y + (i \div new.w) \in Int
    OBVIOUS
  <2>1. i \in Int
    OBVIOUS
  <2>2. i % new.w \in Int /\ i \div new.w \in Int
    BY <1>3, <2>1
  <2> QED BY <1>3, <2>2, SMTT(20)
<1>7. m \in [0..new.w * new.h - 1 -> Nat]
  BY <1>4, <1>5, <1>6
<1>8. \A x, y \in Int : Holds(new, x, y) => m[Index(new, x, y)] = Tally(s, <<x, y>>)
  BY <1>1, <1>5, BoxPlaces
<1>9. \A i \in DOMAIN s : Holds(new, s[i].x, s[i].y)
  BY <1>0 DEF CountsInv
<1> QED BY <1>7, <1>8, <1>9 DEF CountsInv

\* An event more is one more in the box of the event.
LEMMA CountsPush ==
    ASSUME NEW s \in Seq(Events), NEW e \in Events, CountsInv(stats.box, stats.counts, s)
    PROVE  LET box == Extent(e)
               counts == CountsIn(box)
               i == Index(box, e.x, e.y)
           IN  /\ counts[i] = Tally(s, PixelOf(e))
               /\ CountsInv(box, [counts EXCEPT ![i] = @ + 1], Append(s, e))
<1> DEFINE box == Extent(e)
           counts == CountsIn(box)
           i == Index(box, e.x, e.y)
           more == [counts EXCEPT ![i] = @ + 1]
           z == Append(s, e)
<1>0. e.x \in Int /\ e.y \in Int
  BY DEF Events
<1>1. /\ box \in Boxes /\ Holds(box, e.x, e.y)
      /\ \A x, y \in Int : Holds(stats.box, x, y) => Holds(box, x, y)
  BY ExtentHolds DEF CountsInv
<1> HIDE DEF box
<1>2. CountsInv(box, counts, s)
  <2>1. CASE box = stats.box
    BY <2>1 DEF CountsIn
  <2>2. CASE box # stats.box
    <3>1. counts = Moved(stats.counts, stats.box, box)
      BY <2>2 DEF CountsIn
    <3> QED BY <1>1, <3>1, MovedKeeps
  <2> QED BY <2>1, <2>2
<1> HIDE DEF counts
<1>3. counts[i] = Tally(s, PixelOf(e))
  BY <1>0, <1>1, <1>2 DEF CountsInv, PixelOf
<1>4. i \in 0..box.w * box.h - 1
  BY <1>0, <1>1, BoxPlaces
<1>5. counts \in [0..box.w * box.h - 1 -> Nat]
  BY <1>2 DEF CountsInv
<1>6. more \in [0..box.w * box.h - 1 -> Nat]
  BY <1>4, <1>5
<1>7. ASSUME NEW x \in Int, NEW y \in Int, Holds(box, x, y)
      PROVE  more[Index(box, x, y)] = Tally(z, <<x, y>>)
  <2>1. Index(box, x, y) \in 0..box.w * box.h - 1
    BY <1>1, <1>7, BoxPlaces
  <2>2. Tally(z, <<x, y>>) = Tally(s, <<x, y>>) + (IF <<x, y>> = PixelOf(e) THEN 1 ELSE 0)
    BY TallyAppend
  <2>3. counts[Index(box, x, y)] = Tally(s, <<x, y>>)
    BY <1>2, <1>7 DEF CountsInv
  <2>4. Index(box, x, y) = i <=> <<x, y>> = PixelOf(e)
    <3>1. Index(box, x, y) = i => x = e.x /\ y = e.y
      BY <1>0, <1>1, <1>7, BoxPlaces
    <3> QED BY <3>1 DEF PixelOf
  <2>5. Tally(s, <<x, y>>) \in Nat
    <3>1. Tally(s, <<x, y>>) \in 0..Len(s)
      BY TallyType
    <3> QED BY <3>1
  <2> HIDE DEF i, z
  <2>6. CASE Index(box, x, y) = i
    <3>1. more[Index(box, x, y)] = counts[Index(box, x, y)] + 1
      BY <1>5, <2>1, <2>6
    <3> QED BY <2>2, <2>3, <2>4, <2>6, <3>1
  <2>7. CASE Index(box, x, y) # i
    <3>1. more[Index(box, x, y)] = counts[Index(box, x, y)]
      BY <1>5, <2>1, <2>7
    <3> QED BY <2>2, <2>3, <2>4, <2>5, <2>7, <3>1
  <2> QED BY <2>6, <2>7
<1>8. ASSUME NEW j \in DOMAIN z PROVE Holds(box, z[j].x, z[j].y)
  <2>1. /\ DOMAIN z = 1..Len(s) + 1 /\ DOMAIN s = 1..Len(s) /\ Len(s) \in Nat
        /\ z[Len(s) + 1] = e
        /\ \A k \in 1..Len(s) : z[k] = s[k]
    OBVIOUS
  <2>2. CASE j = Len(s) + 1
    BY <1>1, <2>1, <2>2
  <2>3. CASE j # Len(s) + 1
    <3>1. j \in 1..Len(s)
      BY <1>8, <2>1, <2>3
    <3>2. z[j] = s[j] /\ j \in DOMAIN s
      BY <2>1, <3>1
    <3> HIDE DEF z
    <3> QED BY <1>2, <3>2 DEF CountsInv
  <2> QED BY <2>2, <2>3
<1> HIDE DEF z, more
<1>9. CountsInv(box, more, z)
  BY <1>1, <1>6, <1>7, <1>8 DEF CountsInv
<1> QED BY <1>3, <1>9 DEF box, counts, i, more, z

-------------------------------------------------------------------------------
(* The sums.                                                               *)

\* A sum has one term more.
LEMMA SumAppend ==
    ASSUME NEW n \in Nat, NEW f, NEW g, DOMAIN f = 1..n, DOMAIN g = 1..n + 1,
           \A i \in 1..n : g[i] = f[i], \A i \in 1..n + 1 : g[i] \in Int
    PROVE  Sum(g) = Sum(f) + g[n + 1]
<1>1. Sum(f) = Total(f, 1..n) /\ Sum(g) = Total(g, 1..n + 1)
  BY DEF Sum, Total
<1>2. 1..n + 1 = 1..n \cup {n + 1} /\ n + 1 \notin 1..n
  OBVIOUS
<1>3. IsFiniteSet(1..n)
  BY ONLY 1 \in Int, n \in Int, FS_Interval
<1>4. Total(g, 1..n) = Total(f, 1..n)
  BY <1>3, TotalSame
<1>5. \A i \in 1..n \cup {n + 1} : g[i] \in Int
  OBVIOUS
<1>6. Total(g, 1..n \cup {n + 1}) = Total(g, 1..n) + g[n + 1]
  BY <1>2, <1>3, <1>5, TotalAdd
<1> QED BY <1>1, <1>2, <1>4, <1>6

Times(u, v) == [i \in DOMAIN u |-> u[i] * v[i]]

\* The smallest box that holds the events, the largest tally, and what each pixel
\* has in the sum that the entropy is made of.
Boxed(b, s) ==
    /\ b \in Boxes
    /\ \A i \in DOMAIN s : Holds(b, s[i].x, s[i].y)
    /\ \E i \in DOMAIN s : s[i].x = b.x
    /\ \E i \in DOMAIN s : s[i].y = b.y
    /\ \E i \in DOMAIN s : s[i].x = b.x + b.w - 1
    /\ \E i \in DOMAIN s : s[i].y = b.y + b.h - 1

Peaked(p, s) ==
    /\ \E q \in Touched(s) : Tally(s, q) = p
    /\ \A q \in Touched(s) : Tally(s, q) <= p

Weights(s) == [q \in Touched(s) |-> CLogC[Tally(s, q)]]

SumsInv(u, s) ==
    /\ u.n = Len(s)
    /\ u.x = Sum(XOf(s)) /\ u.y = Sum(YOf(s)) /\ u.t = Sum(TOf(s)) /\ u.p = Sum(POf(s))
    /\ u.xx = Sum(Times(XOf(s), XOf(s)))
    /\ u.yy = Sum(Times(YOf(s), YOf(s)))
    /\ u.xy = Sum(Times(XOf(s), YOf(s)))
    /\ u.active = Cardinality(Touched(s))
    /\ u.cLogC = Total(Weights(s), Touched(s))
    /\ s = <<>> => u.bounds = NoRect /\ u.peak = 0
    /\ s # <<>> => /\ u.first = s[1].t /\ u.last = s[Len(s)].t
                   /\ Boxed(u.bounds, s) /\ Peaked(u.peak, s)

\* Of no events the sums are zero.
LEMMA NoSumsInv == SumsInv(NoSums, <<>>)
<1> DEFINE s == <<>>
<1>1. DOMAIN s = {} /\ Len(s) = 0
  OBVIOUS
<1>2. \A f : DOMAIN f = {} => Sum(f) = 0
  <2> SUFFICES ASSUME NEW f, DOMAIN f = {} PROVE Sum(f) = 0
    OBVIOUS
  <2>1. Sum(f) = Total(f, DOMAIN f)
    BY DEF Sum, Total
  <2>2. Total(f, {}) = 0
    BY FS_EmptySet, TotalSome
  <2> QED BY <2>1, <2>2
<1>3. Touched(s) = {}
  BY <1>1 DEF Touched
<1>4. Cardinality(Touched(s)) = 0 /\ Total(Weights(s), Touched(s)) = 0
  BY <1>3, FS_EmptySet, TotalSome
<1>5. /\ DOMAIN XOf(s) = {} /\ DOMAIN YOf(s) = {} /\ DOMAIN TOf(s) = {} /\ DOMAIN POf(s) = {}
      /\ DOMAIN Times(XOf(s), XOf(s)) = {} /\ DOMAIN Times(YOf(s), YOf(s)) = {}
      /\ DOMAIN Times(XOf(s), YOf(s)) = {}
  BY <1>1 DEF XOf, YOf, TOf, POf, Times
<1> HIDE DEF s
<1>6. s = <<>>
  BY DEF s
<1> QED BY <1>1, <1>2, <1>4, <1>5, <1>6 DEF SumsInv, NoSums, s

\* A sum of products has one term more.
LEMMA TimesAppend ==
    ASSUME NEW n \in Nat, NEW a, NEW b, NEW c, NEW d, DOMAIN a = 1..n, DOMAIN c = 1..n + 1,
           \A i \in 1..n : c[i] = a[i], \A i \in 1..n : d[i] = b[i],
           \A i \in 1..n + 1 : c[i] \in Int, \A i \in 1..n + 1 : d[i] \in Int
    PROVE  Sum(Times(c, d)) = Sum(Times(a, b)) + c[n + 1] * d[n + 1]
<1> DEFINE f == Times(a, b)
           g == Times(c, d)
<1>1. n + 1 \in 1..n + 1 /\ \A i \in 1..n : i \in 1..n + 1
  OBVIOUS
<1>2. /\ DOMAIN f = 1..n /\ DOMAIN g = 1..n + 1
      /\ \A i \in 1..n : g[i] = f[i]
      /\ \A i \in 1..n + 1 : g[i] \in Int
      /\ g[n + 1] = c[n + 1] * d[n + 1]
  BY <1>1 DEF Times
<1> HIDE DEF f, g
<1>3. Sum(g) = Sum(f) + c[n + 1] * d[n + 1]
  BY ONLY <1>2, n \in Nat, SumAppend, SMTT(20)
<1> QED BY <1>3 DEF f, g

\* The functions that are added up, of one event more.
LEMMA TermsAppend ==
    ASSUME NEW s \in Seq(Events), NEW e \in Events
    PROVE  LET z == Append(s, e)
           IN  /\ Sum(XOf(z)) = Sum(XOf(s)) + e.x /\ Sum(YOf(z)) = Sum(YOf(s)) + e.y
               /\ Sum(TOf(z)) = Sum(TOf(s)) + e.t /\ Sum(POf(z)) = Sum(POf(s)) + Sign(e)
               /\ Sum(Times(XOf(z), XOf(z))) = Sum(Times(XOf(s), XOf(s))) + e.x * e.x
               /\ Sum(Times(YOf(z), YOf(z))) = Sum(Times(YOf(s), YOf(s))) + e.y * e.y
               /\ Sum(Times(XOf(z), YOf(z))) = Sum(Times(XOf(s), YOf(s))) + e.x * e.y
<1> DEFINE n == Len(s)
           z == Append(s, e)
<1>1. /\ DOMAIN s = 1..n /\ n \in Nat /\ DOMAIN z = 1..n + 1
      /\ \A j \in 1..n : z[j] = s[j] /\ s[j] \in Events
      /\ z[n + 1] = e
  BY ElementOfSeq
<1>2. \A j \in 1..n + 1 : z[j] \in Events
  <2> HIDE DEF z, n
  <2>1. \A j \in 1..n + 1 : j \in 1..n \/ j = n + 1
    BY <1>1
  <2> QED BY <1>1, <2>1
<1>3. \A j \in 1..n + 1 : /\ z[j].x \in Int /\ z[j].y \in Int /\ z[j].t \in Int
                          /\ Sign(z[j]) \in Int
  BY <1>2 DEF Events, Sign
<1>4. n + 1 \in 1..n + 1 /\ \A j \in 1..n : j \in 1..n + 1
  BY <1>1
<1> HIDE DEF n, z
<1>5. Sum(XOf(z)) = Sum(XOf(s)) + e.x
  <2> DEFINE f == XOf(s)
             g == XOf(z)
  <2>1. /\ DOMAIN f = 1..n /\ DOMAIN g = 1..n + 1
        /\ \A i \in 1..n : g[i] = f[i]
        /\ \A i \in 1..n + 1 : g[i] \in Int
        /\ g[n + 1] = e.x
    BY <1>1, <1>3, <1>4 DEF XOf
  <2> HIDE DEF f, g
  <2>2. Sum(g) = Sum(f) + e.x
    BY <1>1, <2>1, SumAppend
  <2> QED BY <2>2 DEF f, g
<1>6. Sum(YOf(z)) = Sum(YOf(s)) + e.y
  <2> DEFINE f == YOf(s)
             g == YOf(z)
  <2>1. /\ DOMAIN f = 1..n /\ DOMAIN g = 1..n + 1
        /\ \A i \in 1..n : g[i] = f[i]
        /\ \A i \in 1..n + 1 : g[i] \in Int
        /\ g[n + 1] = e.y
    BY <1>1, <1>3, <1>4 DEF YOf
  <2> HIDE DEF f, g
  <2>2. Sum(g) = Sum(f) + e.y
    BY <1>1, <2>1, SumAppend
  <2> QED BY <2>2 DEF f, g
<1>7. Sum(TOf(z)) = Sum(TOf(s)) + e.t
  <2> DEFINE f == TOf(s)
             g == TOf(z)
  <2>1. /\ DOMAIN f = 1..n /\ DOMAIN g = 1..n + 1
        /\ \A i \in 1..n : g[i] = f[i]
        /\ \A i \in 1..n + 1 : g[i] \in Int
        /\ g[n + 1] = e.t
    BY <1>1, <1>3, <1>4 DEF TOf
  <2> HIDE DEF f, g
  <2>2. Sum(g) = Sum(f) + e.t
    BY <1>1, <2>1, SumAppend
  <2> QED BY <2>2 DEF f, g
<1>8. Sum(POf(z)) = Sum(POf(s)) + Sign(e)
  <2> DEFINE f == POf(s)
             g == POf(z)
  <2>1. /\ DOMAIN f = 1..n /\ DOMAIN g = 1..n + 1
        /\ \A i \in 1..n : g[i] = f[i]
        /\ \A i \in 1..n + 1 : g[i] \in Int
        /\ g[n + 1] = Sign(e)
    BY <1>1, <1>3, <1>4 DEF POf
  <2> HIDE DEF f, g
  <2>2. Sum(g) = Sum(f) + Sign(e)
    BY <1>1, <2>1, SumAppend
  <2> QED BY <2>2 DEF f, g
<1>9. /\ DOMAIN XOf(s) = 1..n /\ DOMAIN XOf(z) = 1..n + 1
      /\ DOMAIN YOf(s) = 1..n /\ DOMAIN YOf(z) = 1..n + 1
      /\ \A i \in 1..n : XOf(z)[i] = XOf(s)[i] /\ YOf(z)[i] = YOf(s)[i]
      /\ \A i \in 1..n + 1 : XOf(z)[i] \in Int /\ YOf(z)[i] \in Int
      /\ XOf(z)[n + 1] = e.x /\ YOf(z)[n + 1] = e.y
  BY <1>1, <1>3, <1>4 DEF XOf, YOf
<1>10. /\ Sum(Times(XOf(z), XOf(z))) = Sum(Times(XOf(s), XOf(s))) + e.x * e.x
       /\ Sum(Times(YOf(z), YOf(z))) = Sum(Times(YOf(s), YOf(s))) + e.y * e.y
       /\ Sum(Times(XOf(z), YOf(z))) = Sum(Times(XOf(s), YOf(s))) + e.x * e.y
  <2> DEFINE a == XOf(s)
             b == YOf(s)
             c == XOf(z)
             d == YOf(z)
  <2>1. /\ DOMAIN a = 1..n /\ DOMAIN c = 1..n + 1
        /\ DOMAIN b = 1..n /\ DOMAIN d = 1..n + 1
        /\ \A i \in 1..n : c[i] = a[i]
        /\ \A i \in 1..n : d[i] = b[i]
        /\ \A i \in 1..n + 1 : c[i] \in Int
        /\ \A i \in 1..n + 1 : d[i] \in Int
        /\ c[n + 1] = e.x /\ d[n + 1] = e.y
    BY <1>9
  <2> HIDE DEF a, b, c, d
  <2>2. Sum(Times(c, c)) = Sum(Times(a, a)) + c[n + 1] * c[n + 1]
    <3>1. /\ n \in Nat /\ DOMAIN a = 1..n /\ DOMAIN c = 1..n + 1
          /\ \A i \in 1..n : c[i] = a[i]
          /\ \A i \in 1..n + 1 : c[i] \in Int
      BY ONLY <1>1, <2>1
    <3> QED BY ONLY <3>1, TimesAppend
  <2>3. Sum(Times(d, d)) = Sum(Times(b, b)) + d[n + 1] * d[n + 1]
    <3>1. /\ n \in Nat /\ DOMAIN b = 1..n /\ DOMAIN d = 1..n + 1
          /\ \A i \in 1..n : d[i] = b[i]
          /\ \A i \in 1..n + 1 : d[i] \in Int
      BY ONLY <1>1, <2>1
    <3> QED BY ONLY <3>1, TimesAppend
  <2>4. Sum(Times(c, d)) = Sum(Times(a, b)) + c[n + 1] * d[n + 1]
    BY <1>1, <2>1, TimesAppend
  <2> QED BY <2>1, <2>2, <2>3, <2>4 DEF a, b, c, d
<1> QED BY <1>5, <1>6, <1>7, <1>8, <1>10 DEF z

\* The box that an event joins is the smallest one.
LEMMA BoxedJoined ==
    ASSUME NEW s \in Seq(Events), NEW e \in Events, NEW b,
           (s = <<>> /\ b = NoRect) \/ (s # <<>> /\ Boxed(b, s))
    PROVE  Boxed(Joined(b, e.x, e.y), Append(s, e))
<1> DEFINE n == Len(s)
           z == Append(s, e)
           g == Joined(b, e.x, e.y)
<1>0. e.x \in Int /\ e.y \in Int
  BY DEF Events
<1>1. /\ DOMAIN s = 1..n /\ n \in Nat /\ DOMAIN z = 1..n + 1
      /\ \A j \in 1..n : z[j] = s[j] /\ s[j] \in Events
      /\ z[n + 1] = e
  BY ElementOfSeq
<1>2. \A j \in 1..n : s[j].x \in Int /\ s[j].y \in Int
  BY <1>1 DEF Events
<1>3. \A j \in 1..n + 1 : j \in 1..n \/ j = n + 1
  BY <1>1
<1>4. n + 1 \in DOMAIN z /\ \A j \in DOMAIN s : j \in DOMAIN z
  BY <1>1
<1>5. CASE s = <<>> /\ b = NoRect
  <2>1. n = 0
    BY <1>5
  <2>2. g = [x |-> e.x, y |-> e.y, w |-> 1, h |-> 1]
    BY <1>5 DEF Joined, NoRect
  <2> HIDE DEF n, z, g
  <2>3. g \in Boxes /\ g.x = e.x /\ g.y = e.y /\ g.x + g.w - 1 = e.x /\ g.y + g.h - 1 = e.y
    BY <1>0, <2>2 DEF Boxes
  <2>4. \A j \in DOMAIN z : z[j] = e
    BY <1>1, <1>3, <2>1
  <2>5. Holds(g, e.x, e.y)
    BY <1>0, <2>2 DEF Holds
  <2>6. Boxed(g, z)
    BY <1>1, <1>4, <2>3, <2>4, <2>5 DEF Boxed
  <2> QED BY <2>6 DEF g, z
<1>6. CASE s # <<>> /\ Boxed(b, s)
  <2>1. b.w \in Nat \ {0} /\ b.h \in Nat \ {0} /\ b.x \in Int /\ b.y \in Int
    BY <1>6 DEF Boxed, Boxes
  <2>2. g = [x |-> Left(b.x, e.x), y |-> Left(b.y, e.y),
             w |-> Right(b.x + b.w, e.x + 1) - Left(b.x, e.x),
             h |-> Right(b.y + b.h, e.y + 1) - Left(b.y, e.y)]
    BY <2>1 DEF Joined
  <2> HIDE DEF n, z, g
  <2>3. /\ g \in Boxes
        /\ g.x = Left(b.x, e.x) /\ g.x + g.w = Right(b.x + b.w, e.x + 1)
        /\ g.y = Left(b.y, e.y) /\ g.y + g.h = Right(b.y + b.h, e.y + 1)
    <3>1. /\ Left(b.x, e.x) \in Int /\ Right(b.x + b.w, e.x + 1) \in Int
          /\ Right(b.x + b.w, e.x + 1) > Left(b.x, e.x)
      BY <1>0, <2>1, SMTT(20) DEF Left, Right
    <3>2. /\ Left(b.y, e.y) \in Int /\ Right(b.y + b.h, e.y + 1) \in Int
          /\ Right(b.y + b.h, e.y + 1) > Left(b.y, e.y)
      BY <1>0, <2>1, SMTT(20) DEF Left, Right
    <3> QED BY <2>2, <3>1, <3>2 DEF Boxes
  <2>4. g.x \in Int /\ g.y \in Int /\ g.w \in Int /\ g.h \in Int
    BY <2>3 DEF Boxes
  <2>5. /\ \A x, y \in Int : Holds(b, x, y) => Holds(g, x, y)
        /\ Holds(g, e.x, e.y)
    <3>1. g.x \in Int /\ g.y \in Int /\ g.w \in Nat /\ g.h \in Nat
      BY <2>3 DEF Boxes
    <3>2. g.x <= b.x /\ g.x <= e.x /\ b.x + b.w <= g.x + g.w /\ e.x + 1 <= g.x + g.w
      BY <1>0, <2>1, <2>3, <3>1, SMTT(20) DEF Left, Right
    <3>3. g.y <= b.y /\ g.y <= e.y /\ b.y + b.h <= g.y + g.h /\ e.y + 1 <= g.y + g.h
      BY <1>0, <2>1, <2>3, <3>1, SMTT(20) DEF Left, Right
    <3>4. \A o, p, x \in Int : \A m, k \in Nat :
            p <= o /\ o + m <= p + k /\ x - o \in 0..m - 1 => x - p \in 0..k - 1
      OBVIOUS
    <3>5. \A x \in Int : x - b.x \in 0..b.w - 1 => x - g.x \in 0..g.w - 1
      BY ONLY <2>1, <3>1, <3>2, <3>4
    <3>6. \A y \in Int : y - b.y \in 0..b.h - 1 => y - g.y \in 0..g.h - 1
      BY ONLY <2>1, <3>1, <3>3, <3>4
    <3>7. e.x - g.x \in 0..g.w - 1 /\ e.y - g.y \in 0..g.h - 1
      <4>1. \A p, x \in Int : \A k \in Nat : p <= x /\ x + 1 <= p + k => x - p \in 0..k - 1
        OBVIOUS
      <4> QED BY ONLY <1>0, <3>1, <3>2, <3>3, <4>1
    <3> QED BY <3>5, <3>6, <3>7 DEF Holds
  <2>6. \A i \in DOMAIN z : Holds(g, z[i].x, z[i].y)
    BY <1>1, <1>2, <1>3, <1>6, <2>5 DEF Boxed
  <2>7. \E i \in DOMAIN z : z[i].x = g.x
    <3>1. CASE g.x = e.x
      BY <1>1, <1>4, <3>1
    <3>2. CASE g.x = b.x
      <4>1. PICK i \in DOMAIN s : s[i].x = b.x
        BY <1>6 DEF Boxed
      <4> QED BY <1>1, <1>4, <3>2, <4>1
    <3> QED BY <2>3, <3>1, <3>2 DEF Left
  <2>8. \E i \in DOMAIN z : z[i].y = g.y
    <3>1. CASE g.y = e.y
      BY <1>1, <1>4, <3>1
    <3>2. CASE g.y = b.y
      <4>1. PICK i \in DOMAIN s : s[i].y = b.y
        BY <1>6 DEF Boxed
      <4> QED BY <1>1, <1>4, <3>2, <4>1
    <3> QED BY <2>3, <3>1, <3>2 DEF Left
  <2>9. \E i \in DOMAIN z : z[i].x = g.x + g.w - 1
    <3>1. CASE g.x + g.w = e.x + 1
      <4>1. g.x \in Int /\ g.w \in Int /\ e.x \in Int
        BY <1>0, <2>4
      <4>2. \A k, l, m \in Int : k + l = m + 1 => k + l - 1 = m
        OBVIOUS
      <4>3. g.x + g.w - 1 = e.x
        BY ONLY <3>1, <4>1, <4>2
      <4> QED BY <1>1, <1>4, <4>3
    <3>2. CASE g.x + g.w = b.x + b.w
      <4>1. PICK i \in DOMAIN s : s[i].x = b.x + b.w - 1
        BY <1>6 DEF Boxed
      <4>2. b.x \in Int /\ b.w \in Int /\ g.x \in Int /\ g.w \in Int
        BY <2>1, <2>4
      <4>3. g.x + g.w = b.x + b.w
        BY <3>2
      <4>4. \A k, l, m, o \in Int : k + l = m + o => m + o - 1 = k + l - 1
        OBVIOUS
      <4>5. b.x + b.w - 1 = g.x + g.w - 1
        BY ONLY <4>2, <4>3, <4>4, ZenonT(40)
      <4>6. s[i].x = g.x + g.w - 1
        BY ONLY <4>1, <4>5
      <4>7. i \in DOMAIN z /\ z[i].x = s[i].x
        BY <1>1, <1>4
      <4> QED BY <4>6, <4>7
    <3> QED BY <2>3, <3>1, <3>2 DEF Right
  <2>10. \E i \in DOMAIN z : z[i].y = g.y + g.h - 1
    <3>1. CASE g.y + g.h = e.y + 1
      <4>1. g.y \in Int /\ g.h \in Int /\ e.y \in Int
        BY <1>0, <2>4
      <4>2. \A k, l, m \in Int : k + l = m + 1 => k + l - 1 = m
        OBVIOUS
      <4>3. g.y + g.h - 1 = e.y
        BY ONLY <3>1, <4>1, <4>2
      <4> QED BY <1>1, <1>4, <4>3
    <3>2. CASE g.y + g.h = b.y + b.h
      <4>1. PICK i \in DOMAIN s : s[i].y = b.y + b.h - 1
        BY <1>6 DEF Boxed
      <4>2. b.y \in Int /\ b.h \in Int /\ g.y \in Int /\ g.h \in Int
        BY <2>1, <2>4
      <4>3. g.y + g.h = b.y + b.h
        BY <3>2
      <4>4. \A k, l, m, o \in Int : k + l = m + o => m + o - 1 = k + l - 1
        OBVIOUS
      <4>5. b.y + b.h - 1 = g.y + g.h - 1
        BY ONLY <4>2, <4>3, <4>4, ZenonT(40)
      <4>6. s[i].y = g.y + g.h - 1
        BY ONLY <4>1, <4>5
      <4>7. i \in DOMAIN z /\ z[i].y = s[i].y
        BY <1>1, <1>4
      <4> QED BY <4>6, <4>7
    <3> QED BY <2>3, <3>1, <3>2 DEF Right
  <2>11. Boxed(g, z)
    BY <2>3, <2>6, <2>7, <2>8, <2>9, <2>10 DEF Boxed
  <2> QED BY <2>11 DEF g, z
<1> QED BY <1>5, <1>6

\* The largest tally, when there is an event more.
LEMMA PeakedAppend ==
    ASSUME NEW s \in Seq(Events), NEW e \in Events, NEW p,
           (s = <<>> /\ p = 0) \/ (s # <<>> /\ Peaked(p, s))
    PROVE  Peaked(Right(p, Tally(s, PixelOf(e)) + 1), Append(s, e))
<1> DEFINE q == PixelOf(e)
           z == Append(s, e)
           m == Right(p, Tally(s, q) + 1)
<1>1. \A r : Tally(s, r) \in Nat
  <2>1. \A r : Tally(s, r) \in 0..Len(s)
    BY TallyType
  <2> QED BY <2>1
<1>2. p \in Int
  BY <1>1 DEF Peaked
<1>3. /\ Touched(z) = Touched(s) \cup {q}
      /\ \A r : Tally(z, r) = Tally(s, r) + (IF r = q THEN 1 ELSE 0)
  BY TallyAppend
<1> HIDE DEF q, z
<1>4. Tally(z, q) = Tally(s, q) + 1 /\ \A r : r # q => Tally(z, r) = Tally(s, r)
  BY <1>1, <1>3
<1>5. m = IF p > Tally(s, q) + 1 THEN p ELSE Tally(s, q) + 1
  BY DEF Right
<1> HIDE DEF m
<1>6. \A r \in Touched(s) : Tally(s, r) <= p
  <2>1. s = <<>> => Touched(s) = {}
    BY DEF Touched
  <2> QED BY <2>1 DEF Peaked
<1>7. \A r \in Touched(z) : Tally(z, r) <= m
  <2> SUFFICES ASSUME NEW r \in Touched(z) PROVE Tally(z, r) <= m
    OBVIOUS
  <2>1. CASE r = q
    BY <1>1, <1>2, <1>4, <1>5, <2>1
  <2>2. CASE r # q
    BY <1>1, <1>2, <1>3, <1>4, <1>5, <1>6, <2>2
  <2> QED BY <2>1, <2>2
<1>8. \E r \in Touched(z) : Tally(z, r) = m
  <2>1. CASE m = Tally(s, q) + 1
    BY <1>3, <1>4, <2>1
  <2>2. CASE m = p /\ p > Tally(s, q) + 1
    <3>1. s # <<>>
      <4> SUFFICES ASSUME s = <<>> PROVE FALSE
        OBVIOUS
      <4>1. p = 0
        OBVIOUS
      <4> QED BY <1>1, <2>2, <4>1
    <3>2. PICK r \in Touched(s) : Tally(s, r) = p
      BY <3>1 DEF Peaked
    <3>3. r # q
      BY <1>1, <2>2, <3>2
    <3> QED BY <1>3, <1>4, <2>2, <3>2, <3>3
  <2> QED BY <1>5, <2>1, <2>2
<1> QED BY <1>7, <1>8 DEF Peaked, q, z, m

\* The terms of the entropy, when there is an event more.
LEMMA WeightsAppend ==
    ASSUME NEW s \in Seq(Events), NEW e \in Events,
           CLogC[0] = 0, \A c \in 0..Len(s) + 1 : CLogC[c] \in Int
    PROVE  LET c == Tally(s, PixelOf(e))
               z == Append(s, e)
           IN  /\ Total(Weights(z), Touched(z))
                    = Total(Weights(s), Touched(s)) + (CLogC[c + 1] - CLogC[c])
               /\ Cardinality(Touched(z))
                    = Cardinality(Touched(s)) + (IF c = 0 THEN 1 ELSE 0)
<1> DEFINE q == PixelOf(e)
           c == Tally(s, q)
           z == Append(s, e)
           n == Len(s)
           T == Touched(s)
           U == Touched(z)
           f == Weights(s)
           g == Weights(z)
<1>1. n \in Nat
  OBVIOUS
<1>2. IsFiniteSet(T) /\ \A r : Tally(s, r) \in 0..n /\ (Tally(s, r) > 0 <=> r \in T)
  BY TallyType
<1>3. /\ U = T \cup {q}
      /\ \A r : Tally(z, r) = Tally(s, r) + (IF r = q THEN 1 ELSE 0)
  BY TallyAppend
<1>4. f = [r \in T |-> CLogC[Tally(s, r)]] /\ g = [r \in U |-> CLogC[Tally(z, r)]]
  BY DEF Weights
<1>5. c \in 0..n
  BY <1>2
<1>6. c = 0 <=> q \notin T
  BY <1>1, <1>2
<1> HIDE DEF q, c, n, T, U, f, g
<1>7. Tally(z, q) = c + 1 /\ \A r : r # q => Tally(z, r) = Tally(s, r)
  <2>1. Tally(z, q) = c + 1
    BY <1>3 DEF c
  <2>2. \A r : Tally(s, r) \in Int
    BY <1>1, <1>2
  <2> HIDE DEF z
  <2> QED BY <1>3, <2>1, <2>2
<1> HIDE DEF z
<1>8. CLogC[c] \in Int /\ CLogC[c + 1] \in Int /\ \A r : CLogC[Tally(s, r)] \in Int
  <2>1. c \in 0..n + 1 /\ c + 1 \in 0..n + 1 /\ \A r : Tally(s, r) \in 0..n + 1
    BY <1>1, <1>2, <1>5
  <2> QED BY <2>1 DEF n
<1>9. CASE q \in T
  <2>1. U = T
    BY <1>3, <1>9
  <2>2. /\ \A r \in T : f[r] \in Int /\ g[r] \in Int
        /\ \A r \in T : r # q => f[r] = g[r]
        /\ g[q] = CLogC[c + 1] /\ f[q] = CLogC[c]
    BY <1>4, <1>7, <1>8, <1>9, <2>1 DEF c
  <2>3. Total(g, T) = Total(f, T) + (g[q] - f[q])
    BY <1>2, <1>9, <2>2, TotalChange
  <2>4. Cardinality(T) \in Nat
    BY <1>2, FS_CardinalityType
  <2>5. Total(g, U) = Total(f, T) + (CLogC[c + 1] - CLogC[c])
    BY <2>1, <2>2, <2>3
  <2>6. Cardinality(U) = Cardinality(T) + (IF c = 0 THEN 1 ELSE 0)
    BY <1>6, <1>9, <2>1, <2>4
  <2> QED BY <2>5, <2>6 DEF q, c, z, T, U, f, g
<1>10. CASE q \notin T
  <2>1. c = 0 /\ CLogC[c] = 0
    BY <1>6, <1>10
  <2>2. /\ \A r \in T \cup {q} : g[r] \in Int
        /\ \A r \in T : f[r] = g[r]
        /\ g[q] = CLogC[c + 1]
    BY <1>3, <1>4, <1>7, <1>8, <1>10
  <2>3. Total(g, T \cup {q}) = Total(g, T) + g[q]
    BY <1>2, <1>10, <2>2, TotalAdd
  <2>4. Total(f, T) = Total(g, T)
    BY <1>2, <2>2, TotalSame
  <2>5. Cardinality(U) = Cardinality(T) + 1
    BY <1>2, <1>3, <1>10, FS_AddElement
  <2>6. Total(g, U) = Total(f, T) + (CLogC[c + 1] - CLogC[c])
    BY <1>3, <1>8, <2>1, <2>2, <2>3, <2>4
  <2>7. Cardinality(U) = Cardinality(T) + (IF c = 0 THEN 1 ELSE 0)
    BY <2>1, <2>5
  <2> QED BY <2>6, <2>7 DEF q, c, z, T, U, f, g
<1> QED BY <1>9, <1>10

\* What push() adds to the sums keeps them.
LEMMA SumsPush ==
    ASSUME NEW s \in Seq(Events), NEW e \in Events, NEW u, SumsInv(u, s),
           CLogC[0] = 0, \A c \in 0..Len(s) + 1 : CLogC[c] \in Int
    PROVE  SumsInv(Summed(u, e, Tally(s, PixelOf(e))), Append(s, e))
<1> DEFINE z == Append(s, e)
           c == Tally(s, PixelOf(e))
           v == Summed(u, e, c)
<1>1. v = [n |-> u.n + 1, first |-> IF u.n = 0 THEN e.t ELSE u.first, last |-> e.t,
           x |-> u.x + e.x, y |-> u.y + e.y, t |-> u.t + e.t, p |-> u.p + Sign(e),
           xx |-> u.xx + e.x * e.x, yy |-> u.yy + e.y * e.y, xy |-> u.xy + e.x * e.y,
           bounds |-> Joined(u.bounds, e.x, e.y),
           active |-> u.active + (IF c = 0 THEN 1 ELSE 0), peak |-> Right(u.peak, c + 1),
           cLogC |-> u.cLogC + (CLogC[c + 1] - CLogC[c])]
  BY DEF Summed
<1>2. Len(z) = Len(s) + 1 /\ z # <<>> /\ z[Len(z)] = e
  OBVIOUS
<1>3. z[1] = IF Len(s) = 0 THEN e ELSE s[1]
  OBVIOUS
<1>4. s = <<>> <=> Len(s) = 0
  OBVIOUS
<1>5. /\ s = <<>> => u.bounds = NoRect /\ u.peak = 0
      /\ s # <<>> => Boxed(u.bounds, s) /\ Peaked(u.peak, s)
  BY DEF SumsInv
<1>6. Boxed(v.bounds, z)
  <2>1. (s = <<>> /\ u.bounds = NoRect) \/ (s # <<>> /\ Boxed(u.bounds, s))
    BY <1>5
  <2>2. v.bounds = Joined(u.bounds, e.x, e.y)
    BY <1>1
  <2> HIDE DEF v
  <2> QED BY <2>1, <2>2, BoxedJoined
<1>7. Peaked(v.peak, z)
  <2>1. (s = <<>> /\ u.peak = 0) \/ (s # <<>> /\ Peaked(u.peak, s))
    BY <1>5
  <2>2. v.peak = Right(u.peak, c + 1)
    BY <1>1
  <2> HIDE DEF v
  <2> QED BY <2>1, <2>2, PeakedAppend
<1>8. v.active = Cardinality(Touched(z)) /\ v.cLogC = Total(Weights(z), Touched(z))
  <2>1. /\ v.active = u.active + (IF c = 0 THEN 1 ELSE 0)
        /\ v.cLogC = u.cLogC + (CLogC[c + 1] - CLogC[c])
    BY <1>1
  <2>2. u.active = Cardinality(Touched(s)) /\ u.cLogC = Total(Weights(s), Touched(s))
    BY DEF SumsInv
  <2> HIDE DEF v
  <2> QED BY <2>1, <2>2, WeightsAppend
<1>9. /\ v.n = u.n + 1 /\ v.first = (IF u.n = 0 THEN e.t ELSE u.first) /\ v.last = e.t
      /\ v.x = u.x + e.x /\ v.y = u.y + e.y /\ v.t = u.t + e.t /\ v.p = u.p + Sign(e)
      /\ v.xx = u.xx + e.x * e.x /\ v.yy = u.yy + e.y * e.y /\ v.xy = u.xy + e.x * e.y
  BY <1>1
<1>10. /\ u.n = Len(s)
       /\ s # <<>> => u.first = s[1].t
       /\ u.x = Sum(XOf(s)) /\ u.y = Sum(YOf(s)) /\ u.t = Sum(TOf(s)) /\ u.p = Sum(POf(s))
       /\ u.xx = Sum(Times(XOf(s), XOf(s))) /\ u.yy = Sum(Times(YOf(s), YOf(s)))
       /\ u.xy = Sum(Times(XOf(s), YOf(s)))
  BY DEF SumsInv
<1>11. /\ Sum(XOf(z)) = Sum(XOf(s)) + e.x /\ Sum(YOf(z)) = Sum(YOf(s)) + e.y
       /\ Sum(TOf(z)) = Sum(TOf(s)) + e.t /\ Sum(POf(z)) = Sum(POf(s)) + Sign(e)
       /\ Sum(Times(XOf(z), XOf(z))) = Sum(Times(XOf(s), XOf(s))) + e.x * e.x
       /\ Sum(Times(YOf(z), YOf(z))) = Sum(Times(YOf(s), YOf(s))) + e.y * e.y
       /\ Sum(Times(XOf(z), YOf(z))) = Sum(Times(XOf(s), YOf(s))) + e.x * e.y
  BY TermsAppend
<1> HIDE DEF v, z, c
<1>12. v.n = Len(z) /\ v.first = z[1].t /\ v.last = z[Len(z)].t
  <2>1. v.n = Len(z) /\ v.last = z[Len(z)].t
    BY <1>2, <1>9, <1>10
  <2>2. CASE Len(s) = 0
    BY <1>3, <1>9, <1>10, <2>1, <2>2
  <2>3. CASE Len(s) # 0
    BY <1>3, <1>4, <1>9, <1>10, <2>1, <2>3
  <2> QED BY <2>2, <2>3
<1>13. /\ v.x = Sum(XOf(z)) /\ v.y = Sum(YOf(z)) /\ v.t = Sum(TOf(z)) /\ v.p = Sum(POf(z))
       /\ v.xx = Sum(Times(XOf(z), XOf(z))) /\ v.yy = Sum(Times(YOf(z), YOf(z)))
       /\ v.xy = Sum(Times(XOf(z), YOf(z)))
  BY <1>9, <1>10, <1>11
<1>14. SumsInv(v, z)
  BY <1>2, <1>6, <1>7, <1>8, <1>12, <1>13 DEF SumsInv
<1> QED BY <1>14 DEF v, z, c

-------------------------------------------------------------------------------
(* What Stats_ computes over the same events.                              *)

\* The least and the greatest element of a set.
LEMMA MinMaxAre ==
    ASSUME NEW S \in SUBSET Int, NEW m \in S
    PROVE  /\ (\A y \in S : m <= y) => Min(S) = m
           /\ (\A y \in S : y <= m) => Max(S) = m
<1>1. ASSUME \A y \in S : m <= y PROVE Min(S) = m
  <2>1. \A x \in S : (\A y \in S : x =< y) => x = m
    BY <1>1
  <2> QED BY <1>1, <2>1 DEF Min
<1>2. ASSUME \A y \in S : y <= m PROVE Max(S) = m
  <2>1. \A x \in S : (\A y \in S : x >= y) => x = m
    BY <1>2
  <2>2. \A y \in S : m >= y
    BY <1>2
  <2> QED BY <2>1, <2>2 DEF Max
<1> QED BY <1>1, <1>2

\* There is one smallest box.
LEMMA BoundsAre ==
    ASSUME NEW s \in Seq(Events), NEW b, Boxed(b, s)
    PROVE  Bounds(s) = b
<1>1. /\ b.x \in Int /\ b.y \in Int /\ b.w \in Int /\ b.h \in Int
      /\ b = [x |-> b.x, y |-> b.y, w |-> b.w, h |-> b.h]
  BY DEF Boxed, Boxes
<1>2. \A i \in DOMAIN s : s[i].x \in Int /\ s[i].y \in Int
  <2>1. \A i \in DOMAIN s : s[i] \in Events
    BY ElementOfSeq
  <2> QED BY <2>1 DEF Events
<1>3. XsOf(s) \in SUBSET Int /\ YsOf(s) \in SUBSET Int
  BY <1>2 DEF XsOf, YsOf
<1>4. /\ \A i \in DOMAIN s : b.x <= s[i].x /\ s[i].x <= b.x + b.w - 1
      /\ \A i \in DOMAIN s : b.y <= s[i].y /\ s[i].y <= b.y + b.h - 1
  <2> SUFFICES ASSUME NEW i \in DOMAIN s
               PROVE  /\ b.x <= s[i].x /\ s[i].x <= b.x + b.w - 1
                      /\ b.y <= s[i].y /\ s[i].y <= b.y + b.h - 1
    OBVIOUS
  <2>1. s[i].x - b.x \in 0..b.w - 1 /\ s[i].y - b.y \in 0..b.h - 1
    BY DEF Boxed, Holds
  <2>2. \A o, m, v \in Int : v - o \in 0..m - 1 => o <= v /\ v <= o + m - 1
    OBVIOUS
  <2> QED BY ONLY <1>1, <1>2, <2>1, <2>2
<1>5. Min(XsOf(s)) = b.x
  <2>1. b.x \in XsOf(s)
    BY DEF Boxed, XsOf
  <2>2. \A v \in XsOf(s) : b.x <= v
    BY <1>4 DEF XsOf
  <2> QED BY <1>3, <2>1, <2>2, MinMaxAre
<1>6. Min(YsOf(s)) = b.y
  <2>1. b.y \in YsOf(s)
    BY DEF Boxed, YsOf
  <2>2. \A v \in YsOf(s) : b.y <= v
    BY <1>4 DEF YsOf
  <2> QED BY <1>3, <2>1, <2>2, MinMaxAre
<1>7. Max(XsOf(s)) = b.x + b.w - 1
  <2>1. b.x + b.w - 1 \in XsOf(s)
    BY DEF Boxed, XsOf
  <2>2. \A v \in XsOf(s) : v <= b.x + b.w - 1
    BY <1>4 DEF XsOf
  <2> QED BY <1>3, <2>1, <2>2, MinMaxAre
<1>8. Max(YsOf(s)) = b.y + b.h - 1
  <2>1. b.y + b.h - 1 \in YsOf(s)
    BY DEF Boxed, YsOf
  <2>2. \A v \in YsOf(s) : v <= b.y + b.h - 1
    BY <1>4 DEF YsOf
  <2> QED BY <1>3, <2>1, <2>2, MinMaxAre
<1>9. \A o, m \in Int : (o + m - 1) - o + 1 = m
  OBVIOUS
<1>10. Bounds(s) = [x |-> b.x, y |-> b.y, w |-> (b.x + b.w - 1) - b.x + 1,
                    h |-> (b.y + b.h - 1) - b.y + 1]
  BY <1>5, <1>6, <1>7, <1>8 DEF Bounds
<1> QED BY ONLY <1>1, <1>9, <1>10

\* The pixels with c events.
Sharing(s, c) == {q \in Touched(s) : Tally(s, q) = c}

\* Over the box, each of them has a place, and no other place has as many.
LEMMA DenseCounts ==
    ASSUME NEW s \in Seq(Events), Boxed(Bounds(s), s), NEW c \in Nat \ {0}
    PROVE  LET counts == CountsOverBox(s)
           IN  Cardinality({i \in DOMAIN counts : counts[i] = c}) = Cardinality(Sharing(s, c))
<1> DEFINE b == Bounds(s)
           counts == CountsOverBox(s)
           P == {i \in DOMAIN counts : counts[i] = c}
           F == [q \in Sharing(s, c) |-> Index(b, q[1], q[2])]
           At_(i) == {j \in DOMAIN s : Index(b, s[j].x, s[j].y) = i}
<1>1. b \in Boxes /\ \A j \in DOMAIN s : Holds(b, s[j].x, s[j].y)
  BY DEF Boxed
<1>2. \A j \in DOMAIN s : s[j] \in Events /\ s[j].x \in Int /\ s[j].y \in Int
  <2>1. \A j \in DOMAIN s : s[j] \in Events
    BY ElementOfSeq
  <2> QED BY <2>1 DEF Events
<1>3. counts = [i \in 0..b.w * b.h - 1 |-> Cardinality(At_(i))]
  BY DEF CountsOverBox
<1> HIDE DEF b, counts
<1>4. \A q \in Touched(s) : /\ q[1] \in Int /\ q[2] \in Int /\ q = <<q[1], q[2]>>
                            /\ Holds(b, q[1], q[2])
  BY <1>1, <1>2 DEF Touched, PixelOf
<1>5. ASSUME NEW q \in Touched(s), NEW r \in Touched(s),
             Index(b, q[1], q[2]) = Index(b, r[1], r[2])
      PROVE  q = r
  BY <1>1, <1>4, <1>5, BoxPlaces
<1>6. ASSUME NEW q \in Touched(s)
      PROVE  /\ Index(b, q[1], q[2]) \in 0..b.w * b.h - 1
             /\ counts[Index(b, q[1], q[2])] = Tally(s, q)
  <2>1. Index(b, q[1], q[2]) \in 0..b.w * b.h - 1
    BY <1>1, <1>4, BoxPlaces
  <2>2. \A j \in DOMAIN s : Index(b, s[j].x, s[j].y) = Index(b, q[1], q[2]) <=> PixelOf(s[j]) = q
    <3> SUFFICES ASSUME NEW j \in DOMAIN s
                 PROVE  Index(b, s[j].x, s[j].y) = Index(b, q[1], q[2]) <=> PixelOf(s[j]) = q
      OBVIOUS
    <3> DEFINE r == PixelOf(s[j])
    <3>1. r \in Touched(s) /\ r[1] = s[j].x /\ r[2] = s[j].y
      BY DEF Touched, PixelOf
    <3> QED BY <1>5, <3>1
  <2>3. At_(Index(b, q[1], q[2])) = {j \in DOMAIN s : PixelOf(s[j]) = q}
    BY <2>2
  <2> QED BY <1>3, <2>1, <2>3 DEF Tally
<1>7. \A q \in Sharing(s, c) : F[q] \in P
  <2>1. DOMAIN counts = 0..b.w * b.h - 1
    BY <1>3
  <2> QED BY <1>6, <2>1 DEF Sharing
<1>8. \A q, r \in Sharing(s, c) : F[q] = F[r] => q = r
  BY <1>5 DEF Sharing
<1>9. ASSUME NEW i \in P PROVE \E q \in Sharing(s, c) : F[q] = i
  <2>1. i \in 0..b.w * b.h - 1 /\ Cardinality(At_(i)) = c
    BY <1>3
  <2>2. At_(i) # {}
    <3> SUFFICES ASSUME At_(i) = {} PROVE FALSE
      OBVIOUS
    <3> QED BY <2>1, FS_EmptySet
  <2>3. PICK j \in DOMAIN s : Index(b, s[j].x, s[j].y) = i
    BY <2>2
  <2> DEFINE q == PixelOf(s[j])
  <2>4. q \in Touched(s) /\ q[1] = s[j].x /\ q[2] = s[j].y
    BY DEF Touched, PixelOf
  <2>5. Index(b, q[1], q[2]) = i
    BY <2>3, <2>4
  <2> HIDE DEF q
  <2>6. Tally(s, q) = c
    BY <1>6, <2>4, <2>5
  <2> QED BY <2>4, <2>5, <2>6 DEF Sharing
<1>10. IsFiniteSet(Sharing(s, c))
  BY TallyType, FS_Subset DEF Sharing
<1> HIDE DEF P, F
<1>11. Cardinality(P) = Cardinality(Sharing(s, c))
  BY <1>7, <1>8, <1>9, <1>10, SameCardinality
<1> QED BY <1>11 DEF P, counts

\* The order of the keys, in which equal ones keep the order of their events.
LEMMA BeforeOrders ==
    ASSUME NEW s \in Seq(Events)
    PROVE  /\ \A i \in DOMAIN s : ~Before(s, i, i)
           /\ \A i, j, k \in DOMAIN s : Before(s, i, j) /\ Before(s, j, k) => Before(s, i, k)
           /\ \A i, j \in DOMAIN s : Before(s, i, j) \/ Before(s, j, i) \/ i = j
<1>1. \A j \in DOMAIN s : j \in Int /\ s[j].x \in Int /\ s[j].y \in Int
  <2>1. \A j \in DOMAIN s : s[j] \in Events /\ j \in Int
    BY ElementOfSeq
  <2> QED BY <2>1 DEF Events
<1>2. \A i \in DOMAIN s : ~Before(s, i, i)
  BY <1>1 DEF Before
<1>3. ASSUME NEW i \in DOMAIN s, NEW j \in DOMAIN s, NEW k \in DOMAIN s,
             Before(s, i, j), Before(s, j, k)
      PROVE  Before(s, i, k)
  BY <1>1, <1>3 DEF Before
<1>4. \A i, j \in DOMAIN s : Before(s, i, j) \/ Before(s, j, i) \/ i = j
  BY <1>1 DEF Before
<1> QED BY <1>2, <1>3, <1>4

\* The ranks are the places of the sorted keys, each of one event.
LEMMA RankPlaces ==
    ASSUME NEW s \in Seq(Events)
    PROVE  /\ \A j \in DOMAIN s : Rank(s, j) \in 1..Len(s)
           /\ \A i, j \in DOMAIN s : Rank(s, i) < Rank(s, j) <=> Before(s, i, j)
           /\ \A i, j \in DOMAIN s : Rank(s, i) = Rank(s, j) => i = j
           /\ \A r \in 1..Len(s) : \E j \in DOMAIN s : Rank(s, j) = r
<1> DEFINE n == Len(s)
           B(j) == {i \in DOMAIN s : Before(s, i, j)}
<1>1. DOMAIN s = 1..n /\ n \in Nat
  OBVIOUS
<1>2. IsFiniteSet(DOMAIN s) /\ Cardinality(DOMAIN s) = n
  <2>1. n = 0 => 1 > n
    BY <1>1
  <2> QED BY <1>1, <2>1, FS_Interval, SMTT(20)
<1>3. \A j \in DOMAIN s : IsFiniteSet(B(j)) /\ Cardinality(B(j)) \in Nat
  <2>1. \A j \in DOMAIN s : B(j) \in SUBSET DOMAIN s
    OBVIOUS
  <2> HIDE DEF B
  <2> QED BY <1>2, <2>1, FS_Subset, FS_CardinalityType
<1>4. \A j \in DOMAIN s : Rank(s, j) = 1 + Cardinality(B(j))
  BY DEF Rank
<1>5. \A i, j \in DOMAIN s : i \in B(j) <=> Before(s, i, j)
  OBVIOUS
<1>6. \A j \in DOMAIN s : B(j) \subseteq DOMAIN s
  OBVIOUS
<1> HIDE DEF n, B
<1>7. ASSUME NEW i \in DOMAIN s, NEW j \in DOMAIN s, Before(s, i, j)
      PROVE  Rank(s, i) < Rank(s, j)
  <2>1. B(i) \subseteq B(j) /\ i \in B(j) /\ i \notin B(i)
    BY <1>5, <1>6, <1>7, BeforeOrders
  <2>2. Cardinality(B(i)) <= Cardinality(B(j)) /\ Cardinality(B(i)) # Cardinality(B(j))
    BY <1>3, <2>1, FS_Subset
  <2>3. Cardinality(B(i)) \in Nat /\ Cardinality(B(j)) \in Nat
    BY <1>3
  <2>4. Rank(s, i) = 1 + Cardinality(B(i)) /\ Rank(s, j) = 1 + Cardinality(B(j))
    BY <1>4
  <2> QED BY <2>2, <2>3, <2>4
<1>8. ASSUME NEW j \in DOMAIN s PROVE Rank(s, j) \in 1..n
  <2>1. j \notin B(j) /\ B(j) \subseteq DOMAIN s
    BY <1>5, <1>6, BeforeOrders
  <2>2. Cardinality(B(j)) <= n /\ Cardinality(B(j)) # n
    BY <1>2, <2>1, FS_Subset
  <2>3. Cardinality(B(j)) \in Nat /\ Rank(s, j) = 1 + Cardinality(B(j))
    BY <1>3, <1>4
  <2> QED BY <1>1, <2>2, <2>3
<1>9. ASSUME NEW i \in DOMAIN s, NEW j \in DOMAIN s
      PROVE  /\ Rank(s, i) < Rank(s, j) <=> Before(s, i, j)
             /\ Rank(s, i) = Rank(s, j) => i = j
  <2>1. Rank(s, i) \in Int /\ Rank(s, j) \in Int
    BY <1>1, <1>8
  <2>2. Before(s, i, j) \/ Before(s, j, i) \/ i = j
    BY BeforeOrders
  <2>3. Before(s, i, j) => Rank(s, i) < Rank(s, j)
    BY <1>7
  <2>4. Before(s, j, i) => Rank(s, j) < Rank(s, i)
    BY <1>7
  <2> QED BY <2>1, <2>2, <2>3, <2>4
<1>10. ASSUME NEW r \in 1..n PROVE \E j \in DOMAIN s : Rank(s, j) = r
  <2> DEFINE f == [j \in 1..n |-> Rank(s, j)]
  <2>1. f \in Injection(1..n, 1..n)
    BY <1>1, <1>8, <1>9 DEF Injection, IsInjective
  <2> HIDE DEF f
  <2>2. f \in Surjection(1..n, 1..n)
    BY <1>1, <1>2, <2>1, FS_Injection
  <2> QED BY <1>1, <2>2 DEF f, Surjection
<1> QED BY <1>8, <1>9, <1>10 DEF n

\* The key of a pixel, and where it is among the sorted ones.
KeyOf(q) == <<q[2], q[1]>>
RunOf(s, q) == {r \in 1..Len(s) : Sorted(s)[r] = KeyOf(q)}

\* The keys, by their places.
LEMMA SortedAt ==
    ASSUME NEW s \in Seq(Events)
    PROVE  /\ DOMAIN Sorted(s) = 1..Len(s) /\ Len(Sorted(s)) = Len(s)
           /\ \A j \in DOMAIN s : Sorted(s)[Rank(s, j)] = KeyOf(PixelOf(s[j]))
<1>1. DOMAIN s = 1..Len(s) /\ Len(s) \in Nat
  OBVIOUS
<1>2. DOMAIN Sorted(s) = 1..Len(s)
  BY <1>1 DEF Sorted
<1>3. Len(Sorted(s)) = Len(s)
  <2> DEFINE k == Sorted(s)
             E(r) == s[CHOOSE j \in DOMAIN s : Rank(s, j) = r]
             G(r) == <<E(r).y, E(r).x>>
             V == {G(r) : r \in 1..Len(s)}
  <2>1. k = [r \in 1..Len(s) |-> G(r)]
    BY <1>1 DEF Sorted
  <2> HIDE DEF k, G
  <2>2. k \in [1..Len(s) -> V]
    BY <2>1
  <2> HIDE DEF V
  <2>3. k \in Seq(V)
    BY <1>1, <2>2
  <2>4. Len(k) \in Nat /\ 1..Len(k) = 1..Len(s)
    BY <1>2, <2>3 DEF k
  <2>5. \A m, n \in Nat : 1..m = 1..n => m = n
    <3> SUFFICES ASSUME NEW m \in Nat, NEW n \in Nat, 1..m = 1..n PROVE m = n
      OBVIOUS
    <3>1. (m > 0 => m \in 1..n) /\ (n > 0 => n \in 1..m)
      OBVIOUS
    <3> QED BY <3>1
  <2> QED BY <1>1, <2>4, <2>5 DEF k
<1>4. ASSUME NEW j \in DOMAIN s PROVE Sorted(s)[Rank(s, j)] = KeyOf(PixelOf(s[j]))
  <2>1. Rank(s, j) \in DOMAIN s
    BY <1>1, RankPlaces
  <2>2. (CHOOSE i \in DOMAIN s : Rank(s, i) = Rank(s, j)) = j
    BY RankPlaces
  <2>3. Sorted(s)[Rank(s, j)] = <<s[j].y, s[j].x>>
    BY <2>1, <2>2 DEF Sorted
  <2> QED BY <2>3 DEF KeyOf, PixelOf
<1> QED BY <1>2, <1>3, <1>4

\* The equal keys of a pixel are next to one another, as many as it has events.
LEMMA RunsAre ==
    ASSUME NEW s \in Seq(Events), NEW q \in Touched(s)
    PROVE  /\ IsFiniteSet(RunOf(s, q)) /\ Cardinality(RunOf(s, q)) = Tally(s, q)
           /\ RunOf(s, q) # {} /\ RunOf(s, q) \in SUBSET Nat
           /\ \A u, v \in RunOf(s, q) : \A r \in Nat : u <= r /\ r <= v => r \in RunOf(s, q)
<1> DEFINE J == {j \in DOMAIN s : PixelOf(s[j]) = q}
           R == RunOf(s, q)
<1>1. DOMAIN s = 1..Len(s) /\ Len(s) \in Nat
  OBVIOUS
<1>2. \A j \in DOMAIN s : s[j].x \in Int /\ s[j].y \in Int /\ j \in Int
  <2>1. \A j \in DOMAIN s : s[j] \in Events /\ j \in Int
    BY ElementOfSeq
  <2> QED BY <2>1 DEF Events
<1>3. q[1] \in Int /\ q[2] \in Int /\ q = <<q[1], q[2]>>
  BY <1>2 DEF Touched, PixelOf
<1>4. \A j \in DOMAIN s : Rank(s, j) \in R <=> j \in J
  <2> SUFFICES ASSUME NEW j \in DOMAIN s PROVE Rank(s, j) \in R <=> j \in J
    OBVIOUS
  <2>1. Rank(s, j) \in R <=> KeyOf(PixelOf(s[j])) = KeyOf(q)
    BY RankPlaces, SortedAt DEF RunOf
  <2>2. KeyOf(PixelOf(s[j])) = KeyOf(q) <=> PixelOf(s[j]) = q
    BY <1>3 DEF KeyOf, PixelOf
  <2> QED BY <2>1, <2>2
<1>5. \A r \in R : r \in 1..Len(s)
  BY DEF RunOf
<1>6. \A j \in J : j \in DOMAIN s
  OBVIOUS
<1>7. J # {}
  BY DEF Touched
<1>8. IsFiniteSet(J)
  <2>1. J \in SUBSET 1..Len(s)
    BY <1>1
  <2>2. IsFiniteSet(1..Len(s))
    BY ONLY <1>1, 1 \in Int, Len(s) \in Int, FS_Interval
  <2> HIDE DEF J
  <2> QED BY <2>1, <2>2, FS_Subset
<1>9. Tally(s, q) = Cardinality(J)
  BY DEF Tally
<1>10. \A j \in J : s[j].x = q[1] /\ s[j].y = q[2]
  BY DEF PixelOf
<1>11. \A j \in DOMAIN s : s[j].x = q[1] /\ s[j].y = q[2] => j \in J
  BY <1>3 DEF PixelOf
<1> HIDE DEF J, R
<1>12. IsFiniteSet(R) /\ Cardinality(R) = Cardinality(J)
  <2> DEFINE f == [j \in J |-> Rank(s, j)]
  <2>1. /\ \A j \in J : f[j] \in R
        /\ \A i, j \in J : f[i] = f[j] => i = j
    BY <1>4, <1>6, RankPlaces
  <2>2. \A r \in R : \E j \in J : f[j] = r
    BY <1>4, <1>5, RankPlaces
  <2> HIDE DEF f
  <2> QED BY <1>8, <2>1, <2>2, SameCardinality
<1>13. R # {}
  BY <1>4, <1>6, <1>7
<1>14. R \in SUBSET Nat
  BY <1>1, <1>5
<1>15. ASSUME NEW u \in R, NEW v \in R, NEW r \in Nat, u <= r, r <= v PROVE r \in R
  <2>1. u \in 1..Len(s) /\ v \in 1..Len(s)
    BY <1>5
  <2>2. r \in 1..Len(s)
    BY <1>1, <1>15, <2>1
  <2>3. PICK j \in DOMAIN s : Rank(s, j) = r
    BY <2>2, RankPlaces
  <2>4. PICK k \in DOMAIN s : Rank(s, k) = u
    BY <2>1, RankPlaces
  <2>5. PICK l \in DOMAIN s : Rank(s, l) = v
    BY <2>1, RankPlaces
  <2>6. k \in J /\ l \in J
    BY <1>4, <2>4, <2>5
  <2>7. k = j \/ Before(s, k, j)
    <3>1. u = r \/ u < r
      BY <1>15, <2>1
    <3> QED BY <2>3, <2>4, <3>1, RankPlaces
  <2>8. j = l \/ Before(s, j, l)
    <3>1. r = v \/ r < v
      BY <1>15, <2>1
    <3> QED BY <2>3, <2>5, <3>1, RankPlaces
  <2>9. CASE k = j \/ j = l
    BY <1>4, <2>3, <2>6, <2>9
  <2>10. CASE Before(s, k, j) /\ Before(s, j, l)
    <3>1. s[k].x = q[1] /\ s[k].y = q[2] /\ s[l].x = q[1] /\ s[l].y = q[2]
      BY <1>10, <2>6
    <3>2. s[j].x = q[1] /\ s[j].y = q[2]
      BY <1>2, <1>3, <2>10, <3>1, SMTT(20) DEF Before
    <3> QED BY <1>4, <1>11, <2>3, <3>2
  <2> QED BY <2>7, <2>8, <2>9, <2>10
<1> QED BY <1>9, <1>12, <1>13, <1>14, <1>15 DEF R

\* A run starts at the first of the keys of a pixel and has all of them.
LEMMA RunStarts ==
    ASSUME NEW s \in Seq(Events), NEW i \in Starts(Sorted(s))
    PROVE  LET k == Sorted(s)
               q == <<k[i][2], k[i][1]>>
           IN  /\ q \in Touched(s)
               /\ i \in RunOf(s, q) /\ \A r \in RunOf(s, q) : i <= r
               /\ RunFrom(k, i) = Tally(s, q)
<1> DEFINE k == Sorted(s)
           q == <<k[i][2], k[i][1]>>
           n == Len(s)
           R == RunOf(s, q)
           m == Tally(s, q)
<1>1. DOMAIN s = 1..n /\ n \in Nat /\ DOMAIN k = 1..n /\ Len(k) = n
  BY SortedAt
<1>2. i \in 1..n /\ (i = 1 \/ k[i] # k[i - 1])
  BY <1>1 DEF Starts
<1>3. PICK j \in DOMAIN s : Rank(s, j) = i
  BY <1>2, RankPlaces
<1>4. k[i] = KeyOf(PixelOf(s[j]))
  BY <1>3, SortedAt
<1>5. q = PixelOf(s[j]) /\ k[i] = KeyOf(q)
  BY <1>4 DEF KeyOf, PixelOf
<1>6. q \in Touched(s)
  BY <1>5 DEF Touched
<1>7. \A r : r \in R <=> r \in 1..n /\ k[r] = KeyOf(q)
  BY DEF RunOf
<1>8. i \in R
  BY <1>2, <1>5, <1>7
<1>9. /\ IsFiniteSet(R) /\ Cardinality(R) = m /\ R \in SUBSET Nat
      /\ \A u, v \in R : \A r \in Nat : u <= r /\ r <= v => r \in R
  BY <1>6, RunsAre
<1> HIDE DEF k, q, n, R, m
<1>10. \A r \in R : i <= r
  <2> SUFFICES ASSUME NEW r \in R, r < i PROVE FALSE
    BY <1>2, <1>9
  <2>1. i - 1 \in Nat /\ r <= i - 1 /\ i - 1 <= i /\ i # 1
    BY <1>2, <1>7
  <2>2. i - 1 \in R
    BY <1>8, <1>9, <2>1
  <2>3. k[i - 1] = KeyOf(q)
    BY <1>7, <2>2
  <2> QED BY <1>2, <1>5, <2>1, <2>3
<1>11. R = i..i + m - 1
  BY <1>8, <1>9, <1>10, NoGaps
<1>12. m \in Nat /\ m > 0
  <2>1. m \in 0..n /\ m > 0
    BY <1>6, TallyType DEF m, n
  <2> QED BY <1>1, <2>1
<1> DEFINE b == i + m
           L == {x \in Starts(k) : x > i} \cup {n + 1}
<1>13. i \in Nat /\ b \in Nat /\ i < b /\ b - 1 \in R /\ b \notin R
  <2>1. i \in Int
    BY <1>1, <1>2
  <2> QED BY <1>2, <1>11, <1>12, <2>1
<1> HIDE DEF b
<1>14. b <= n + 1
  <2>1. b - 1 \in 1..n
    BY <1>7, <1>13
  <2> QED BY <1>1, <1>13, <2>1
<1>15. b \in L
  <2>1. CASE b = n + 1
    BY <2>1
  <2>2. CASE b # n + 1
    <3>1. b \in 1..n
      BY <1>1, <1>2, <1>13, <1>14, <2>2
    <3>2. k[b] # k[b - 1]
      BY <1>7, <1>13, <3>1
    <3>3. b \in Starts(k)
      BY <1>1, <3>1, <3>2 DEF Starts
    <3> QED BY <1>13, <3>3
  <2> QED BY <2>1, <2>2
<1>16. \A x \in L : x \in Int /\ b <= x
  <2> SUFFICES ASSUME NEW x \in L PROVE x \in Int /\ b <= x
    OBVIOUS
  <2>1. CASE x = n + 1
    BY <1>1, <1>14, <2>1
  <2>2. CASE x \in Starts(k) /\ x > i
    <3>1. x \in 1..n /\ (x = 1 \/ k[x] # k[x - 1])
      BY <1>1, <2>2 DEF Starts
    <3>2. ASSUME x < b PROVE FALSE
      <4>1. x \in R /\ x - 1 \in R
        BY <1>1, <1>2, <1>11, <1>12, <2>2, <3>1, <3>2 DEF b
      <4>2. k[x] = k[x - 1]
        BY <1>7, <4>1
      <4>3. x # 1
        BY <1>2, <2>2
      <4> QED BY <3>1, <4>2, <4>3
    <3> QED BY <1>13, <3>1, <3>2
  <2> QED BY <2>1, <2>2
<1>17. Min(L) = b
  <2>1. L \in SUBSET Int
    BY <1>16
  <2> HIDE DEF L
  <2> QED BY <1>15, <1>16, <2>1, MinMaxAre
<1>18. RunFrom(k, i) = Min(L) - i
  BY <1>1 DEF RunFrom
<1>19. RunFrom(k, i) = m
  <2> HIDE DEF L
  <2>1. b - i = m
    BY <1>12, <1>13 DEF b
  <2> QED BY <1>17, <1>18, <2>1
<1> QED BY <1>6, <1>8, <1>10, <1>19 DEF k, q, m, R

\* The runs of a length are those of the pixels that have as many events.
LEMMA SparseCounts ==
    ASSUME NEW s \in Seq(Events), NEW c
    PROVE  LET k == Sorted(s)
           IN  Cardinality({i \in Starts(k) : RunFrom(k, i) = c}) = Cardinality(Sharing(s, c))
<1> DEFINE k == Sorted(s)
           P == {i \in Starts(k) : RunFrom(k, i) = c}
           Q(i) == <<k[i][2], k[i][1]>>
           F == [i \in P |-> Q(i)]
<1>1. ASSUME NEW i \in Starts(k)
      PROVE  /\ Q(i) \in Touched(s) /\ i \in RunOf(s, Q(i)) /\ \A r \in RunOf(s, Q(i)) : i <= r
             /\ RunFrom(k, i) = Tally(s, Q(i))
  BY RunStarts
<1>2. \A i \in Starts(k) : i \in 1..Len(s)
  BY SortedAt DEF Starts
<1>3. \A i \in P : F[i] \in Sharing(s, c)
  BY <1>1 DEF Sharing
<1>4. ASSUME NEW i \in P, NEW j \in P, F[i] = F[j] PROVE i = j
  <2>1. Q(i) = Q(j) /\ i \in Starts(k) /\ j \in Starts(k)
    BY <1>4
  <2> HIDE DEF Q, k
  <2>2. i <= j /\ j <= i
    BY <1>1, <2>1
  <2>3. i \in Int /\ j \in Int
    BY <1>2, <2>1
  <2> QED BY <2>2, <2>3
<1>5. ASSUME NEW q \in Sharing(s, c) PROVE \E i \in P : F[i] = q
  <2>1. q \in Touched(s) /\ Tally(s, q) = c
    BY DEF Sharing
  <2>2. RunOf(s, q) # {} /\ RunOf(s, q) \in SUBSET Nat
    BY <2>1, RunsAre
  <2>3. PICK i \in RunOf(s, q) : \A r \in RunOf(s, q) : i <= r
    BY <2>2, Least
  <2>4. i \in 1..Len(s) /\ k[i] = KeyOf(q)
    BY <2>3 DEF RunOf
  <2>5. Q(i) = q
    <3>1. q = <<q[1], q[2]>>
      BY <2>1 DEF Touched, PixelOf
    <3> QED BY <2>4, <3>1 DEF KeyOf
  <2>6. i = 1 \/ k[i] # k[i - 1]
    <3> SUFFICES ASSUME i # 1, k[i] = k[i - 1] PROVE FALSE
      OBVIOUS
    <3>1. i \in Nat /\ i - 1 \in 1..Len(s)
      BY <2>4
    <3>2. i - 1 \in RunOf(s, q)
      BY <2>4, <3>1 DEF RunOf
    <3>3. i <= i - 1
      BY <2>3, <3>2
    <3> QED BY <3>1, <3>3
  <2>7. i \in Starts(k)
    BY <2>4, <2>6, SortedAt DEF Starts
  <2>8. RunFrom(k, i) = c
    BY <1>1, <2>1, <2>5, <2>7
  <2> QED BY <2>5, <2>7, <2>8
<1>6. IsFiniteSet(P)
  <2>1. IsFiniteSet(1..Len(s))
    BY ONLY Len(s) \in Int, 1 \in Int, FS_Interval
  <2>2. P \in SUBSET 1..Len(s)
    BY <1>2
  <2> HIDE DEF P
  <2> QED BY <2>1, <2>2, FS_Subset
<1> HIDE DEF P, F
<1>7. Cardinality(Sharing(s, c)) = Cardinality(P)
  BY <1>3, <1>4, <1>5, <1>6, SameCardinality
<1> QED BY <1>7 DEF P, k

\* Whichever way the events are counted, fn is called for each pixel with an event.
LEMMA BagIs ==
    ASSUME NEW s \in Seq(Events), Boxed(Bounds(s), s)
    PROVE  CountsBag(s) = [c \in 1..Len(s) |-> Cardinality(Sharing(s, c))]
<1> DEFINE counts == CountsOverBox(s)
           keys == Sorted(s)
           D(c) == Cardinality({i \in DOMAIN counts : counts[i] = c})
           S(c) == Cardinality({i \in Starts(keys) : RunFrom(keys, i) = c})
<1>1. CountsBag(s) = [c \in 1..Len(s) |-> IF Dense(s) THEN D(c) ELSE S(c)]
  BY DEF CountsBag
<1>2. \A c \in 1..Len(s) : D(c) = Cardinality(Sharing(s, c))
  BY DenseCounts
<1>3. \A c \in 1..Len(s) : S(c) = Cardinality(Sharing(s, c))
  BY SparseCounts
<1> HIDE DEF D, S
<1> QED BY <1>1, <1>2, <1>3

\* How many pixels have c events, and which those are.
LEMMA SharingType ==
    ASSUME NEW s \in Seq(Events), NEW c
    PROVE  /\ IsFiniteSet(Sharing(s, c)) /\ Cardinality(Sharing(s, c)) \in Nat
           /\ Cardinality(Sharing(s, c)) > 0 <=> \E q \in Touched(s) : Tally(s, q) = c
<1>1. IsFiniteSet(Sharing(s, c))
  BY TallyType, FS_Subset DEF Sharing
<1>2. Cardinality(Sharing(s, c)) \in Nat /\ (Cardinality(Sharing(s, c)) = 0 <=> Sharing(s, c) = {})
  BY <1>1, FS_CardinalityType, FS_EmptySet
<1>3. Sharing(s, c) # {} <=> \E q \in Touched(s) : Tally(s, q) = c
  BY DEF Sharing
<1> QED BY <1>1, <1>2, <1>3

\* The active pixels, the peak and the terms of the entropy, from the calls of fn.
LEMMA ActiveIs ==
    ASSUME NEW s \in Seq(Events), Boxed(Bounds(s), s)
    PROVE  ActivePixels(s) = Cardinality(Touched(s))
<1> DEFINE n == Len(s)
           bag == CountsBag(s)
           C == [c \in 1..n |-> Sharing(s, c)]
<1>1. bag = [c \in 1..n |-> Cardinality(Sharing(s, c))]
  BY BagIs
<1>2. n \in Nat
  OBVIOUS
<1> HIDE DEF bag
<1>3. ActivePixels(s) = Total(bag, 1..n)
  BY <1>1 DEF ActivePixels, Sum, Total, bag
<1>4. IsFiniteSet(1..n)
  BY ONLY <1>2, 1 \in Int, n \in Int, FS_Interval
<1>5. \A c \in 1..n : C[c] \in SUBSET Touched(s) /\ bag[c] = Cardinality(C[c])
  BY <1>1 DEF Sharing
<1>6. \A c, d \in 1..n : c # d => C[c] \cap C[d] = {}
  BY DEF Sharing
<1>7. \A q : q \in Touched(s) <=> \E c \in 1..n : q \in C[c]
  <2>1. \A q : Tally(s, q) \in 0..n /\ (Tally(s, q) > 0 <=> q \in Touched(s))
    BY TallyType
  <2>2. \A q \in Touched(s) : Tally(s, q) \in 1..n
    BY <1>2, <2>1
  <2> HIDE DEF n
  <2> QED BY <2>2 DEF Sharing
<1> HIDE DEF C
<1>8. IsFiniteSet(Touched(s))
  BY TallyType
<1> DEFINE S == 1..n
           B == Touched(s)
<1>9. /\ IsFiniteSet(S) /\ IsFiniteSet(B)
      /\ \A c \in S : C[c] \in SUBSET B /\ bag[c] = Cardinality(C[c])
      /\ \A c, d \in S : c # d => C[c] \cap C[d] = {}
      /\ \A q : q \in B <=> \E c \in S : q \in C[c]
  BY <1>4, <1>5, <1>6, <1>7, <1>8
<1> HIDE DEF n, S, B
<1>10. Total(bag, S) = Cardinality(B)
  BY ONLY <1>9, TotalCounts
<1> QED BY <1>3, <1>10 DEF S, B

\* The largest count that has a pixel is that of the pixel with the most events.
LEMMA PeakIs ==
    ASSUME NEW s \in Seq(Events), Boxed(Bounds(s), s), NEW p, Peaked(p, s)
    PROVE  Peak(s) = p
<1> DEFINE n == Len(s)
           bag == CountsBag(s)
           P == {c \in DOMAIN bag : bag[c] > 0}
<1>1. bag = [c \in 1..n |-> Cardinality(Sharing(s, c))]
  BY BagIs
<1>2. Peak(s) = Max(P)
  BY DEF Peak
<1> HIDE DEF bag
<1>3. \A c : c \in P <=> c \in 1..n /\ \E q \in Touched(s) : Tally(s, q) = c
  <2>1. \A c : c \in P <=> c \in 1..n /\ Cardinality(Sharing(s, c)) > 0
    BY <1>1
  <2> HIDE DEF P
  <2> QED BY <2>1, SharingType
<1> HIDE DEF P
<1>4. p \in P
  <2>1. PICK q \in Touched(s) : Tally(s, q) = p
    BY DEF Peaked
  <2>2. p \in 1..n
    <3>1. Tally(s, q) \in 0..n /\ Tally(s, q) > 0
      BY <2>1, TallyType
    <3> QED BY <2>1, <3>1
  <2> QED BY <1>3, <2>1, <2>2
<1>5. \A c \in P : c <= p
  BY <1>3 DEF Peaked
<1>6. P \in SUBSET Int
  BY <1>3
<1> QED BY <1>2, <1>4, <1>5, <1>6, MinMaxAre

\* Added up count by count, the terms are those of the pixels.
LEMMA EntropiesAre ==
    ASSUME NEW s \in Seq(Events), Boxed(Bounds(s), s), \A c \in 0..Len(s) : CLogC[c] \in Int
    PROVE  Entropies(s) = Total(Weights(s), Touched(s))
<1> DEFINE n == Len(s)
           bag == CountsBag(s)
           terms == [c \in DOMAIN bag |-> bag[c] * CLogC[c]]
           T == Touched(s)
           k == [q \in T |-> Tally(s, q)]
           f == [c \in 1..n |-> Cardinality({q \in T : k[q] = c}) * CLogC[c]]
           g == [q \in T |-> CLogC[k[q]]]
<1>1. bag = [c \in 1..n |-> Cardinality(Sharing(s, c))]
  BY BagIs
<1>2. n \in Nat
  OBVIOUS
<1>3. Entropies(s) = Sum(terms)
  BY DEF Entropies
<1> HIDE DEF bag
<1>4. \A c \in 1..n : {q \in T : k[q] = c} = Sharing(s, c)
  BY DEF Sharing
<1>5. terms = f
  <2>1. DOMAIN bag = 1..n /\ \A c \in 1..n : bag[c] = Cardinality({q \in T : k[q] = c})
    BY <1>1, <1>4
  <2> HIDE DEF k
  <2> QED BY <2>1
<1>6. DOMAIN f = 1..n
  OBVIOUS
<1> HIDE DEF terms, f
<1>7. Sum(terms) = Total(f, 1..n)
  BY <1>5, <1>6 DEF Sum, Total
<1>8. IsFiniteSet(1..n)
  BY ONLY <1>2, 1 \in Int, n \in Int, FS_Interval
<1>9. k \in [T -> 1..n]
  <2>1. \A q : Tally(s, q) \in 0..n /\ (Tally(s, q) > 0 <=> q \in T)
    BY TallyType
  <2>2. \A q \in T : Tally(s, q) \in 1..n
    BY <1>2, <2>1
  <2> QED BY <2>2
<1>10. \A c \in 1..n : CLogC[c] \in Int
  BY <1>2
<1>11. Weights(s) = g
  BY DEF Weights
<1> HIDE DEF k, T, g
<1>12. IsFiniteSet(T)
  BY TallyType DEF T
<1> DEFINE w == CLogC
           S == 1..n
<1>13. IsFiniteSet(S) /\ k \in [T -> S] /\ \A c \in S : w[c] \in Int
  BY <1>8, <1>9, <1>10
<1> HIDE DEF w, n, S
<1>14. /\ \A c \in S : f[c] = Cardinality({q \in T : k[q] = c}) * w[c]
       /\ \A q \in T : g[q] = w[k[q]]
  BY DEF f, g, w, S
<1>15. Total(f, S) = Total(g, T)
  BY ONLY <1>12, <1>13, <1>14, TotalByClass, SMTT(20)
<1> QED BY <1>3, <1>7, <1>11, <1>15 DEF T, S

\* The sum of the products of the deviations, from the sums.
LEMMA CovarianceIs ==
    ASSUME NEW n \in Nat, NEW u \in [1..n -> Int], NEW v \in [1..n -> Int]
    PROVE  Covariance(u, v) = n * (n * Sum(Times(u, v)) - Sum(u) * Sum(v))
<1> DEFINE b == Sum(u)
           d == Sum(v)
           f == [i \in 1..n |-> (n * u[i] - b) * (n * v[i] - d)]
           g == [i \in 1..n |-> u[i] * v[i]]
<1>1. DOMAIN u = 1..n /\ DOMAIN v = 1..n /\ Len(u) = n
  <2>1. u \in Seq(Int)
    OBVIOUS
  <2> QED BY <2>1
<1>2. b = Total(u, 1..n) /\ d = Total(v, 1..n)
  BY <1>1 DEF Sum, Total
<1>3. IsFiniteSet(1..n) /\ Cardinality(1..n) = n
  <2>1. n = 0 => 1 > n
    OBVIOUS
  <2> QED BY <2>1, FS_Interval
<1>4. \A i \in 1..n : u[i] \in Int /\ v[i] \in Int
  OBVIOUS
<1> HIDE DEF b, d
<1>5. b \in Int /\ d \in Int
  BY <1>2, <1>3, <1>4, TotalType
<1>6. Times(u, v) = g
  BY <1>1 DEF Times
<1>7. DOMAIN f = 1..n /\ DOMAIN g = 1..n
  OBVIOUS
<1>8. Covariance(u, v) = Sum(f)
  BY <1>1 DEF Covariance, b, d
<1>9. \A i \in 1..n : g[i] \in Int
  BY <1>4
<1> HIDE DEF f, g
<1>10. Total(f, 1..n) = n * n * Total(g, 1..n) - n * d * Total(u, 1..n)
                          - n * b * Total(v, 1..n) + b * d * Cardinality(1..n)
  <2>1. Deviations(f, g, u, v, n, b, d, 1..n)
    BY <1>4, <1>5 DEF Deviations, f, g
  <2> QED BY ONLY <1>3, <2>1, TotalProducts
<1>11. Sum(f) = Total(f, 1..n) /\ Sum(g) = Total(g, 1..n)
  BY <1>7 DEF Sum, Total
<1> DEFINE m == Sum(g)
<1>12. m \in Int
  BY <1>3, <1>9, <1>11, TotalType
<1>13. Covariance(u, v) = n * n * m - n * d * b - n * b * d + b * d * n
  BY <1>2, <1>3, <1>8, <1>10, <1>11
<1> HIDE DEF m
<1>14. n * n * m - n * d * b - n * b * d + b * d * n = n * (n * m - b * d)
  BY ONLY <1>5, <1>12, n \in Nat
<1> QED BY <1>6, <1>13, <1>14 DEF m, b, d

\* The events of each polarity.
LEMMA RatiosAre ==
    ASSUME NEW s \in Seq(Events), NEW p \in BOOLEAN
    PROVE  PolarityRatio(s, p) = IF p THEN Sum(POf(s)) ELSE Len(s) - Sum(POf(s))
<1> DEFINE n == Len(s)
           f == POf(s)
           U == {i \in DOMAIN s : s[i].p = TRUE}
           V == {i \in DOMAIN s : s[i].p = FALSE}
           C == [i \in 1..n |-> IF s[i].p THEN {i} ELSE {}]
<1>1. DOMAIN s = 1..n /\ n \in Nat /\ \A i \in 1..n : s[i].p \in BOOLEAN
  <2>1. \A i \in 1..n : s[i] \in Events
    BY ElementOfSeq
  <2> QED BY <2>1 DEF Events
<1>2. IsFiniteSet(1..n) /\ Cardinality(1..n) = n
  <2>1. n = 0 => 1 > n
    BY <1>1
  <2> QED BY <1>1, <2>1, FS_Interval
<1>3. DOMAIN f = 1..n /\ \A i \in 1..n : f[i] = IF s[i].p THEN 1 ELSE 0
  BY <1>1 DEF POf, Sign
<1>4. \A i \in 1..n : C[i] \in SUBSET (1..n) /\ f[i] = Cardinality(C[i])
  BY <1>3, FS_EmptySet, FS_Singleton
<1>5. \A i, j \in 1..n : i # j => C[i] \cap C[j] = {}
  OBVIOUS
<1>6. \A i : i \in U <=> \E j \in 1..n : i \in C[j]
  BY <1>1
<1>7. U \in SUBSET (1..n) /\ V = (1..n) \ U
  <2>1. \A i : i \in V <=> i \in 1..n /\ i \notin U
    BY <1>1
  <2>2. \A i \in U : i \in 1..n
    BY <1>1
  <2> HIDE DEF U, V
  <2> QED BY <2>1, <2>2
<1> HIDE DEF C, f, U, V
<1>8. Total(f, 1..n) = Cardinality(U)
  BY <1>2, <1>4, <1>5, <1>6, TotalCounts, SMTT(20)
<1>9. Sum(f) = Cardinality(U)
  BY <1>3, <1>8 DEF Sum, Total
<1>10. Cardinality(V) = n - Cardinality(U)
  <2>1. (1..n) \cap U = U
    BY <1>7
  <2>2. Cardinality((1..n) \ U) = Cardinality(1..n) - Cardinality((1..n) \cap U)
    BY ONLY <1>2, FS_Difference
  <2> QED BY ONLY <1>2, <1>7, <2>1, <2>2
<1>11. CASE p = TRUE
  <2>1. PolarityRatio(s, p) = Cardinality(U)
    BY <1>11 DEF PolarityRatio, U
  <2> QED BY <1>9, <1>11, <2>1 DEF f
<1>12. CASE p = FALSE
  <2>1. PolarityRatio(s, p) = Cardinality(V)
    BY <1>12 DEF PolarityRatio, V
  <2> QED BY <1>9, <1>10, <1>12, <2>1 DEF f
<1> QED BY <1>11, <1>12

\* The accumulators give what the events do.
LEMMA SumsAgree ==
    ASSUME NEW s \in Seq(Events), s # <<>>, NEW u, SumsInv(u, s),
           \A c \in 0..Len(s) : CLogC[c] \in Int
    PROVE  FromSums(u) = FromEvents(s)
<1> DEFINE n == Len(s)
<1>1. n \in Nat /\ DOMAIN s = 1..n
  OBVIOUS
<1>2. /\ u.n = n
      /\ u.x = Sum(XOf(s)) /\ u.y = Sum(YOf(s)) /\ u.t = Sum(TOf(s)) /\ u.p = Sum(POf(s))
      /\ u.xx = Sum(Times(XOf(s), XOf(s))) /\ u.yy = Sum(Times(YOf(s), YOf(s)))
      /\ u.xy = Sum(Times(XOf(s), YOf(s)))
      /\ u.active = Cardinality(Touched(s)) /\ u.cLogC = Total(Weights(s), Touched(s))
  BY DEF SumsInv
<1>3. /\ u.first = s[1].t /\ u.last = s[Len(s)].t
      /\ Boxed(u.bounds, s) /\ Peaked(u.peak, s)
  BY DEF SumsInv
<1>4. XOf(s) \in [1..n -> Int] /\ YOf(s) \in [1..n -> Int]
  <2>1. \A i \in 1..n : s[i] \in Events
    BY ElementOfSeq
  <2> QED BY <1>1, <2>1 DEF XOf, YOf, Events
<1> HIDE DEF n
<1>5. Bounds(s) = u.bounds /\ Boxed(Bounds(s), s)
  BY <1>3, BoundsAre
<1>6. ActivePixels(s) = u.active /\ Peak(s) = u.peak /\ Entropies(s) = u.cLogC
  BY <1>2, <1>3, <1>5, ActiveIs, PeakIs, EntropiesAre
<1>7. /\ Covariance(XOf(s), XOf(s)) = u.n * (u.n * u.xx - u.x * u.x)
      /\ Covariance(XOf(s), YOf(s)) = u.n * (u.n * u.xy - u.x * u.y)
      /\ Covariance(YOf(s), YOf(s)) = u.n * (u.n * u.yy - u.y * u.y)
  BY <1>1, <1>2, <1>4, CovarianceIs
<1>8. [p \in BOOLEAN |-> PolarityRatio(s, p)] = [p \in BOOLEAN |-> IF p THEN u.p ELSE u.n - u.p]
  BY <1>2, RatiosAre DEF n
<1>9. Duration(s) = u.last - u.first /\ MidTime(s) = u.first + u.last
  BY <1>3 DEF Duration, MidTime
<1>10. Mean(s) = << <<u.x, u.y>>, u.t, 2 * u.p > u.n>>
  BY <1>2 DEF Mean, MeanPoint, MeanTime, n
<1>11. Len(s) = u.n
  BY <1>2 DEF n
<1> QED BY <1>5, <1>6, <1>7, <1>8, <1>9, <1>10, <1>11 DEF FromSums, FromEvents

\* The box has the counts of the events, and the sums are theirs.
StatsAccounted == CountsInv(stats.box, stats.counts, pushed) /\ SumsInv(stats.sums, pushed)

\* No more events were pushed than have arrived, so that CLogC has their counts.
PushedWithin ==
    /\ events \in Nat /\ events <= program.events /\ Len(pushed) <= events
    /\ flight # <<>> => Len(pushed) < events

\* An event that arrives is one more of those that there can be.
LEMMA PushedWithinKept ==
    ASSUME IInv, ContainersInv, PushedWithin, [Next]_vars
    PROVE  PushedWithin'
<1>1. /\ pushed \in Seq(Events) /\ Len(pushed) \in Nat /\ program \in Programs
      /\ program.events \in Nat
  <2>1. pushed \in Seq(Events) /\ program \in Programs
    BY DEF ContainersInv, PushedInv, Timed, IInv, FlightInv
  <2>2. program.events \in Nat
    BY <2>1, ProgramsAssumption
  <2> QED BY <2>1, <2>2
<1>2. CASE Arrive
  <2>1. /\ flight = <<>> /\ events < program.events /\ events' = events + 1
        /\ pushed' = pushed /\ program' = program
    BY <1>2 DEF Arrive, containers
  <2> QED BY <1>1, <2>1 DEF PushedWithin
<1>3. CASE AskBackground \/ AskRefractory \/ AskHot \/ Undistort \/ Show
  <2>1. /\ flight # <<>> /\ events' = events /\ pushed' = pushed /\ program' = program
    BY <1>3 DEF AskBackground, AskRefractory, AskHot, Ask, Undistort, Show, Passed, containers
  <2> QED BY <1>1, <2>1 DEF PushedWithin
<1>4. CASE Store
  <2>1. /\ flight # <<>> /\ flight' = <<>> /\ events' = events /\ program' = program
        /\ pushed' = Append(pushed, flight[1])
    BY <1>4 DEF Store, Passed, Push
  <2>2. Len(pushed') = Len(pushed) + 1
    BY <1>1, <2>1
  <2> QED BY <1>1, <2>1, <2>2 DEF PushedWithin
<1>5. CASE SetFilters \/ SetRepresentations \/ SetContainers \/ UNCHANGED vars
  <2>1. flight' = flight /\ events' = events /\ program' = program
    BY <1>5 DEF SetFilters, SetRepresentations, SetContainers, Setting, vars
  <2>2. pushed' = pushed \/ (pushed' = <<>> /\ flight = <<>>)
    BY <1>5 DEF SetFilters, SetRepresentations, SetContainers, Setting, SetWindow, Clear,
                containers, vars
  <2>3. Len(<<>>) = 0
    OBVIOUS
  <2> QED BY <1>1, <2>1, <2>2, <2>3 DEF PushedWithin
<1> QED BY <1>2, <1>3, <1>4, <1>5 DEF Next

\* A push accounts for its event, and clear() forgets the sums and keeps the box.
LEMMA StatsAccountedKept ==
    ASSUME IInv, ContainersInv, StatsInv, PushedWithin, StatsAccounted, [Next]_vars
    PROVE  StatsAccounted'
<1>1. pushed \in Seq(Events) /\ program \in Programs
  BY DEF ContainersInv, PushedInv, Timed, IInv, FlightInv
<1>2. CASE UNCHANGED <<stats, pushed>>
  BY <1>2 DEF StatsAccounted
<1>3. CASE Store
  <2> DEFINE e == flight[1]
             box == Extent(e)
             counts == CountsIn(box)
             i == Index(box, e.x, e.y)
             grown == [counts EXCEPT ![i] = @ + 1]
             sums == Summed(stats.sums, e, counts[i])
  <2>1. stats' = [box |-> box, counts |-> grown, sums |-> sums] /\ pushed' = Append(pushed, e)
    BY <1>3 DEF Store, Push, Accounted
  <2>2. flight # <<>>
    BY <1>3 DEF Store, Passed
  <2>3. e \in Events
    BY <2>2 DEF IInv, FlightInv
  <2>4. counts[i] = Tally(pushed, PixelOf(e)) /\ CountsInv(box, grown, Append(pushed, e))
    BY <1>1, <2>3, CountsPush DEF StatsAccounted
  <2>5. \A c \in 0..Len(pushed) + 1 : CLogC[c] \in Int
    <3>1. /\ program.events \in Nat /\ 0..program.events \subseteq DOMAIN CLogC
      BY <1>1, ProgramsAssumption
    <3>2. Len(pushed) + 1 <= program.events /\ Len(pushed) \in Nat
      BY <1>1, <2>2, <3>1 DEF PushedWithin
    <3>3. \A c \in 0..Len(pushed) + 1 : c \in 0..program.events
      BY <3>1, <3>2
    <3> QED BY <3>1, <3>3, CLogCAssumption
  <2>6. SumsInv(Summed(stats.sums, e, Tally(pushed, PixelOf(e))), Append(pushed, e))
    <3>1. SumsInv(stats.sums, pushed)
      BY DEF StatsAccounted
    <3> HIDE DEF e
    <3> QED BY <1>1, <2>3, <2>5, <3>1, SumsPush, CLogCAssumption
  <2>7. SumsInv(sums, Append(pushed, e))
    BY <2>4, <2>6
  <2> HIDE DEF e, box, counts, i, grown, sums
  <2>8. stats'.box = box /\ stats'.counts = grown /\ stats'.sums = sums
    BY <2>1
  <2> QED BY <2>1, <2>4, <2>7, <2>8 DEF StatsAccounted
<1>4. CASE SetContainers /\ Clear
  <2> DEFINE zeros == [i \in DOMAIN stats.counts |-> 0]
  <2>1. stats' = [stats EXCEPT !.sums = NoSums, !.counts = zeros] /\ pushed' = <<>>
    BY <1>4 DEF Clear, Cleared
  <2>2. DOMAIN zeros = 0..stats.box.w * stats.box.h - 1
    BY DEF StatsInv
  <2>3. zeros \in [0..stats.box.w * stats.box.h - 1 -> Nat]
    BY <2>2
  <2>4. \A x, y \in Int : Holds(stats.box, x, y) =>
          zeros[Index(stats.box, x, y)] = Tally(<<>>, <<x, y>>)
    <3> SUFFICES ASSUME NEW x \in Int, NEW y \in Int, Holds(stats.box, x, y)
                 PROVE  zeros[Index(stats.box, x, y)] = Tally(<<>>, <<x, y>>)
      OBVIOUS
    <3>1. stats.box \in Boxes
      <4>1. ~Holds(NoRect, x, y)
        BY DEF NoRect, Holds
      <4> QED BY <4>1 DEF StatsAccounted, CountsInv
    <3>2. Index(stats.box, x, y) \in DOMAIN zeros
      BY <2>2, <3>1, BoxPlaces
    <3>3. Tally(<<>>, <<x, y>>) = 0
      <4>1. {j \in DOMAIN <<>> : PixelOf(<<>>[j]) = <<x, y>>} = {}
        OBVIOUS
      <4> QED BY <4>1, FS_EmptySet DEF Tally
    <3> QED BY <3>2, <3>3
  <2> HIDE DEF zeros
  <2>5. CountsInv(stats.box, zeros, <<>>)
    <3>1. DOMAIN <<>> = {}
      OBVIOUS
    <3> QED BY <2>3, <2>4, <3>1 DEF StatsAccounted, CountsInv
  <2>6. stats'.box = stats.box /\ stats'.counts = zeros /\ stats'.sums = NoSums
    BY <2>1 DEF StatsInv
  <2> QED BY <2>1, <2>5, <2>6, NoSumsInv DEF StatsAccounted
<1>5. CASE \/ Arrive \/ AskBackground \/ AskRefractory \/ AskHot \/ Undistort \/ Show
           \/ SetFilters \/ SetRepresentations \/ UNCHANGED vars
  <2>1. UNCHANGED <<stats, pushed>>
    BY <1>5 DEF Arrive, AskBackground, AskRefractory, AskHot, Ask, Undistort, Show, Passed,
                SetFilters, SetRepresentations, Setting, containers, vars
  <2> QED BY <1>2, <2>1
<1>6. CASE SetContainers /\ SetWindow
  BY <1>2, <1>6 DEF SetWindow
<1>7. CASE SetContainers
  BY <1>4, <1>6, <1>7 DEF SetContainers
<1> QED BY <1>3, <1>5, <1>7 DEF Next

\* The statistics kept up to date one event at a time, in a box that grows in any
\* direction, are those that Stats_ computes over the same events, whichever way
\* it counts the events of a pixel, whatever the events and the calls between them.
THEOREM StatisticsAgree == Spec => []StatsAgree
<1>1. Init => StatsInv /\ PushedWithin /\ StatsAccounted
  <2> SUFFICES ASSUME Init PROVE StatsInv /\ PushedWithin /\ StatsAccounted
    OBVIOUS
  <2>1. /\ stats = [box |-> NoRect, counts |-> [i \in {} |-> 0], sums |-> NoSums]
        /\ pushed = <<>> /\ flight = <<>> /\ events = 0 /\ program \in Programs
    BY DEF Init, ContainersInit
  <2>2. 0..NoRect.w * NoRect.h - 1 = {} /\ \A x, y \in Int : ~Holds(NoRect, x, y)
    BY DEF NoRect, Holds
  <2>3. StatsInv
    BY <2>1, <2>2 DEF StatsInv
  <2>4. PushedWithin
    <3>1. program.events \in Nat
      BY <2>1, ProgramsAssumption
    <3>2. Len(<<>>) = 0
      OBVIOUS
    <3> QED BY <2>1, <3>1, <3>2 DEF PushedWithin
  <2>5. CountsInv(NoRect, [i \in {} |-> 0], <<>>)
    BY <2>2 DEF CountsInv
  <2> QED BY <2>1, <2>3, <2>4, <2>5, NoSumsInv DEF StatsAccounted
<1>2. StatsInv /\ [Next]_vars => StatsInv'
  BY StatsKeep
<1>3. IInv /\ ContainersInv /\ PushedWithin /\ [Next]_vars => PushedWithin'
  BY PushedWithinKept
<1>4. IInv /\ ContainersInv /\ StatsInv /\ PushedWithin /\ StatsAccounted /\ [Next]_vars
        => StatsAccounted'
  BY StatsAccountedKept
<1>5. IInv /\ ContainersInv /\ PushedWithin /\ StatsAccounted => StatsAgree
  <2> SUFFICES ASSUME IInv, ContainersInv, PushedWithin, StatsAccounted, pushed # <<>>
               PROVE  FromSums(stats.sums) = FromEvents(pushed)
    BY DEF StatsAgree
  <2>1. pushed \in Seq(Events) /\ program \in Programs
    BY DEF ContainersInv, PushedInv, Timed, IInv, FlightInv
  <2>2. \A c \in 0..Len(pushed) : CLogC[c] \in Int
    <3>1. program.events \in Nat /\ 0..program.events \subseteq DOMAIN CLogC
      BY <2>1, ProgramsAssumption
    <3>2. Len(pushed) <= program.events /\ Len(pushed) \in Nat
      BY <2>1, <3>1 DEF PushedWithin
    <3>3. \A c \in 0..Len(pushed) : c \in 0..program.events
      BY <3>1, <3>2
    <3> QED BY <3>1, <3>3, CLogCAssumption
  <2> QED BY <2>1, <2>2, SumsAgree DEF StatsAccounted
<1> QED BY <1>1, <1>2, <1>3, <1>4, <1>5, Invariant, ContainersInvariant, PTL DEF Spec
===============================================================================
