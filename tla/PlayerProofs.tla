------------------------------ MODULE PlayerProofs ------------------------------
(***************************************************************************)
(* What Player promises between two calls, proved for every recording,     *)
(* whatever batches and levels its reader has.                             *)
(*                                                                         *)
(* In the middle of a call the delivered events, frames and measurements   *)
(* may be fewer than are due, never more; each of the three loops of       *)
(* next() ends when the next of its kind is not due, and what it has       *)
(* delivered then is what the sorted times say.                            *)
(***************************************************************************)
EXTENDS Player, Integers, TLAPS

-------------------------------------------------------------------------------
(* The invariant.                                                          *)

\* The first n of the times, and a playhead that has come to all of them.
Reached(times, n) == \A i \in 1..n : times[i] <= playhead

\* The playhead has not come to the one after them, if there is one.
Ahead(times, n) == n < Len(times) => playhead < times[n + 1]

\* A pass that has no anchor has delivered no event, and its playhead is at zero.
PassInv ==
    /\ ~anchored => taken = 0 /\ playhead = 0
    /\ anchored /\ EventTimes # <<>> => playhead >= EventTimes[1]

\* Nothing is delivered early.
EarlyInv ==
    /\ Reached(EventTimes, taken)
    /\ Reached(FrameTimes, frame)
    /\ Reached(SampleTimes, sample)

\* Nothing is late, of what the loops behind pc have delivered.
LateInv ==
    /\ pc = "play" => anchored /\ ~finished
    /\ anchored /\ ~finished =>
         /\ pc # "play" => Ahead(EventTimes, taken)
         /\ pc \in {"imu", "idle"} /\ kind # "events" => Ahead(FrameTimes, frame)
         /\ pc = "idle" /\ kind = "imu" => Ahead(SampleTimes, sample)
    /\ finished => taken = Len(EventTimes)

IInv == TypeOK /\ PassInv /\ EarlyInv /\ LateInv

-------------------------------------------------------------------------------
(* Times, and the reader.                                                  *)

\* The times of a recording are numbers.
LEMMA Times ==
    /\ EventTimes \in Seq(Nat) /\ Sorted(EventTimes)
    /\ FrameTimes \in Seq(Nat) /\ Sorted(FrameTimes)
    /\ SampleTimes \in Seq(Nat) /\ Sorted(SampleTimes)
BY TimesAssumption

\* Of sorted times, those that are reached are the ones that are delivered.
LEMMA Prefix ==
    ASSUME NEW times \in Seq(Nat), Sorted(times), NEW n \in 0..Len(times),
           playhead \in Nat, Reached(times, n), Ahead(times, n)
    PROVE  \A i \in 1..Len(times) : i <= n <=> times[i] <= playhead
<1> SUFFICES ASSUME NEW i \in 1..Len(times), i > n PROVE ~(times[i] <= playhead)
  BY DEF Reached
<1>1. n + 1 \in 1..Len(times) /\ playhead < times[n + 1]
  BY DEF Ahead
<1>2. times[n + 1] <= times[i]
  <2>1. CASE i = n + 1
    BY <1>1, <2>1
  <2>2. CASE n + 1 < i
    BY <1>1, <2>2 DEF Sorted
  <2> QED BY <2>1, <2>2
<1>3. times[n + 1] \in Nat /\ times[i] \in Nat
  BY <1>1
<1> QED BY <1>1, <1>2, <1>3

\* A batch is not empty, and no larger than the level.
LEMMA BatchSizeType == TypeOK => BatchSize \in Nat \ {0} /\ (level > 0 => BatchSize <= level)
BY ArgumentAssumption DEF TypeOK, BatchSize, Lesser

\* The reader gives no event that the file has not, and, asked with an empty queue
\* before the end of the file, at least one.
LEMMA FilledType ==
    ASSUME TypeOK, NEW t \in 0..Len(EventTimes), NEW d \in Filled(BatchSize, t, t)
    PROVE  d \in t..Len(EventTimes) /\ (t < Len(EventTimes) => d > t)
<1>1. Len(EventTimes) \in Nat /\ level \in Nat
  BY Times, ArgumentAssumption DEF TypeOK
<1>2. BatchSize \in Nat \ {0}
  BY BatchSizeType
<1>3. CASE level = 0
  BY <1>1, <1>2, <1>3 DEF Filled, Lesser
<1>4. CASE level # 0
  BY <1>1, <1>2, <1>4 DEF Filled
<1> QED BY <1>3, <1>4

\* Time does not run backwards.
LEMMA ElapsedType == TypeOK => Elapsed \in Nat
<1> SUFFICES ASSUME TypeOK PROVE Elapsed \in Nat
  OBVIOUS
<1>1. since \in Nat /\ speed \in Nat
  BY ArgumentAssumption, BoundAssumption DEF TypeOK
<1>2. since * speed \in Nat
  BY <1>1
<1> QED BY <1>2 DEF Elapsed

-------------------------------------------------------------------------------
(* The invariant holds.                                                    *)

\* The invariant holds at first.
LEMMA InitHolds == Init => IInv
<1> SUFFICES ASSUME Init PROVE IInv
  OBVIOUS
<1>1. /\ Len(EventTimes) \in Nat /\ Len(FrameTimes) \in Nat /\ Len(SampleTimes) \in Nat
      /\ MaxGap \in Nat
  BY Times, BoundAssumption
<1>2. TypeOK
  <2>1. {started, paused, loop, finished, anchored} \subseteq BOOLEAN
    BY DEF Init
  <2>2. cursor \in taken..Len(EventTimes) /\ since \in 0..MaxGap
    BY <1>1 DEF Init
  <2> QED BY <1>1, <2>1, <2>2 DEF Init, TypeOK, Kinds
<1>3. PassInv /\ EarlyInv /\ LateInv
  BY <1>1 DEF Init, PassInv, EarlyInv, LateInv, Reached
<1> QED BY <1>2, <1>3 DEF IInv

\* The playhead moves forward, and nothing is delivered.
LEMMA Moves ==
    ASSUME IInv, playhead' \in Nat, playhead <= playhead', UNCHANGED <<taken, frame, sample>>
    PROVE  EarlyInv'
<1>0. playhead \in Nat
  BY DEF IInv, TypeOK
<1>1. ASSUME NEW times \in Seq(Nat), NEW n \in 0..Len(times), Reached(times, n)
      PROVE  \A i \in 1..n : times[i] <= playhead'
  <2> TAKE i \in 1..n
  <2>1. times[i] \in Nat /\ times[i] <= playhead
    BY <1>1 DEF Reached
  <2> QED BY <1>0, <2>1
<1>2. \A i \in 1..taken : EventTimes[i] <= playhead'
  BY <1>1, Times DEF EarlyInv, IInv, TypeOK
<1>3. \A i \in 1..frame : FrameTimes[i] <= playhead'
  BY <1>1, Times DEF EarlyInv, IInv, TypeOK
<1>4. \A i \in 1..sample : SampleTimes[i] <= playhead'
  BY <1>1, Times DEF EarlyInv, IInv, TypeOK
<1> QED BY <1>2, <1>3, <1>4 DEF EarlyInv, Reached

\* next() begins: the clock, the anchor and the playhead.
LEMMA BeginKeeps ==
    ASSUME IInv, NEW k \in Kinds, Begin(k)
    PROVE  IInv'
<1> USE DEF IInv
<1>1. /\ kind' = k /\ since' = 0 /\ started' = TRUE
      /\ UNCHANGED <<switches, finished, frame, sample, loops, taken, level>>
      /\ pc = "idle"
  BY DEF Begin
<1>2. Len(EventTimes) \in Nat /\ taken \in 0..Len(EventTimes) /\ cursor \in taken..Len(EventTimes)
      /\ playhead \in Nat /\ Elapsed \in Nat /\ 0 \in 0..MaxGap
  BY Times, ElapsedType, BoundAssumption DEF TypeOK
<1>3. CASE finished /\ UNCHANGED <<pc, anchored, playhead, cursor>>
  <2>1. TypeOK'
    BY <1>1, <1>2, <1>3 DEF TypeOK, switches
  <2>2. PassInv'
    BY <1>1, <1>3 DEF PassInv
  <2>3. EarlyInv'
    BY <1>1, <1>2, <1>3, Moves
  <2>4. LateInv'
    BY <1>1, <1>3 DEF LateInv
  <2> QED BY <2>1, <2>2, <2>3, <2>4
<1>4. CASE /\ ~finished /\ anchored
           /\ pc' = "play"
           /\ playhead' = playhead + Elapsed
           /\ UNCHANGED <<anchored, cursor>>
  <2>0. playhead' \in Nat /\ playhead <= playhead'
    BY <1>2, <1>4
  <2>1. TypeOK'
    BY <1>1, <1>2, <1>4, <2>0 DEF TypeOK, switches
  <2>2. PassInv'
    <3>1. EventTimes # <<>> => EventTimes[1] \in Nat
      BY Times
    <3> QED BY <1>1, <1>2, <1>4, <2>0, <3>1 DEF PassInv
  <2>3. EarlyInv'
    BY <1>1, <2>0, Moves
  <2>4. LateInv'
    BY <1>1, <1>4 DEF LateInv
  <2> QED BY <2>1, <2>2, <2>3, <2>4
<1>5. CASE /\ ~finished /\ ~anchored
           /\ pc' = "play"
           /\ anchored' = TRUE
           /\ cursor' \in IF cursor = taken THEN Filled(BatchSize, taken, cursor)
                                            ELSE {cursor}
           /\ playhead' = Elapsed + IF cursor' > taken THEN EventTimes[taken + 1]
                                                       ELSE playhead
  <2>1. taken = 0 /\ playhead = 0
    BY <1>5 DEF PassInv
  <2>2. cursor' \in taken..Len(EventTimes) /\ (taken < Len(EventTimes) => cursor' > taken)
    <3>1. CASE cursor = taken
      BY <1>2, <1>5, <3>1, FilledType
    <3>2. CASE cursor # taken
      BY <1>2, <1>5, <3>2
    <3> QED BY <3>1, <3>2
  <2>3. cursor' > taken => EventTimes[1] \in Nat /\ playhead' = Elapsed + EventTimes[1]
    BY <1>2, <1>5, <2>1, <2>2, Times
  <2>4. playhead' \in Nat /\ playhead <= playhead'
    BY <1>2, <1>5, <2>1, <2>3
  <2>5. TypeOK'
    BY <1>1, <1>2, <1>5, <2>2, <2>4 DEF TypeOK, switches
  <2>6. PassInv'
    <3>1. EventTimes # <<>> => Len(EventTimes) > 0
      BY Times
    <3> QED BY <1>2, <1>5, <2>1, <2>2, <2>3, <2>4, <3>1 DEF PassInv
  <2>7. EarlyInv'
    BY <1>1, <2>4, Moves
  <2>8. LateInv'
    BY <1>1, <1>5 DEF LateInv
  <2> QED BY <2>5, <2>6, <2>7, <2>8
<1> QED BY <1>3, <1>4, <1>5 DEF Begin

\* The end of a pass, when it loops.
LEMMA EndLoopsKeeps ==
    ASSUME IInv, EndLoops
    PROVE  IInv'
<1> USE DEF IInv
<1>1. Len(EventTimes) \in Nat /\ Len(FrameTimes) \in Nat /\ Len(SampleTimes) \in Nat
  BY Times
<1>2. cursor' \in 0..Len(EventTimes) /\ (0 < Len(EventTimes) => cursor' > 0)
  BY <1>1, FilledType DEF EndLoops
<1>3. TypeOK'
  <2>1. (cursor' = 0) \in BOOLEAN
    OBVIOUS
  <2>2. {started, paused, loop, finished, anchored}' \subseteq BOOLEAN
    BY <2>1, Zenon DEF EndLoops, Rewind, TypeOK, clock, switches
  <2>3. UNCHANGED <<kind, since, speed, level>> /\ pc' = "frames"
    BY DEF EndLoops, clock, switches
  <2>4. taken' = 0 /\ playhead' = 0 /\ frame' = 0 /\ sample' = 0 /\ loops' \in Nat
    BY DEF EndLoops, Rewind, TypeOK
  <2> QED BY <1>1, <1>2, <2>2, <2>3, <2>4 DEF TypeOK
<1>4. PassInv' /\ EarlyInv'
  BY DEF EndLoops, Rewind, PassInv, EarlyInv, Reached
<1>5. LateInv'
  <2>1. anchored' = FALSE /\ taken' = 0 /\ pc' = "frames"
    BY DEF EndLoops, Rewind
  <2>2. finished' => cursor' = 0
    BY DEF EndLoops
  <2>3. finished' => taken' = Len(EventTimes)
    BY <1>1, <1>2, <2>1, <2>2
  <2> QED BY <2>1, <2>3 DEF LateInv
<1> QED BY <1>3, <1>4, <1>5

\* restart(), in the middle of a pass or not.
LEMMA RestartKeeps ==
    ASSUME IInv, Restart
    PROVE  IInv'
<1> USE DEF IInv
<1>1. Len(EventTimes) \in Nat /\ Len(FrameTimes) \in Nat /\ Len(SampleTimes) \in Nat
  BY Times
<1>2. TypeOK'
  <2>1. {started, paused, loop, finished, anchored}' \subseteq BOOLEAN
    BY DEF Restart, Rewind, TypeOK, clock, switches
  <2>2. UNCHANGED <<pc, kind, since, speed, level>>
    BY DEF Restart, clock, switches
  <2>3. taken' = 0 /\ cursor' = 0 /\ playhead' = 0 /\ frame' = 0 /\ sample' = 0 /\ loops' \in Nat
    BY DEF Restart, Rewind, TypeOK
  <2> QED BY <1>1, <2>1, <2>2, <2>3 DEF TypeOK
<1>3. PassInv' /\ EarlyInv'
  BY DEF Restart, Rewind, PassInv, EarlyInv, Reached
<1>4. LateInv'
  BY DEF Restart, Rewind, LateInv
<1> QED BY <1>2, <1>3, <1>4

\* A step that leaves the pass alone.
LEMMA PassKept ==
    ASSUME IInv, UNCHANGED <<finished, anchored, playhead, frame, sample, taken>>
    PROVE  PassInv' /\ EarlyInv'
BY DEF IInv, PassInv, EarlyInv, Reached

\* A step of the user that leaves it alone too.
LEMMA IdleKept ==
    ASSUME IInv, UNCHANGED <<pc, kind, finished, anchored, playhead, frame, sample, taken>>
    PROVE  PassInv' /\ EarlyInv' /\ LateInv'
BY PassKept DEF IInv, LateInv, Ahead

\* Every step keeps the invariant.
LEMMA NextKeeps == IInv /\ [Next]_vars => IInv'
<1> SUFFICES ASSUME IInv, [Next]_vars PROVE IInv'
  OBVIOUS
<1> USE DEF IInv
<1>0. /\ Len(EventTimes) \in Nat /\ Len(FrameTimes) \in Nat /\ Len(SampleTimes) \in Nat
      /\ MaxGap \in Nat
  BY Times, BoundAssumption
<1>1. CASE UNCHANGED vars
  <2>1. TypeOK'
    BY <1>1 DEF vars, clock, switches, reader, TypeOK
  <2> QED BY <1>1, <2>1, IdleKept DEF vars, reader
<1>2. CASE Tick
  <2>1. TypeOK'
    BY <1>0, <1>2 DEF Tick, switches, reader, TypeOK
  <2> QED BY <1>2, <2>1, IdleKept DEF Tick, reader
<1>3. CASE \E s \in Speeds : SetSpeed(s)
  <2>1. TypeOK'
    BY <1>3 DEF SetSpeed, clock, reader, TypeOK
  <2> QED BY <1>3, <2>1, IdleKept DEF SetSpeed, reader
<1>4. CASE \E b \in BOOLEAN : Pause(b) \/ SetLoop(b)
  <2>1. TypeOK'
    BY <1>4 DEF Pause, SetLoop, clock, reader, TypeOK
  <2> QED BY <1>4, <2>1, IdleKept DEF Pause, SetLoop, reader
<1>5. CASE \E n \in Levels : PrefetchReader(n)
  <2>1. TypeOK'
    BY <1>5 DEF PrefetchReader, clock, switches, TypeOK
  <2> QED BY <1>5, <2>1, IdleKept DEF PrefetchReader
<1>6. CASE Restart
  BY <1>6, RestartKeeps
<1>7. CASE \E k \in Kinds : Begin(k)
  BY <1>7, BeginKeeps
<1>8. CASE PlayEvent
  <2>1. TypeOK'
    BY <1>0, <1>8 DEF PlayEvent, clock, switches, TypeOK
  <2>2. PassInv' /\ LateInv'
    BY <1>8 DEF PlayEvent, PassInv, LateInv
  <2>3. EarlyInv'
    <3>1. \A i \in 1..taken' : i \in 1..taken \/ i = taken + 1
      BY <1>0, <1>8 DEF PlayEvent, TypeOK
    <3> QED BY <1>8, <3>1 DEF PlayEvent, Due, EarlyInv, Reached
  <2> QED BY <2>1, <2>2, <2>3
<1>9. CASE PlayedAll
  <2>1. TypeOK'
    BY <1>9 DEF PlayedAll, clock, switches, reader, TypeOK
  <2>2. PassInv' /\ EarlyInv'
    BY <1>9, PassKept DEF PlayedAll, reader
  <2>3. Ahead(EventTimes, taken)'
    <3>1. taken + 1 \in 1..Len(EventTimes)
      BY <1>0, <1>9 DEF PlayedAll, TypeOK
    <3>2. EventTimes[taken + 1] \in Nat
      BY <3>1, Times
    <3> QED BY <1>9, <3>2 DEF PlayedAll, Due, Ahead, reader, TypeOK
  <2>4. LateInv'
    BY <1>9, <2>3 DEF PlayedAll, LateInv, reader
  <2> QED BY <2>1, <2>2, <2>4
<1>10. CASE AskMore
  <2>1. cursor' \in taken..Len(EventTimes)
    BY <1>0, <1>10, FilledType DEF AskMore, TypeOK
  <2>2. TypeOK'
    BY <1>10, <2>1 DEF AskMore, clock, switches, TypeOK
  <2> QED BY <1>10, <2>2, IdleKept DEF AskMore
<1>11. CASE EndStops
  <2>1. TypeOK'
    BY <1>11 DEF EndStops, clock, switches, reader, TypeOK
  <2>2. PassInv' /\ EarlyInv' /\ LateInv'
    BY <1>11 DEF EndStops, reader, PassInv, EarlyInv, Reached, LateInv
  <2> QED BY <2>1, <2>2
<1>12. CASE EndLoops
  BY <1>12, EndLoopsKeeps
<1>13. CASE PlayFrame
  <2>1. TypeOK'
    BY <1>0, <1>13 DEF PlayFrame, FrameDue, clock, switches, reader, TypeOK
  <2>2. PassInv' /\ LateInv'
    BY <1>13 DEF PlayFrame, PassInv, LateInv, Ahead, reader
  <2>3. EarlyInv'
    <3>1. \A i \in 1..frame' : i \in 1..frame \/ i = frame + 1
      BY <1>13 DEF PlayFrame, TypeOK
    <3> QED BY <1>13, <3>1 DEF PlayFrame, FrameDue, EarlyInv, Reached, reader
  <2> QED BY <2>1, <2>2, <2>3
<1>14. CASE PlayedFrames
  <2>1. TypeOK'
    BY <1>14 DEF PlayedFrames, clock, switches, reader, TypeOK
  <2>2. PassInv' /\ EarlyInv'
    BY <1>14, PassKept DEF PlayedFrames, reader
  <2>3. kind # "events" => Ahead(FrameTimes, frame)
    BY <1>0, <1>14, Times DEF PlayedFrames, FrameDue, Ahead, TypeOK
  <2>4. LateInv'
    BY <1>14, <2>3 DEF PlayedFrames, LateInv, Ahead, reader
  <2> QED BY <2>1, <2>2, <2>4
<1>15. CASE PlaySample
  <2>1. TypeOK'
    BY <1>0, <1>15 DEF PlaySample, SampleDue, clock, switches, reader, TypeOK
  <2>2. PassInv' /\ LateInv'
    BY <1>15 DEF PlaySample, PassInv, LateInv, Ahead, reader
  <2>3. EarlyInv'
    <3>1. \A i \in 1..sample' : i \in 1..sample \/ i = sample + 1
      BY <1>15 DEF PlaySample, TypeOK
    <3> QED BY <1>15, <3>1 DEF PlaySample, SampleDue, EarlyInv, Reached, reader
  <2> QED BY <2>1, <2>2, <2>3
<1>16. CASE Return
  <2>1. TypeOK'
    BY <1>16 DEF Return, clock, switches, reader, TypeOK
  <2>2. PassInv' /\ EarlyInv'
    BY <1>16, PassKept DEF Return, reader
  <2>3. kind = "imu" => Ahead(SampleTimes, sample)
    BY <1>0, <1>16, Times DEF Return, SampleDue, Ahead, TypeOK
  <2>4. LateInv'
    BY <1>16, <2>3 DEF Return, LateInv, Ahead, reader
  <2> QED BY <2>1, <2>2, <2>4
<1>17. CASE Prefetched
  <2>1. TypeOK'
    BY <1>0, <1>17 DEF Prefetched, clock, switches, TypeOK
  <2> QED BY <1>17, <2>1, IdleKept DEF Prefetched
<1> QED
  BY <1>1, <1>2, <1>3, <1>4, <1>5, <1>6, <1>7, <1>8, <1>9, <1>10, <1>11, <1>12,
     <1>13, <1>14, <1>15, <1>16, <1>17 DEF Next, User, Advance

\* The invariant holds of every state that the player reaches.
THEOREM Invariant == Spec => []IInv
BY InitHolds, NextKeeps, PTL DEF Spec

-------------------------------------------------------------------------------
(* What follows from it.                                                   *)

\* Type correctness: no index passes the end of its data, and the queue gives no
\* more events than the reader has read.
THEOREM TypeCorrect == Spec => []TypeOK
BY Invariant, PTL DEF IInv

\* The events follow from the invariant.
LEMMA EventsHold == IInv => EventsUpToPlayhead
<1> SUFFICES ASSUME IInv PROVE EventsUpToPlayhead
  OBVIOUS
<1>1. ASSUME pc = "idle", anchored, ~finished
      PROVE  \A i \in 1..Len(EventTimes) : i <= taken <=> EventTimes[i] <= playhead
  BY <1>1, Prefix, Times DEF IInv, TypeOK, EarlyInv, LateInv
<1>2. finished => taken = Len(EventTimes)
  BY DEF IInv, LateInv
<1> QED BY <1>1, <1>2 DEF EventsUpToPlayhead

\* Between two calls exactly the events up to the playhead have been delivered, for
\* every recording, batch size and level of prefetch, and a player that has finished
\* has delivered all of them.
THEOREM EventsInTime == Spec => []EventsUpToPlayhead
BY EventsHold, Invariant, PTL

\* The frames and the measurements follow from the invariant.
LEMMA SensorsHold == IInv => SensorsUpToPlayhead
<1> SUFFICES ASSUME IInv, pc = "idle", anchored, ~finished
             PROVE  /\ kind # "events" => \A i \in 1..Len(FrameTimes) :
                                             i <= frame <=> FrameTimes[i] <= playhead
                    /\ kind = "imu" => \A i \in 1..Len(SampleTimes) :
                                          i <= sample <=> SampleTimes[i] <= playhead
  BY DEF SensorsUpToPlayhead
<1>1. kind # "events" => \A i \in 1..Len(FrameTimes) :
                            i <= frame <=> FrameTimes[i] <= playhead
  BY Prefix, Times DEF IInv, TypeOK, EarlyInv, LateInv
<1>2. kind = "imu" => \A i \in 1..Len(SampleTimes) :
                         i <= sample <=> SampleTimes[i] <= playhead
  BY Prefix, Times DEF IInv, TypeOK, EarlyInv, LateInv
<1> QED BY <1>1, <1>2

\* So have the frames and the measurements, after a call that asked for them.
THEOREM SensorsInTime == Spec => []SensorsUpToPlayhead
BY SensorsHold, Invariant, PTL

\* The playhead of every pass is never before the first event.
THEOREM PassStartsAtFirstEvent == Spec => []StartsAtFirstEvent
<1>1. IInv => StartsAtFirstEvent
  BY DEF IInv, PassInv, StartsAtFirstEvent
<1> QED BY <1>1, Invariant, PTL
===============================================================================
