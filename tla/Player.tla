-------------------------------- MODULE Player --------------------------------
(***************************************************************************)
(* ev::Player_: plays a reader in real time.  Each next() moves the        *)
(* playhead by the time elapsed since the previous one and delivers the    *)
(* events, frames and inertial measurements up to it.                      *)
(*                                                                         *)
(* The reader is used by its contract, that of EventStream: the events     *)
(* come once, in the order of the file, so the file and the queue are two  *)
(* counters.  The queue holds events taken + 1 to cursor; the thread of    *)
(* prefetch() may add to it at any moment.  Timestamps are integers and    *)
(* each kind of data is sorted by time.                                    *)
(***************************************************************************)
EXTENDS Naturals, Sequences

CONSTANTS
    EventTimes,    \* timestamps of the events the reader delivers
    FrameTimes,    \* timestamps of reader_.frames()
    SampleTimes,   \* timestamps of reader_.imu()
    Speeds,        \* the speeds of setSpeed()
    Levels,        \* the n of the reader's prefetch(n)
    Batch,         \* BATCH
    MaxGap,        \* bound: time between two calls of next()
    MaxLoops       \* bound: passes over the recording

Sorted(times) == \A i, j \in 1..Len(times) : i < j => times[i] <= times[j]

ASSUME TimesAssumption ==
    \A times \in {EventTimes, FrameTimes, SampleTimes} :
        times \in Seq(Nat) /\ Sorted(times)
ASSUME ArgumentAssumption ==
    Speeds \subseteq Nat /\ Levels \subseteq Nat /\ Batch \in Nat \ {0}
ASSUME BoundAssumption == MaxGap \in Nat /\ MaxLoops \in Nat

VARIABLES
    pc,         \* where next() is, "idle" outside it
    kind,       \* the overload of next() last called
    since,      \* time since last_
    started,    \* started_
    paused,     \* paused_
    loop,       \* loop_
    finished,   \* finished_
    anchored,   \* anchored_
    speed,      \* speed_
    playhead,   \* playhead_
    frame,      \* frame_
    sample,     \* sample_
    loops,      \* loops_
    cursor,     \* events the reader has put in its queue since its reset()
    taken,      \* events the player has taken from it, and delivered
    level       \* the reader's prefetchCapacity()

switches == <<paused, loop, speed>>
clock == <<since, started>>
reader == <<cursor, taken, level>>
vars == <<pc, kind, clock, switches, finished, anchored, playhead, frame,
          sample, loops, reader>>

Kinds == {"events", "frames", "imu"}

\* The type of each variable; in particular the queue never gives more events
\* than the reader has read, and no index passes the end of its data.
TypeOK ==
    /\ pc \in {"idle", "play", "frames", "imu"}
    /\ kind \in Kinds
    /\ since \in 0..MaxGap
    /\ {started, paused, loop, finished, anchored} \subseteq BOOLEAN
    /\ speed \in Speeds \cup {1}
    /\ playhead \in Nat
    /\ frame \in 0..Len(FrameTimes)
    /\ sample \in 0..Len(SampleTimes)
    /\ loops \in Nat
    /\ taken \in 0..Len(EventTimes)
    /\ cursor \in taken..Len(EventTimes)
    /\ level \in Levels \cup {0}

Init ==
    /\ pc = "idle"
    /\ kind = "events"
    /\ since = 0
    /\ started = FALSE
    /\ paused = FALSE
    /\ loop = TRUE
    /\ finished = FALSE
    /\ anchored = FALSE
    /\ speed = 1
    /\ playhead = 0
    /\ frame = 0
    /\ sample = 0
    /\ loops = 0
    /\ cursor = 0
    /\ taken = 0
    /\ level = 0

Lesser(a, b) == IF a <= b THEN a ELSE b

-------------------------------------------------------------------------------
(* The reader.                                                             *)

\* Mutant: the level of prefetch() is not looked at.
BatchAlways == Batch

\* batch_(): the reader refuses to give more than prefetch() keeps.
BatchSize == IF level > 0 THEN Lesser(level, Batch) ELSE Batch

\* Where events(n) may leave the cursor of a reader at c with t taken: alone it
\* adds n events, with the thread it waits until n are held; fewer are left
\* only at the end of the file.  It refuses, with an exception, to wait for
\* more than the level: there is then no outcome, and the call goes no further.
Filled(n, t, c) ==
    LET end == Len(EventTimes)
    IN  IF level = 0
          THEN {Lesser(c + n, end)}
          ELSE {d \in c..end : /\ n <= level
                               /\ d = c \/ d <= t + level
                               /\ d >= t + n \/ d = end}

\* The thread of the reader puts one more event in the queue.
Prefetched ==
    /\ cursor < Len(EventTimes)
    /\ cursor - taken < level
    /\ cursor' = cursor + 1
    /\ UNCHANGED <<pc, kind, clock, switches, finished, anchored, playhead,
                   frame, sample, loops, taken, level>>

\* The user calls prefetch(n) on the reader it plays.
PrefetchReader(n) ==
    /\ pc = "idle"
    /\ level' = n
    /\ UNCHANGED <<pc, kind, clock, switches, finished, anchored, playhead,
                   frame, sample, loops, cursor, taken>>

-------------------------------------------------------------------------------
(* The controls.                                                           *)

Tick ==
    /\ pc = "idle"
    /\ since < MaxGap
    /\ since' = since + 1
    /\ UNCHANGED <<pc, kind, started, switches, finished, anchored, playhead,
                   frame, sample, loops, reader>>

SetSpeed(s) ==
    /\ pc = "idle"
    /\ speed' = s
    /\ UNCHANGED <<pc, kind, clock, paused, loop, finished, anchored, playhead,
                   frame, sample, loops, reader>>

Pause(b) ==
    /\ pc = "idle"
    /\ paused' = b
    /\ UNCHANGED <<pc, kind, clock, loop, speed, finished, anchored, playhead,
                   frame, sample, loops, reader>>

SetLoop(b) ==
    /\ pc = "idle"
    /\ loop' = b
    /\ UNCHANGED <<pc, kind, clock, paused, speed, finished, anchored, playhead,
                   frame, sample, loops, reader>>

\* Mutant: the anchor of the pass before is kept.
RewindAnchored ==
    /\ taken' = 0
    /\ playhead' = 0
    /\ UNCHANGED anchored
    /\ frame' = 0
    /\ sample' = 0
    /\ loops' = loops + 1

\* Mutant: the position among the measurements is kept.
RewindSampled ==
    /\ taken' = 0
    /\ playhead' = 0
    /\ anchored' = FALSE
    /\ frame' = 0
    /\ loops' = loops + 1
    /\ UNCHANGED sample

\* restart(), but for finished_, which its two callers leave differently.
Rewind ==
    /\ taken' = 0
    /\ playhead' = 0
    /\ anchored' = FALSE
    /\ frame' = 0
    /\ sample' = 0
    /\ loops' = loops + 1

Restart ==
    /\ pc = "idle"
    /\ loops < MaxLoops
    /\ Rewind
    /\ cursor' = 0
    /\ finished' = FALSE
    /\ UNCHANGED <<pc, kind, clock, switches, level>>

-------------------------------------------------------------------------------
(* next().                                                                 *)

\* elapsed_().
Elapsed == IF started /\ ~paused THEN since * speed ELSE 0

\* The call up to the loop over the events: the clock is read, a player that
\* has finished returns, and the playhead of a new pass starts at the first
\* event, which is read if need be.
Begin(k) ==
    /\ pc = "idle"
    /\ loops < MaxLoops
    /\ kind' = k
    /\ since' = 0
    /\ started' = TRUE
    /\ UNCHANGED <<switches, finished, frame, sample, loops, taken, level>>
    /\ \/ /\ finished
          /\ UNCHANGED <<pc, anchored, playhead, cursor>>
       \/ /\ ~finished /\ anchored
          /\ pc' = "play"
          /\ playhead' = playhead + Elapsed
          /\ UNCHANGED <<anchored, cursor>>
       \/ /\ ~finished /\ ~anchored
          /\ pc' = "play"
          /\ anchored' = TRUE
          /\ cursor' \in IF cursor = taken THEN Filled(BatchSize, taken, cursor)
                                           ELSE {cursor}
          /\ playhead' = Elapsed + IF cursor' > taken THEN EventTimes[taken + 1]
                                                      ELSE playhead

\* Mutant: an event at the playhead is left for the next call.
DueBefore == EventTimes[taken + 1] < playhead

\* The event at the front of the queue is due.
Due == EventTimes[taken + 1] <= playhead

PlayEvent ==
    /\ pc = "play"
    /\ cursor > taken
    /\ Due
    /\ taken' = taken + 1
    /\ UNCHANGED <<pc, kind, clock, switches, finished, anchored, playhead,
                   frame, sample, loops, cursor, level>>

PlayedAll ==
    /\ pc = "play"
    /\ cursor > taken
    /\ ~Due
    /\ pc' = "frames"
    /\ UNCHANGED <<kind, clock, switches, finished, anchored, playhead, frame,
                   sample, loops, reader>>

AskMore ==
    /\ pc = "play"
    /\ cursor = taken
    /\ cursor < Len(EventTimes)
    /\ cursor' \in Filled(BatchSize, taken, cursor)
    /\ UNCHANGED <<pc, kind, clock, switches, finished, anchored, playhead,
                   frame, sample, loops, taken, level>>

\* The queue is still empty after asking: the reader has no more events.
EndStops ==
    /\ pc = "play"
    /\ taken = Len(EventTimes)
    /\ ~loop
    /\ finished' = TRUE
    /\ pc' = "frames"
    /\ UNCHANGED <<kind, clock, switches, anchored, playhead, frame, sample,
                   loops, reader>>

\* Or the pass starts again, unless it has nothing to play.
EndLoops ==
    /\ pc = "play"
    /\ taken = Len(EventTimes)
    /\ loop
    /\ Rewind
    /\ cursor' \in Filled(BatchSize, 0, 0)
    /\ finished' = (cursor' = 0)
    /\ pc' = "frames"
    /\ UNCHANGED <<kind, clock, switches, level>>

\* Mutant: one frame too many is looked at.
FrameDuePastEnd ==
    frame <= Len(FrameTimes)
        /\ (frame = Len(FrameTimes) \/ FrameTimes[frame + 1] <= playhead)

\* The next frame of this pass is due.
FrameDue == frame < Len(FrameTimes) /\ FrameTimes[frame + 1] <= playhead
SampleDue == sample < Len(SampleTimes) /\ SampleTimes[sample + 1] <= playhead

\* A frame that cannot be read from its file is passed over the same way.
PlayFrame ==
    /\ pc = "frames"
    /\ kind # "events"
    /\ FrameDue
    /\ frame' = frame + 1
    /\ UNCHANGED <<pc, kind, clock, switches, finished, anchored, playhead,
                   sample, loops, reader>>

PlayedFrames ==
    /\ pc = "frames"
    /\ kind = "events" \/ ~FrameDue
    /\ pc' = "imu"
    /\ UNCHANGED <<kind, clock, switches, finished, anchored, playhead, frame,
                   sample, loops, reader>>

PlaySample ==
    /\ pc = "imu"
    /\ kind = "imu"
    /\ SampleDue
    /\ sample' = sample + 1
    /\ UNCHANGED <<pc, kind, clock, switches, finished, anchored, playhead,
                   frame, loops, reader>>

Return ==
    /\ pc = "imu"
    /\ kind # "imu" \/ ~SampleDue
    /\ pc' = "idle"
    /\ UNCHANGED <<kind, clock, switches, finished, anchored, playhead, frame,
                   sample, loops, reader>>

-------------------------------------------------------------------------------
User ==
    \/ Tick
    \/ \E s \in Speeds : SetSpeed(s)
    \/ \E b \in BOOLEAN : Pause(b) \/ SetLoop(b)
    \/ \E n \in Levels : PrefetchReader(n)
    \/ Restart
    \/ \E k \in Kinds : Begin(k)

Advance ==
    \/ PlayEvent \/ PlayedAll \/ AskMore \/ EndStops \/ EndLoops
    \/ PlayFrame \/ PlayedFrames \/ PlaySample \/ Return

Next == User \/ Advance \/ Prefetched

Spec == Init /\ [][Next]_vars

\* A call of next() goes on; nobody has to make another.
FairSpec == Spec /\ WF_vars(Advance)

-------------------------------------------------------------------------------
(* Safety.                                                                 *)

\* Between two calls, the events delivered in this pass are those up to the
\* playhead: none early, none late, none skipped, whatever batches the reader
\* gave them in.  A player that has finished has delivered them all.
EventsUpToPlayhead ==
    /\ pc = "idle" /\ anchored /\ ~finished =>
         \A i \in 1..Len(EventTimes) : i <= taken <=> EventTimes[i] <= playhead
    /\ finished => taken = Len(EventTimes)

\* After a call that asked for them, so are the frames and the measurements,
\* through restarts and passes.
SensorsUpToPlayhead ==
    pc = "idle" /\ anchored /\ ~finished =>
        /\ kind # "events" => \A i \in 1..Len(FrameTimes) :
                                 i <= frame <=> FrameTimes[i] <= playhead
        /\ kind = "imu" => \A i \in 1..Len(SampleTimes) :
                              i <= sample <=> SampleTimes[i] <= playhead

\* The playhead of every pass starts at the timestamp of the first event, also
\* after a restart() in the middle of another.
StartsAtFirstEvent ==
    anchored /\ EventTimes # <<>> => playhead >= EventTimes[1]

\* A pass that ends delivers what happened before its end: next() delivers what
\* happened since the previous call.
PassDeliversSamples ==
    [][ kind = "imu" /\ loops' > loops /\ pc = "play" =>
          \A i \in 1..Len(SampleTimes) :
              SampleTimes[i] <= playhead => i <= sample ]_vars

\* Every next() returns, whatever batches and restarts it takes, and is never
\* refused by the reader: it does not ask for more than prefetch() keeps, in any
\* of the three places where it asks.
NextReturns == pc # "idle" ~> pc = "idle"
===============================================================================
