-------------------------------- MODULE Camera --------------------------------
(***************************************************************************)
(* AbstractCamera and Davis, over the library that drives the device       *)
(* (external): starting, stopping and flushing the stream of containers,   *)
(* the region of interest, and the defective pixels.                       *)
(*                                                                         *)
(* The sensor is a row of Width pixels and a region of interest a segment  *)
(* of it, so that the region takes two registers of the device instead of  *)
(* four.  A container has the time of its events or none of it, and at     *)
(* most one frame; which events it holds follows from the filters, and     *)
(* Seen says it.                                                           *)
(***************************************************************************)
EXTENDS Filtering, Integers, Sequences, FiniteSets, SequencesExt, FiniteSetsExt

CONSTANTS
    Width,           \* pixels of the sensor
    Regions,         \* regions setRoi() is called with, [from, to]
    Streams,         \* what the device produces, "dvs", "aps" and "imu"
    HotLists,        \* lists of hot pixels in the defective pixel files
    SaturatedSets,   \* and of saturated pixels
    Slots,           \* SLOTS: pixels the device can suppress
    QueueSize,       \* containers the library holds for the host
    FlushTime,       \* units of device time that flush() discards
    MaxFaults,       \* bound: register writes that fail
    MayLose          \* whether the connection may be lost

ASSUME WidthAssumption == Width \in Nat \ {0}

\* The coordinates of a cv::Rect_<uint16_t> are not negative; those of a file may be.
ASSUME RegionsAssumption == Regions \subseteq [from : Nat, to : Nat]
ASSUME ListsAssumption == HotLists \subseteq Seq(Int) /\ SaturatedSets \subseteq SUBSET Int

ASSUME BoundsAssumption ==
    Slots \in Nat /\ QueueSize \in Nat /\ FlushTime \in Nat \ {0} /\ MaxFaults \in Nat

VARIABLES
    \* the device and its library
    roiFilter, pixelFilter,   \* dvsHasROIFilter and dvsHasPixelFilter
    streaming, lost, run, registers, slots, exposed, queue, faults,
    \* the camera
    running, roi, software, hot, saturated,
    \* the thread that uses it, and the threads in the middle of stop()
    pc, saved, begun, left, stopping,
    \* what the user has asked for
    asked, listed

config == <<registers, slots, exposed, faults, roi, software, hot, saturated, listed>>
device == <<roiFilter, pixelFilter>>
flushing == <<begun, left>>
vars == <<device, streaming, lost, run, queue, config, running, pc, saved,
          flushing, stopping, asked>>

Pixels == 0..(Width - 1)
Segment == [from : Pixels, to : Pixels]
Full == [from |-> 0, to |-> Width - 1]
Container == [timed : BOOLEAN, region : Segment, frame : BOOLEAN]
In(p, r) == p \in r.from..r.to
Threads == {"user", "other"}
None == -1

\* The user is between two calls.
Free == pc = "idle" /\ "user" \notin stopping

TypeOK ==
    /\ roiFilter \in BOOLEAN /\ pixelFilter \in BOOLEAN
    /\ streaming \in BOOLEAN /\ lost \in BOOLEAN /\ running \in BOOLEAN
    /\ run \subseteq Streams /\ saved \subseteq Streams /\ asked \subseteq Streams
    /\ registers \in Segment /\ exposed \in Segment /\ roi \in Segment
    /\ slots \in [1..Slots -> Pixels \cup {None}]
    /\ queue \in Seq(Container) /\ Len(queue) <= QueueSize
    /\ faults \in 0..MaxFaults
    /\ software \in BOOLEAN
    /\ hot \subseteq Pixels /\ saturated \subseteq Pixels /\ listed \in Seq(Pixels)
    /\ pc \in {"idle", "restore", "flush"}
    /\ begun \in BOOLEAN /\ left \in 0..FlushTime
    /\ stopping \subseteq Threads

\* The constructor opens the camera, enables every stream and sets the defaults.
\* The empty roi_ is the whole sensor, as getRoi() reports it.
Init ==
    /\ roiFilter \in BOOLEAN /\ pixelFilter \in BOOLEAN
    /\ streaming = FALSE /\ lost = FALSE
    /\ run = Streams
    /\ registers = Full /\ exposed = Full
    /\ slots = [i \in 1..Slots |-> None]
    /\ queue = <<>>
    /\ faults = 0
    /\ running = FALSE
    /\ roi = Full /\ software = FALSE
    /\ hot = {} /\ saturated = {} /\ listed = <<>>
    /\ pc = "idle" /\ saved = {} /\ begun = FALSE /\ left = 0
    /\ stopping = {}
    /\ asked = Streams

-------------------------------------------------------------------------------
(* The device.                                                             *)

\* A container: of the streams that run, with a time unless it has no event.
Produce(timed) ==
    /\ streaming /\ ~lost
    /\ run # {}
    /\ Len(queue) < QueueSize
    /\ queue' = Append(queue, [timed |-> timed, region |-> exposed,
                               frame |-> timed /\ "aps" \in run])
    /\ UNCHANGED <<device, streaming, lost, run, config, running, pc, saved,
                   flushing, stopping, asked>>

Lose ==
    /\ MayLose /\ ~lost
    /\ lost' = TRUE
    /\ UNCHANGED <<device, streaming, run, queue, config, running, pc, saved,
                   flushing, stopping, asked>>

\* caerDeviceDataGet() waits for a container, and returns none when the queue
\* is empty and nothing will fill it.
Answers == queue # <<>> \/ lost \/ ~streaming
NextQueue == IF queue = <<>> THEN <<>> ELSE Tail(queue)

-------------------------------------------------------------------------------
(* start(), stop() and flush().                                            *)

\* Starting the stream enables all of it in the device; it may not start.
Start ==
    /\ Free /\ ~running
    /\ saved' = run
    /\ \/ /\ streaming' = TRUE /\ running' = TRUE
          /\ run' = Streams
       \/ UNCHANGED <<streaming, running, run>>
    /\ pc' = "restore"
    /\ UNCHANGED <<device, lost, queue, config, flushing, stopping, asked>>

\* Mutant: the events alone are put back.
RestoredDvs == (run \ {"dvs"}) \cup (saved \cap {"dvs"})

Restored == saved

\* flush(1000) and the reset of the timestamps end start().
Restore ==
    /\ pc = "restore"
    /\ run' = Restored
    /\ pc' = IF running THEN "flush" ELSE "idle"
    /\ saved' = {}
    /\ begun' = FALSE /\ left' = FlushTime
    /\ UNCHANGED <<device, streaming, lost, queue, config, running,
                   stopping, asked>>

Flush ==
    /\ Free /\ running
    /\ pc' = "flush"
    /\ begun' = FALSE /\ left' = FlushTime
    /\ UNCHANGED <<device, streaming, lost, run, queue, config, running, saved,
                   stopping, asked>>

\* Mutant: the time is counted from the last container.
LeftFromLast(timed) == FlushTime

\* What is left of the interval, counted from the first container with a time.
Left(timed) == IF timed /\ begun THEN left - 1 ELSE left

Discard ==
    /\ pc = "flush"
    /\ queue # <<>>
    /\ left' = Left(Head(queue).timed)
    /\ begun' = (left' > 0 /\ (begun \/ Head(queue).timed))
    /\ pc' = IF left' = 0 THEN "idle" ELSE "flush"
    /\ queue' = Tail(queue)
    /\ UNCHANGED <<device, streaming, lost, run, config, running, saved,
                   stopping, asked>>

\* With no container there are no times, and flush() tries again.
DiscardNone ==
    /\ pc = "flush"
    /\ queue = <<>> /\ Answers
    /\ UNCHANGED vars

\* stop(): the exchange lets one thread through.
Stop(t) ==
    /\ t = "user" => Free
    /\ running
    /\ running' = FALSE
    /\ stopping' = stopping \cup {t}
    /\ UNCHANGED <<device, streaming, lost, run, queue, config, pc, saved,
                   flushing, asked>>

\* Stopping the stream frees what the library holds.
Stopped(t) ==
    /\ t \in stopping
    /\ stopping' = stopping \ {t}
    /\ streaming' = FALSE
    /\ queue' = <<>>
    /\ UNCHANGED <<device, lost, run, config, running, pc, saved, flushing,
                   asked>>

Enable(s, state) ==
    /\ Free
    /\ s \in Streams
    /\ run' = IF state THEN run \cup {s} ELSE run \ {s}
    /\ asked' = IF state THEN asked \cup {s} ELSE asked \ {s}
    /\ UNCHANGED <<device, streaming, lost, queue, config, running, pc, saved,
                   flushing, stopping>>

EnableDvs(state) == Enable("dvs", state)
EnableAps(state) == Enable("aps", state)
EnableImu(state) == Enable("imu", state)

-------------------------------------------------------------------------------
(* The region of interest and the defective pixels.                        *)

Valid(r) == r.from <= r.to /\ r.to < Width

\* Mutant: a device with the filter is trusted to have taken it.
FilterBySoftware(done) == ~roiFilter

\* The region filters by software without the filter, or if a write has failed.
BySoftware(done) == ~roiFilter \/ done < 2

\* setRoi(): the exposed region first, then the registers of the filter one
\* after the other, done of them, up to the first that fails.
SetRoi(r) ==
    /\ Free
    /\ Valid(r)
    /\ \E done \in 0..2 :
          /\ done < 2 /\ roiFilter => faults < MaxFaults
          /\ ~roiFilter => done = 0
          /\ registers' = [from |-> IF done > 0 THEN r.from ELSE registers.from,
                           to |-> IF done > 1 THEN r.to ELSE registers.to]
          /\ faults' = IF roiFilter /\ done < 2 THEN faults + 1 ELSE faults
          /\ software' = BySoftware(done)
    /\ exposed' = r
    /\ roi' = r
    /\ UNCHANGED <<device, streaming, lost, run, queue, slots, hot, saturated,
                   listed, running, pc, saved, flushing, stopping, asked>>

\* A region outside the sensor, or one the library refuses, changes nothing.
RefuseRoi(r) == Free /\ UNCHANGED vars

Taken(pixels) == IF pixelFilter THEN Min({Len(pixels), Slots}) ELSE 0

\* The last pixel fills the slots that are left.
SlotOf(pixels, i) == pixels[Min({i, Taken(pixels)})]

\* Mutant: coordinates outside the sensor are kept.
InsideAll(list) == list

Inside(list) == Among(list, Pixels)

\* setDefectivePixels() with a file that has this camera.  Writes that fail are
\* not noticed, and an empty list writes nothing.
SetDefectivePixels(list, sat) ==
    LET pixels == Inside(list)
        taken  == Taken(pixels)
    IN  /\ Free
        /\ saturated' = sat \cap Pixels
        /\ \E refused \in SUBSET (1..Slots) :
              /\ refused # {} => taken > 0 /\ faults < MaxFaults
              /\ faults' = IF refused = {} THEN faults ELSE faults + 1
              /\ slots' = [i \in 1..Slots |->
                             IF taken = 0 \/ i \in refused
                               THEN slots[i] ELSE SlotOf(pixels, i)]
        /\ hot' = {pixels[i] : i \in (taken + 1)..Len(pixels)}
        /\ listed' = pixels
        /\ UNCHANGED <<device, streaming, lost, run, queue, registers, exposed,
                       roi, software, running, pc, saved, flushing,
                       stopping, asked>>

-------------------------------------------------------------------------------
(* getData().                                                              *)

ByDevice(p) == (roiFilter => In(p, registers)) /\ (\A i \in 1..Slots : slots[i] # p)
ByHost(p) == p \notin hot /\ (software => In(p, roi))

\* The pixels whose events reach the user.
Seen == {p \in Pixels : ByDevice(p) /\ ByHost(p)}

\* Mutant: the frame is taken for one of the whole sensor.
OffsetNone == 0

Offset == roi.from

\* The pixels that replace the saturated pixel p in a frame of n pixels: the
\* median is of them, and without any the frame keeps what it has.
Neighbours(p, n) ==
    {q \in {p - 1, p + 1} : q - Offset \in 0..(n - 1) /\ q \notin saturated}

\* interpolate_() on a frame of region r; a pixel of it is the set of pixels of
\* the sensor its value comes from.
Interpolated(r) ==
    LET n == r.to - r.from + 1
    IN  [k \in 0..(n - 1) |->
           LET p == k + Offset
           IN  IF p \in saturated /\ Neighbours(p, n) # {}
                 THEN {q - Offset + r.from : q \in Neighbours(p, n)}
                 ELSE {k + r.from}]

\* The frame the call gives, if it finds one: nobody but the user keeps it.
Given == Interpolated(Head(queue).region)

\* One container is taken, and freed when the call returns.
Receive ==
    /\ Free
    /\ Answers
    /\ queue' = NextQueue
    /\ UNCHANGED <<device, streaming, lost, run, config, running, pc, saved,
                   flushing, stopping, asked>>

GetData == Receive

\* getEventRaw() asks no filter of the host.
GetEventRaw == Receive

\* The pixels whose events getEventRaw() gives.
SeenRaw == {p \in Pixels : ByDevice(p)}

-------------------------------------------------------------------------------
User ==
    \/ Start
    \/ Flush
    \/ \E state \in BOOLEAN : EnableDvs(state) \/ EnableAps(state) \/ EnableImu(state)
    \/ \E r \in Regions : SetRoi(r) \/ RefuseRoi(r)
    \/ \E list \in HotLists, sat \in SaturatedSets : SetDefectivePixels(list, sat)
    \/ GetData
    \/ GetEventRaw

Work == Restore \/ Discard \/ DiscardNone

Next ==
    \/ User
    \/ Work
    \/ \E t \in Threads : Stop(t) \/ Stopped(t)
    \/ \E timed \in BOOLEAN : Produce(timed)
    \/ Lose

Spec == Init /\ [][Next]_vars

\* start(), flush() and stop() go on, and a stream that runs has events now and
\* then, between containers without any.
FairSpec ==
    /\ Spec
    /\ WF_vars(Work)
    /\ SF_vars(Produce(TRUE))
    /\ WF_vars(\E t \in Threads : Stopped(t))

-------------------------------------------------------------------------------
(* Safety.                                                                 *)

\* No event outside the region of interest reaches the user, although writes of
\* its registers fail half way.  As long as none has failed, no event of a listed
\* pixel does either, and the user sees all the others of the region, after any
\* sequence of regions and of lists, whoever filters each.  (A list without hot
\* pixels leaves the device suppressing those of the list before.)  A device
\* that has both filters, and a slot for each entry of the list, one that is
\* listed twice taking two, gives them as raw events too.
FilterExact ==
    LET wanted == {p \in Pixels : In(p, roi)}
    IN  /\ Seen \subseteq wanted
        /\ faults = 0 =>
             /\ Seen \subseteq wanted \ Range(listed)
             /\ listed # <<>> => Seen = wanted \ Range(listed)
             /\ roiFilter /\ pixelFilter /\ Len(listed) \in 1..Slots =>
                  SeenRaw = wanted \ Range(listed)

\* getData() replaces every saturated pixel of a frame exposed in the region in
\* force by its neighbours in the frame that are not saturated, if it has any,
\* and leaves every other pixel as the sensor gave it.
Repaired(of, pixels) ==
    \A p \in of.from..of.to :
        LET near == {q \in {p - 1, p + 1} : In(q, of)} \ saturated
        IN  pixels[p - of.from] = IF p \in saturated /\ near # {} THEN near ELSE {p}
FramesRepaired ==
    [][ GetData /\ queue # <<>> /\ Head(queue).frame /\ Head(queue).region = roi =>
            Repaired(roi, Given) ]_vars

\* start() and stop() leave each stream as the user enabled or disabled it,
\* although starting enables all of them.
StreamsAsAsked == pc # "restore" => run = asked

\* flush() returns, unless the stream ends under it: another thread stops it,
\* the connection is lost, or nothing is enabled.
FlushReturns ==
    pc = "flush" ~> pc # "flush" \/ ~streaming \/ lost \/ run = {}
===============================================================================
