------------------------------ MODULE CameraProofs ------------------------------
(***************************************************************************)
(* What Camera promises, proved for every sensor, every region and list of *)
(* pixels, every number of slots of the device and of writes that fail.    *)
(*                                                                         *)
(* The filters are an invariant of three parts: whoever filters the region *)
(* does it for the region in force; the pixels the device suppresses and   *)
(* those the host drops are together the pixels of the last list; and the  *)
(* streams that run, or are kept by start() to be put back, are those that *)
(* the user has asked for.                                                 *)
(***************************************************************************)
EXTENDS Camera, IterationProofs

-------------------------------------------------------------------------------
(* The invariant.                                                          *)

Listed == {listed[i] : i \in 1..Len(listed)}
Suppressed == {slots[i] : i \in 1..Slots} \ {None}

FlushInv == pc = "flush" => left \in 1..FlushTime

StreamInv ==
    /\ pc = "restore" => saved = asked
    /\ pc # "restore" => run = asked

RegionInv ==
    /\ roiFilter /\ ~software => registers = roi
    /\ ~roiFilter /\ ~software => roi = Full
    /\ faults = 0 /\ software => ~roiFilter

PixelInv ==
    /\ ~pixelFilter => Suppressed = {}
    /\ faults = 0 =>
         /\ hot \subseteq Listed
         /\ Listed \subseteq hot \cup Suppressed
         /\ listed # <<>> => Suppressed \subseteq Listed
         /\ pixelFilter /\ Len(listed) \in 1..Slots => hot = {}

IInv == TypeOK /\ FlushInv /\ StreamInv /\ RegionInv /\ PixelInv

-------------------------------------------------------------------------------
(* The pixels of a list.                                                   *)

\* The smaller of two numbers, as FiniteSetsExt chooses it.
LEMMA MinOfTwo ==
    ASSUME NEW a \in Int, NEW b \in Int
    PROVE  Min({a, b}) = IF a <= b THEN a ELSE b
BY DEF Min

\* The region of the whole sensor leaves nothing out.
LEMMA FullIsSegment == Full \in Segment /\ \A p \in Pixels : In(p, Full)
BY WidthAssumption DEF Full, Segment, Pixels, In

\* A list inside the sensor is a sequence of its pixels.
LEMMA InsideType ==
    ASSUME NEW list \in HotLists
    PROVE  Inside(list) \in Seq(Pixels)
<1>1. list \in Seq(Int)
  BY ListsAssumption
<1>2. Among(list, Pixels) \in Seq(Int \cap Pixels)
  BY <1>1, AmongType
<1>3. Int \cap Pixels = Pixels
  BY WidthAssumption DEF Pixels
<1> QED BY <1>2, <1>3 DEF Inside

\* How many of a list the device takes: no more than it has slots, or entries.
LEMMA TakenType ==
    ASSUME NEW pixels \in Seq(Pixels)
    PROVE  /\ Taken(pixels) \in Nat
           /\ Taken(pixels) <= Len(pixels) /\ Taken(pixels) <= Slots
           /\ ~pixelFilter => Taken(pixels) = 0
           /\ pixelFilter => \/ Taken(pixels) = Len(pixels)
                             \/ Taken(pixels) = Slots /\ Slots < Len(pixels)
<1>1. Len(pixels) \in Nat /\ Slots \in Nat
  BY BoundsAssumption
<1>2. Min({Len(pixels), Slots}) = IF Len(pixels) <= Slots THEN Len(pixels) ELSE Slots
  BY <1>1, MinOfTwo
<1> QED BY <1>1, <1>2 DEF Taken

\* The slots hold the pixels that the device takes, each of them.
LEMMA SlotsHoldTaken ==
    ASSUME NEW pixels \in Seq(Pixels), Taken(pixels) > 0
    PROVE  /\ \A i \in 1..Slots : SlotOf(pixels, i) \in Pixels
           /\ {SlotOf(pixels, i) : i \in 1..Slots} = {pixels[j] : j \in 1..Taken(pixels)}
<1> DEFINE n == Taken(pixels)
<1>1. n \in Nat /\ n > 0 /\ n <= Len(pixels) /\ n <= Slots /\ Slots \in Nat /\ Len(pixels) \in Nat
  BY TakenType, BoundsAssumption
<1>2. ASSUME NEW i \in 1..Slots
      PROVE  SlotOf(pixels, i) = IF i <= n THEN pixels[i] ELSE pixels[n]
  <2>1. i \in Int /\ n \in Int
    BY <1>1
  <2> HIDE DEF n
  <2>2. Min({i, n}) = IF i <= n THEN i ELSE n
    BY <2>1, MinOfTwo
  <2> QED BY <2>2 DEF SlotOf, n
<1>3. \A j \in 1..Len(pixels) : pixels[j] \in Pixels
  OBVIOUS
<1> HIDE DEF n
<1>4. \A i \in 1..Slots : SlotOf(pixels, i) \in Pixels
  BY <1>1, <1>2, <1>3
<1>5. {SlotOf(pixels, i) : i \in 1..Slots} = {pixels[j] : j \in 1..n}
  <2>1. ASSUME NEW i \in 1..Slots PROVE SlotOf(pixels, i) \in {pixels[j] : j \in 1..n}
    BY <1>1, <1>2
  <2>2. ASSUME NEW j \in 1..n PROVE pixels[j] \in {SlotOf(pixels, i) : i \in 1..Slots}
    <3>1. j \in 1..Slots /\ j <= n
      BY <1>1
    <3> QED BY <1>2, <3>1
  <2> QED BY <2>1, <2>2
<1> QED BY <1>4, <1>5 DEF n

\* The queue without the container at its head.
LEMMA TailKept ==
    ASSUME NEW q \in Seq(Container), Len(q) <= QueueSize, q # <<>>
    PROVE  Tail(q) \in Seq(Container) /\ Len(Tail(q)) <= QueueSize
BY BoundsAssumption

-------------------------------------------------------------------------------
(* The invariant holds.                                                    *)

\* The invariant holds at first.
LEMMA InitHolds == Init => IInv
<1> SUFFICES ASSUME Init PROVE IInv
  OBVIOUS
<1> USE DEF Init
<1>1. TypeOK
  <2>1. <<>> \in Seq(Container) /\ Len(<<>>) <= QueueSize /\ <<>> \in Seq(Pixels)
    BY BoundsAssumption
  <2>2. faults \in 0..MaxFaults /\ left \in 0..FlushTime
    BY BoundsAssumption
  <2>3. slots \in [1..Slots -> Pixels \cup {None}]
    OBVIOUS
  <2> QED BY <2>1, <2>2, <2>3, FullIsSegment DEF TypeOK
<1>2. FlushInv /\ StreamInv
  BY DEF FlushInv, StreamInv
<1>3. RegionInv
  BY DEF RegionInv
<1>4. PixelInv
  <2>1. Suppressed = {}
    BY DEF Suppressed
  <2>2. Listed = {}
    BY DEF Listed
  <2> QED BY <2>1, <2>2 DEF PixelInv
<1> QED BY <1>1, <1>2, <1>3, <1>4 DEF IInv

\* What a step that leaves the filters alone keeps.
LEMMA ConfigKept ==
    ASSUME RegionInv, PixelInv, UNCHANGED <<config, device>>
    PROVE  RegionInv' /\ PixelInv'
BY SMTT(30) DEF RegionInv, PixelInv, config, device, Listed, Suppressed

\* setRoi(): as long as no write fails, the device has the region, or the host.
LEMMA SetRoiKeeps ==
    ASSUME IInv, NEW r \in Regions, SetRoi(r)
    PROVE  IInv'
<1> USE DEF IInv
<1>1. r \in Segment
  BY RegionsAssumption, WidthAssumption DEF SetRoi, Valid, Segment, Pixels
<1>2. PICK done \in 0..2 :
        /\ done < 2 /\ roiFilter => faults < MaxFaults
        /\ ~roiFilter => done = 0
        /\ registers' = [from |-> IF done > 0 THEN r.from ELSE registers.from,
                         to |-> IF done > 1 THEN r.to ELSE registers.to]
        /\ faults' = IF roiFilter /\ done < 2 THEN faults + 1 ELSE faults
        /\ software' = BySoftware(done)
  BY DEF SetRoi
<1>3. /\ exposed' = r /\ roi' = r
      /\ UNCHANGED <<device, streaming, lost, run, queue, slots, hot, saturated,
                     listed, running, pc, saved, flushing, stopping, asked>>
  BY DEF SetRoi
<1>4. registers' \in Segment /\ faults' \in 0..MaxFaults /\ software' \in BOOLEAN
  BY <1>1, <1>2, BoundsAssumption DEF TypeOK, Segment, BySoftware
<1>5. TypeOK'
  BY <1>1, <1>3, <1>4 DEF TypeOK, device, flushing
<1>6. FlushInv' /\ StreamInv'
  BY <1>3 DEF FlushInv, StreamInv, flushing
<1>7. RegionInv'
  <2>1. r = [from |-> r.from, to |-> r.to]
    BY <1>1 DEF Segment
  <2>2. roiFilter /\ ~software' => registers' = roi'
    <3>1. CASE done = 2
      <4>1. registers' = [from |-> r.from, to |-> r.to]
        BY <1>2, <3>1
      <4> QED BY <1>3, <2>1, <4>1
    <3>2. CASE done # 2 /\ roiFilter
      <4>1. done < 2
        BY <3>2
      <4>2. BySoftware(done)
        BY <4>1 DEF BySoftware
      <4> QED BY <1>2, <4>2, Zenon
    <3> QED BY <3>1, <3>2
  <2>3. ~roiFilter => software'
    BY <1>2 DEF BySoftware
  <2>4. faults' = 0 /\ software' => ~roiFilter
    <3>1. roiFilter /\ done < 2 => faults' # 0
      BY <1>2 DEF TypeOK
    <3>2. software' => ~roiFilter \/ done < 2
      BY <1>2 DEF BySoftware
    <3> QED BY <3>1, <3>2
  <2> QED BY <2>2, <2>3, <2>4, <1>3 DEF RegionInv, device
<1>8. PixelInv'
  <2>1. faults' = 0 => faults = 0
    BY <1>2 DEF TypeOK
  <2> QED BY <1>3, <2>1 DEF PixelInv, device, Listed, Suppressed
<1> QED BY <1>5, <1>6, <1>7, <1>8

\* setDefectivePixels(): the slots take the first part of the list, the host the rest.
LEMMA SetDefectivePixelsKeeps ==
    ASSUME IInv, NEW list \in HotLists, NEW sat \in SaturatedSets, SetDefectivePixels(list, sat)
    PROVE  IInv'
<1> USE DEF IInv
<1> DEFINE pixels == Inside(list)
           taken == Taken(pixels)
<1>1. pixels \in Seq(Pixels)
  BY InsideType
<1>2. PICK refused \in SUBSET (1..Slots) :
        /\ refused # {} => taken > 0 /\ faults < MaxFaults
        /\ faults' = IF refused = {} THEN faults ELSE faults + 1
        /\ slots' = [i \in 1..Slots |->
                       IF taken = 0 \/ i \in refused THEN slots[i] ELSE SlotOf(pixels, i)]
  BY DEF SetDefectivePixels
<1>3. /\ saturated' = sat \cap Pixels
      /\ hot' = {pixels[i] : i \in (taken + 1)..Len(pixels)}
      /\ listed' = pixels
      /\ UNCHANGED <<device, streaming, lost, run, queue, registers, exposed,
                     roi, software, running, pc, saved, flushing, stopping, asked>>
  BY DEF SetDefectivePixels
<1>4. /\ taken \in Nat /\ taken <= Len(pixels) /\ taken <= Slots
      /\ ~pixelFilter => taken = 0
      /\ pixelFilter => \/ taken = Len(pixels)
                        \/ taken = Slots /\ Slots < Len(pixels)
  BY <1>1, TakenType
<1>5. Slots \in Nat /\ Len(pixels) \in Nat
  BY <1>1, BoundsAssumption
<1>6. taken > 0 =>
        /\ \A i \in 1..Slots : SlotOf(pixels, i) \in Pixels
        /\ {SlotOf(pixels, i) : i \in 1..Slots} = {pixels[j] : j \in 1..taken}
  BY <1>1, SlotsHoldTaken
<1> HIDE DEF pixels, taken
<1>7. \A i \in 1..Len(pixels) : pixels[i] \in Pixels
  BY <1>1
<1>8. TypeOK'
  <2>1. slots' \in [1..Slots -> Pixels \cup {None}]
    BY <1>2, <1>4, <1>5, <1>6 DEF TypeOK
  <2>2. faults' \in 0..MaxFaults
    BY <1>2, BoundsAssumption DEF TypeOK
  <2>3. hot' \subseteq Pixels
    BY <1>3, <1>4, <1>5, <1>7
  <2> QED BY <1>1, <1>3, <2>1, <2>2, <2>3 DEF TypeOK, device, flushing
<1>9. FlushInv' /\ StreamInv'
  BY <1>3 DEF FlushInv, StreamInv, flushing
<1>10. RegionInv'
  <2>1. faults' = 0 => faults = 0
    BY <1>2 DEF TypeOK
  <2> QED BY <1>3, <2>1 DEF RegionInv, device
<1>11. PixelInv'
  <2>1. taken = 0 => Suppressed' = Suppressed
    BY <1>2 DEF Suppressed, TypeOK
  <2>2. ~pixelFilter' => Suppressed' = {}
    BY <1>3, <1>4, <1>5, <2>1 DEF PixelInv, device
  <2>3. Listed' = {pixels[i] : i \in 1..Len(pixels)}
    BY <1>3 DEF Listed
  <2>4. ASSUME faults' = 0
        PROVE  /\ hot' \subseteq Listed'
               /\ Listed' \subseteq hot' \cup Suppressed'
               /\ listed' # <<>> => Suppressed' \subseteq Listed'
               /\ pixelFilter' /\ Len(listed') \in 1..Slots => hot' = {}
    <3>1. refused = {}
      BY <1>2, <2>4 DEF TypeOK
    <3>2. taken > 0 => Suppressed' = {pixels[j] : j \in 1..taken}
      <4> HAVE taken > 0
      <4>1. slots' = [i \in 1..Slots |-> SlotOf(pixels, i)]
        BY <1>2, <1>4, <1>5, <3>1
      <4>2. {slots'[i] : i \in 1..Slots} = {pixels[j] : j \in 1..taken}
        BY <1>6, <4>1
      <4>3. None \notin {pixels[j] : j \in 1..taken}
        BY <1>4, <1>5, <1>7, WidthAssumption DEF Pixels, None
      <4> QED BY <4>2, <4>3 DEF Suppressed
    <3>3. hot' \subseteq Listed'
      BY <1>3, <1>4, <1>5, <2>3
    <3>4. Listed' \subseteq hot' \cup Suppressed'
      <4>1. CASE taken = 0
        BY <1>3, <2>3, <4>1
      <4>2. CASE taken > 0
        BY <1>3, <1>4, <1>5, <2>3, <3>2, <4>2
      <4> QED BY <1>4, <1>5, <4>1, <4>2
    <3>5. listed' # <<>> => Suppressed' \subseteq Listed'
      <4>1. CASE taken > 0
        BY <1>4, <1>5, <2>3, <3>2, <4>1
      <4>2. CASE taken = 0 /\ listed' # <<>>
        <5>1. Len(pixels) # 0
          BY <1>1, <1>3, <4>2
        <5>2. ~pixelFilter \/ Slots = 0
          BY <1>4, <1>5, <4>2, <5>1
        <5>3. Suppressed = {}
          BY <5>2 DEF PixelInv, Suppressed
        <5> QED BY <2>1, <4>2, <5>3
      <4> QED BY <1>4, <1>5, <4>1, <4>2
    <3>6. pixelFilter' /\ Len(listed') \in 1..Slots => hot' = {}
      BY <1>3, <1>4, <1>5 DEF device
    <3> QED BY <3>3, <3>4, <3>5, <3>6
  <2> QED BY <2>2, <2>4 DEF PixelInv
<1> QED BY <1>8, <1>9, <1>10, <1>11

\* A step keeps the invariant.
LEMMA NextKeeps == IInv /\ [Next]_vars => IInv'
<1> SUFFICES ASSUME IInv, [Next]_vars PROVE IInv'
  OBVIOUS
<1> USE DEF IInv
<1>1. CASE UNCHANGED vars
  <2>1. TypeOK' /\ FlushInv' /\ StreamInv'
    BY <1>1 DEF vars, config, device, flushing, TypeOK, FlushInv, StreamInv
  <2>2. RegionInv' /\ PixelInv'
    BY <1>1, ConfigKept DEF vars
  <2> QED BY <2>1, <2>2
<1>2. CASE Start
  <2>1. TypeOK' /\ FlushInv' /\ StreamInv'
    BY <1>2 DEF Start, Free, TypeOK, FlushInv, StreamInv, config, device, flushing
  <2>2. RegionInv' /\ PixelInv'
    BY <1>2, ConfigKept DEF Start
  <2> QED BY <2>1, <2>2
<1>3. CASE Flush
  <2>1. left' \in 0..FlushTime /\ left' \in 1..FlushTime
    BY <1>3, BoundsAssumption DEF Flush
  <2>3. TypeOK' /\ FlushInv' /\ StreamInv'
    BY <1>3, <2>1 DEF Flush, Free, TypeOK, FlushInv, StreamInv, config, device
  <2>2. RegionInv' /\ PixelInv'
    BY <1>3, ConfigKept DEF Flush
  <2> QED BY <2>2, <2>3
<1>4. CASE \E s \in {"dvs", "aps", "imu"}, state \in BOOLEAN : Enable(s, state)
  <2>1. PICK s \in {"dvs", "aps", "imu"}, state \in BOOLEAN : Enable(s, state)
    BY <1>4
  <2>2. TypeOK' /\ FlushInv' /\ StreamInv'
    BY <2>1 DEF Enable, Free, TypeOK, FlushInv, StreamInv, config, device, flushing
  <2>3. RegionInv' /\ PixelInv'
    BY <2>1, ConfigKept DEF Enable
  <2> QED BY <2>2, <2>3
<1>5. CASE \E r \in Regions : SetRoi(r)
  BY <1>5, SetRoiKeeps
<1>6. CASE \E list \in HotLists, sat \in SaturatedSets : SetDefectivePixels(list, sat)
  BY <1>6, SetDefectivePixelsKeeps
<1>7. CASE Receive
  <2>1. NextQueue \in Seq(Container) /\ Len(NextQueue) <= QueueSize
    BY TailKept DEF NextQueue, TypeOK
  <2>2. TypeOK' /\ FlushInv' /\ StreamInv'
    BY <1>7, <2>1 DEF Receive, TypeOK, FlushInv, StreamInv, config, device, flushing
  <2>3. RegionInv' /\ PixelInv'
    BY <1>7, ConfigKept DEF Receive
  <2> QED BY <2>2, <2>3
<1>8. CASE Restore
  <2>1. left' \in 0..FlushTime /\ left' \in 1..FlushTime
    BY <1>8, BoundsAssumption DEF Restore
  <2>3. TypeOK' /\ FlushInv' /\ StreamInv'
    BY <1>8, <2>1 DEF Restore, Restored, TypeOK, FlushInv, StreamInv, config, device
  <2>2. RegionInv' /\ PixelInv'
    BY <1>8, ConfigKept DEF Restore
  <2> QED BY <2>2, <2>3
<1>9. CASE Discard
  <2>1. Tail(queue) \in Seq(Container) /\ Len(Tail(queue)) <= QueueSize
    BY <1>9, TailKept DEF Discard, TypeOK
  <2>2. left' \in 0..FlushTime /\ begun' \in BOOLEAN
    BY <1>9, BoundsAssumption DEF Discard, Left, TypeOK, FlushInv
  <2>3. TypeOK'
    BY <1>9, <2>1, <2>2 DEF Discard, TypeOK, config, device
  <2>4. FlushInv' /\ StreamInv'
    BY <1>9, <2>2, BoundsAssumption DEF Discard, TypeOK, FlushInv, StreamInv
  <2>5. RegionInv' /\ PixelInv'
    BY <1>9, ConfigKept DEF Discard
  <2> QED BY <2>3, <2>4, <2>5
<1>10. CASE \E t \in Threads : Stop(t) \/ Stopped(t)
  <2>1. PICK t \in Threads : Stop(t) \/ Stopped(t)
    BY <1>10
  <2>2. <<>> \in Seq(Container) /\ Len(<<>>) <= QueueSize
    BY BoundsAssumption
  <2>3. TypeOK' /\ FlushInv' /\ StreamInv'
    BY <2>1, <2>2 DEF Stop, Stopped, TypeOK, FlushInv, StreamInv, config, device, flushing
  <2>4. RegionInv' /\ PixelInv'
    BY <2>1, ConfigKept DEF Stop, Stopped
  <2> QED BY <2>3, <2>4
<1>11. CASE \E timed \in BOOLEAN : Produce(timed)
  <2>1. PICK timed \in BOOLEAN : Produce(timed)
    BY <1>11
  <2>2. [timed |-> timed, region |-> exposed, frame |-> timed /\ "aps" \in run] \in Container
    BY DEF Container, TypeOK
  <2>3. queue' \in Seq(Container) /\ Len(queue') <= QueueSize
    BY <2>1, <2>2, BoundsAssumption DEF Produce, TypeOK
  <2>4. TypeOK' /\ FlushInv' /\ StreamInv'
    BY <2>1, <2>3 DEF Produce, TypeOK, FlushInv, StreamInv, config, device, flushing
  <2>5. RegionInv' /\ PixelInv'
    BY <2>1, ConfigKept DEF Produce
  <2> QED BY <2>4, <2>5
<1>12. CASE Lose
  <2>1. TypeOK' /\ FlushInv' /\ StreamInv'
    BY <1>12 DEF Lose, TypeOK, FlushInv, StreamInv, config, device, flushing
  <2>2. RegionInv' /\ PixelInv'
    BY <1>12, ConfigKept DEF Lose
  <2> QED BY <2>1, <2>2
<1> QED
  BY <1>1, <1>2, <1>3, <1>4, <1>5, <1>6, <1>7, <1>8, <1>9, <1>10, <1>11, <1>12
     DEF Next, User, Work, DiscardNone, RefuseRoi, GetData, GetEventRaw,
         EnableDvs, EnableAps, EnableImu

\* The invariant holds of every state that the camera reaches.
THEOREM Invariant == Spec => []IInv
BY InitHolds, NextKeeps, PTL DEF Spec

-------------------------------------------------------------------------------
(* What follows from it.                                                   *)

\* Type correctness: the registers and the exposed region stay inside the sensor,
\* and the library never holds more containers than its queue has places, whatever
\* is asked of setRoi() and of setDefectivePixels().
THEOREM TypeCorrect == Spec => []TypeOK
BY Invariant, PTL DEF IInv

\* start() and stop() leave each stream as the user enabled or disabled it.
THEOREM StreamsKept == Spec => []StreamsAsAsked
<1>1. IInv => StreamsAsAsked
  BY DEF IInv, StreamInv, StreamsAsAsked
<1> QED BY <1>1, Invariant, PTL

\* What is seen follows from who filters which part.
LEMMA FilterExactHolds == IInv => FilterExact
<1> SUFFICES ASSUME IInv PROVE FilterExact
  OBVIOUS
<1> DEFINE wanted == {p \in Pixels : In(p, roi)}
<1>1. Range(listed) = Listed
  BY DEF Range, Listed, IInv, TypeOK
<1>2. ASSUME NEW p \in Pixels
      PROVE  (\A i \in 1..Slots : slots[i] # p) <=> p \notin Suppressed
  BY <1>2, WidthAssumption DEF Suppressed, Pixels, None
<1>3. ASSUME NEW p \in Pixels
      PROVE  (roiFilter => In(p, registers)) /\ (software => In(p, roi)) => In(p, roi)
  BY FullIsSegment DEF IInv, RegionInv, TypeOK
<1>4. ASSUME NEW p \in Pixels, faults = 0, In(p, roi)
      PROVE  roiFilter => In(p, registers)
  BY <1>4 DEF IInv, RegionInv, TypeOK
<1>5. Seen \subseteq wanted
  BY <1>3 DEF Seen, ByDevice, ByHost
<1>6. ASSUME faults = 0
      PROVE  /\ Seen \subseteq wanted \ Listed
             /\ listed # <<>> => Seen = wanted \ Listed
             /\ roiFilter /\ pixelFilter /\ Len(listed) \in 1..Slots =>
                  SeenRaw = wanted \ Listed
  <2>1. /\ hot \subseteq Listed
        /\ Listed \subseteq hot \cup Suppressed
        /\ listed # <<>> => Suppressed \subseteq Listed
        /\ pixelFilter /\ Len(listed) \in 1..Slots => hot = {}
    BY <1>6 DEF IInv, PixelInv
  <2>2. Seen \subseteq wanted \ Listed
    BY <1>2, <1>5, <2>1 DEF Seen, ByDevice, ByHost
  <2>3. listed # <<>> => wanted \ Listed \subseteq Seen
    BY <1>2, <1>4, <1>6, <2>1 DEF Seen, ByDevice, ByHost
  <2>4. ASSUME roiFilter /\ pixelFilter /\ Len(listed) \in 1..Slots
        PROVE  SeenRaw = wanted \ Listed
    <3>1. registers = roi
      BY <1>6, <2>4 DEF IInv, RegionInv, TypeOK
    <3>2. listed # <<>>
      BY <2>4
    <3>3. Suppressed = Listed
      BY <2>1, <2>4, <3>2 DEF IInv, TypeOK
    <3> QED BY <1>2, <2>4, <3>1, <3>3 DEF SeenRaw, ByDevice
  <2> QED BY <2>2, <2>3, <2>4
<1> QED BY <1>1, <1>5, <1>6 DEF FilterExact

\* Whatever regions and lists were set, whoever filters them and wherever writes
\* of the registers failed, no event outside the region in force is given; until
\* the first failure the listed pixels are exactly those that are missing.
THEOREM FiltersExactly == Spec => []FilterExact
BY FilterExactHolds, Invariant, PTL

\* A pixel is repaired from the neighbours that the code takes.
LEMMA Repairs ==
    ASSUME roi \in Segment
    PROVE  Repaired(roi, Interpolated(roi))
<1> DEFINE n == roi.to - roi.from + 1
<1>1. roi.from \in Int /\ roi.to \in Int
  BY WidthAssumption DEF Segment, Pixels
<1>2. SUFFICES ASSUME NEW p \in roi.from..roi.to
               PROVE  LET near == {q \in {p - 1, p + 1} : In(q, roi)} \ saturated
                      IN  Interpolated(roi)[p - roi.from] =
                            IF p \in saturated /\ near # {} THEN near ELSE {p}
  BY DEF Repaired
<1> DEFINE near == {q \in {p - 1, p + 1} : In(q, roi)} \ saturated
           k == p - roi.from
<1>3. p \in Int /\ k \in 0..(n - 1) /\ k + Offset = p /\ k + roi.from = p
  BY <1>1 DEF Offset
<1>4. Neighbours(p, n) = near
  BY <1>1, <1>3 DEF Neighbours, Offset, In
<1>5. {q - Offset + roi.from : q \in near} = near
  <2>1. \A q \in near : q - Offset + roi.from = q
    BY <1>1, <1>3 DEF Offset
  <2> HIDE DEF near
  <2> QED BY <2>1
<1>6. Interpolated(roi)[k] =
        IF k + Offset \in saturated /\ Neighbours(k + Offset, n) # {}
          THEN {q - Offset + roi.from : q \in Neighbours(k + Offset, n)}
          ELSE {k + roi.from}
  BY <1>3 DEF Interpolated
<1> QED BY <1>3, <1>4, <1>5, <1>6

\* Of every frame exposed in the region in force, getData() replaces exactly the
\* saturated pixels, by their neighbours in the frame that are not saturated.
THEOREM FramesAreRepaired == Spec => FramesRepaired
<1>1. TypeOK => [GetData /\ queue # <<>> /\ Head(queue).frame /\ Head(queue).region = roi =>
                   Repaired(roi, Given)]_vars
  BY Repairs DEF TypeOK, Given
<1> QED BY <1>1, TypeCorrect, PTL DEF FramesRepaired
===============================================================================
