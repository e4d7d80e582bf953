------------------------- MODULE AbstractReaderProofs -------------------------
(***************************************************************************)
(* What holds of AbstractReader for every file, block size, level and      *)
(* number of faults.                                                       *)
(***************************************************************************)
EXTENDS AbstractReader, SequenceTheorems, TLAPS

-------------------------------------------------------------------------------
(* The queue.                                                              *)

\* A push gives the queue no more than it can hold.
LEMMA PushedType ==
    ASSUME NEW S, NEW q \in Seq(S), NEW events \in Seq(S), NEW cap \in Nat,
           Len(q) <= cap
    PROVE  /\ Pushed(q, cap, events) \in Seq(S)
           /\ Len(Pushed(q, cap, events)) <= cap
           /\ Len(Pushed(q, cap, events)) <= Len(q) + Len(events)
<1> DEFINE m == Lesser(Len(events), cap - Len(q))
           part == SubSeq(events, 1, m)
<1>1. Len(q) \in Nat /\ Len(events) \in Nat
  BY LenProperties
<1>2. m \in 0..Len(events) /\ m <= cap - Len(q)
  BY <1>1 DEF Lesser
<1>3. \A i \in 1..m : events[i] \in S
  BY <1>1, <1>2, ElementOfSeq
<1>4. part \in Seq(S) /\ Len(part) = m
  <2> HIDE DEF m
  <2>1. m \in Int
    BY <1>2
  <2>2. part \in Seq(S) /\ Len(part) = IF 1 <= m THEN m - 1 + 1 ELSE 0
    BY <1>3, <2>1, SubSeqProperties
  <2> QED BY <1>2, <2>1, <2>2
<1>5. q \o part \in Seq(S) /\ Len(q \o part) = Len(q) + Len(part)
  BY <1>4, ConcatProperties
<1>6. Pushed(q, cap, events) = q \o part
  BY DEF Pushed
<1> QED BY <1>1, <1>2, <1>4, <1>5, <1>6

\* A push that fits adds every event, in order.
LEMMA PushedFits ==
    ASSUME NEW S, NEW q \in Seq(S), NEW events \in Seq(S), NEW cap \in Nat,
           Len(q) + Len(events) <= cap
    PROVE  Pushed(q, cap, events) = q \o events
<1>1. Len(q) \in Nat /\ Len(events) \in Nat
  BY LenProperties
<1>2. Lesser(Len(events), cap - Len(q)) = Len(events)
  BY <1>1 DEF Lesser
<1>3. SubSeq(events, 1, Len(events)) = events
  BY SubSeqFull
<1> QED BY <1>2, <1>3 DEF Pushed

\* The events left in a block, or the first of them, are events.
LEMMA PartOfBlock ==
    ASSUME NEW S, NEW s \in Seq(S), NEW i \in Nat, NEW n \in Nat,
           n <= Len(s)
    PROVE  /\ SubSeq(s, i + 1, n) \in Seq(S)
           /\ i <= n => Len(SubSeq(s, i + 1, n)) = n - i
           /\ n <= i => SubSeq(s, i + 1, n) = <<>>
<1>1. Len(s) \in Nat
  BY LenProperties
<1>2. \A k \in (i + 1)..n : s[k] \in S
  BY <1>1, ElementOfSeq
<1>3. /\ SubSeq(s, i + 1, n) \in Seq(S)
      /\ Len(SubSeq(s, i + 1, n)) = IF i + 1 <= n THEN n - (i + 1) + 1 ELSE 0
  BY <1>2, SubSeqProperties
<1>4. n <= i => SubSeq(s, i + 1, n) = <<>>
  BY SubSeqEmpty
<1> QED BY <1>3, <1>4

-------------------------------------------------------------------------------
(* Types.                                                                  *)

\* The queue never holds more than its capacity: TypeOK alone is not inductive,
\* since the room the thread computes is a difference with it.
TypeInv == TypeOK /\ Len(queue) <= capacity

USE FileAssumption, RoiAssumption, TransformAssumption, SizeAssumption,
    ArgumentAssumption, FaultAssumption

\* A reader just constructed has no queue and no thread.
LEMMA TypeInit == Init => TypeInv
<1> SUFFICES ASSUME Init PROVE TypeInv
  OBVIOUS
<1>1. <<>> \in Seq(Event) /\ Len(<<>>) = 0
  BY EmptySeq
<1>2. /\ pc \in [Actors -> UserPC \cup ThreadPC]
      /\ pc["user"] \in UserPC
      /\ pc["thread"] \in ThreadPC
  BY DEF Init, Actors, UserPC, ThreadPC
<1>3. budget \in [Actors -> Nat]
  BY DEF Init
<1>4. cursor \in 0..FileLen
  BY FileAssumption DEF Init
<1>5. roi \in SUBSET (1..FileLen) /\ transform \in Transforms
  BY TransformAssumption DEF Init
<1>6. TypeOK
  BY <1>1, <1>2, <1>3, <1>4, <1>5 DEF Init, TypeOK
<1>7. Len(queue) <= capacity
  BY <1>1 DEF Init
<1> QED BY <1>6, <1>7 DEF TypeInv

\* The places of both actors are known after a step.
PcOK == /\ pc \in [Actors -> UserPC \cup ThreadPC]
        /\ pc["user"] \in UserPC
        /\ pc["thread"] \in ThreadPC

\* A step of the user leaves the thread where it is.
LEMMA UserMoves ==
    ASSUME PcOK, NEW q \in UserPC, pc' = [pc EXCEPT !["user"] = q]
    PROVE  PcOK' /\ pc'["user"] = q /\ pc'["thread"] = pc["thread"]
  BY DEF PcOK, Actors

\* A step of the thread leaves the user where it is.
LEMMA ThreadMoves ==
    ASSUME PcOK, NEW t \in ThreadPC, pc' = [pc EXCEPT !["thread"] = t]
    PROVE  PcOK' /\ pc'["user"] = pc["user"] /\ pc'["thread"] = t
  BY DEF PcOK, Actors

\* A step that ends a call puts both actors at known places.
LEMMA AtType ==
    ASSUME NEW q \in UserPC, NEW t \in ThreadPC, At(q, t)
    PROVE  PcOK' /\ pc'["user"] = q /\ pc'["thread"] = t
  BY DEF PcOK, Actors, At

\* After start_() the user is out of its call, with a thread or without.
LEMMA StartType ==
    ASSUME TypeInv, Start \/ Restart
    PROVE  /\ running' \in BOOLEAN
           /\ PcOK'
           /\ pc'["user"] = "idle"
           /\ pc'["thread"] \in {"loop", "none"}
<1>1. "idle" \in UserPC /\ "none" \in ThreadPC /\ "loop" \in ThreadPC
  BY DEF UserPC, ThreadPC
<1>2. running' \in BOOLEAN
  BY DEF Start, Restart, TypeInv, TypeOK
<1>3. At("idle", "loop") \/ At("idle", "none")
  BY DEF Start, Restart
<1> QED BY <1>1, <1>2, <1>3, AtType

\* The queue resize_() makes holds no more than its capacity.
LEMMA ResizeType ==
    ASSUME TypeInv, NEW cap \in Nat, Resize(cap)
    PROVE  queue' \in Seq(Event) /\ capacity' \in Nat /\ Len(queue') <= capacity'
<1>1. <<>> \in Seq(Event) /\ Len(<<>>) = 0
  BY EmptySeq
<1>2. queue \in Seq(Event) /\ Len(<<>>) <= cap
  BY <1>1 DEF TypeInv, TypeOK
<1>3. /\ Pushed(<<>>, cap, queue) \in Seq(Event)
      /\ Len(Pushed(<<>>, cap, queue)) <= cap
  BY <1>1, <1>2, PushedType
<1> QED BY <1>3 DEF Resize

\* Every step keeps the types.
LEMMA TypeNext == TypeInv /\ [Next]_vars => TypeInv'
<1> SUFFICES ASSUME TypeInv, [Next]_vars PROVE TypeInv'
  OBVIOUS
<1>p. PcOK /\ Len(queue) \in Nat /\ Len(block) \in Nat
  BY LenProperties DEF TypeInv, TypeOK, PcOK
<1>q. ASSUME PcOK', UNCHANGED <<threaded, wanted, held, budget, running, level,
                              queue, capacity, source, settings, delivered>>
      PROVE  TypeInv'
  BY <1>q DEF TypeInv, TypeOK, PcOK, source, settings
<1>1. ASSUME NEW n \in Asks, AskThread(n) PROVE TypeInv'
  <2>1. PcOK'
    BY <1>1, <1>p, UserMoves DEF AskThread, UserPC
  <2> QED BY <1>1, <2>1, ArgumentAssumption
          DEF AskThread, TypeInv, TypeOK, PcOK, source, settings
<1>2. ASSUME NEW n \in Asks, FillAlone(n) PROVE TypeInv'
  <2>1. PcOK'
    BY <1>2, <1>p, UserMoves DEF FillAlone, UserPC
  <2>2. n \in Nat /\ Grown(n) \in Nat
    BY <1>p, ArgumentAssumption, SizeAssumption
       DEF Grown, Greater, HasQueue, TypeInv, TypeOK
  <2>3. queue' \in Seq(Event) /\ capacity' \in Nat /\ Len(queue') <= capacity'
    BY <1>2, <2>2, ResizeType DEF FillAlone, KeepQueue, TypeInv, TypeOK
  <2>4. wanted' \in Nat
    BY <1>2, <1>p, <2>2 DEF FillAlone
  <2> QED BY <1>2, <2>1, <2>3, <2>4
          DEF FillAlone, TypeInv, TypeOK, PcOK, source, settings
<1>3. ASSUME NEW call \in Stopping, Stop(call) PROVE TypeInv'
  <2>1. PcOK'
    BY <1>3, <1>p, UserMoves DEF Stop, UserPC
  <2> QED BY <1>3, <2>1 DEF Stop, TypeInv, TypeOK, PcOK, source, settings
<1>4. CASE Pop
  <2>1. /\ Head(queue) \in Event
        /\ Tail(queue) \in Seq(Event)
        /\ Len(Tail(queue)) = Len(queue) - 1
    BY <1>4, HeadTailProperties DEF Pop, TypeInv, TypeOK
  <2>2. Append(delivered, Head(queue)) \in Seq(Event)
    BY <2>1, AppendProperties DEF TypeInv, TypeOK
  <2>3. Len(Tail(queue)) <= capacity
    BY <1>p, <2>1 DEF TypeInv, TypeOK
  <2> QED BY <1>4, <2>1, <2>2, <2>3
          DEF Pop, TypeInv, TypeOK, control, source, settings
<1>5. ASSUME NEW n \in Levels, Prefetch(n) PROVE TypeInv'
  <2>1. n \in Nat /\ Greater(n, MinCapacity) \in Nat
    BY ArgumentAssumption, SizeAssumption DEF Greater
  <2>2. PcOK' /\ running' \in BOOLEAN
    BY <1>5, StartType, AtType DEF Prefetch, UserPC, ThreadPC, TypeInv, TypeOK
  <2>3. queue' \in Seq(Event) /\ capacity' \in Nat /\ Len(queue') <= capacity'
    BY <1>5, <2>1, ResizeType DEF Prefetch, KeepQueue, TypeInv, TypeOK
  <2> QED BY <1>5, <2>1, <2>2, <2>3
          DEF Prefetch, TypeInv, TypeOK, PcOK, source, settings
<1>6. CASE Reset
  <2>1. PcOK' /\ running' \in BOOLEAN
    BY <1>6, StartType DEF Reset
  <2>2. <<>> \in Seq(Event) /\ Len(<<>>) = 0
    BY EmptySeq
  <2>3. 0 \in 0..FileLen
    BY FileAssumption
  <2>4. /\ queue' = <<>> /\ block' = <<>> /\ delivered' = <<>>
        /\ blockPos' = 0 /\ got' = 0 /\ cursor' = 0 /\ finished' = FALSE
        /\ UNCHANGED <<threaded, wanted, held, budget, level, capacity,
                       readFaults, roi, transform>>
    BY <1>6 DEF Reset, BlockDropped, settings
  <2>5. TypeOK'
    BY <2>1, <2>2, <2>3, <2>4 DEF TypeInv, TypeOK, PcOK
  <2>6. Len(queue') <= capacity'
    BY <2>2, <2>4 DEF TypeInv, TypeOK
  <2> QED BY <2>5, <2>6 DEF TypeInv
<1>7. ASSUME NEW x \in Transforms, SetTransform(x) PROVE TypeInv'
  <2>1. PcOK' /\ running' \in BOOLEAN
    BY <1>7, StartType DEF SetTransform
  <2> QED BY <1>7, <2>1 DEF SetTransform, TypeInv, TypeOK, PcOK, source
<1>8. ASSUME NEW r \in Rois, SetRoi(r) PROVE TypeInv'
  <2>1. PcOK' /\ running' \in BOOLEAN
    BY <1>8, StartType DEF SetRoi
  <2> QED BY <1>8, <2>1, RoiAssumption
          DEF SetRoi, TypeInv, TypeOK, PcOK, source
<1>9. CASE Destroy
  <2>1. PcOK'
    BY <1>9, AtType DEF Destroy, UserPC, ThreadPC, Gone
  <2> QED BY <1>9, <2>1, <1>q DEF Destroy
<1>10. CASE WaitSize
  BY <1>10, <1>p, <1>q, UserMoves DEF WaitSize, UserPC
<1>11. CASE WaitFinished
  BY <1>11, <1>p, <1>q, UserMoves DEF WaitFinished, UserPC
<1>12. CASE FillMore
  <2>1. PcOK'
    BY <1>12, <1>p, UserMoves DEF FillMore, UserPC
  <2>2. Len(queue) < wanted => wanted - Len(queue) \in Nat
    BY <1>p DEF TypeInv, TypeOK
  <2>3. budget' \in [Actors -> Nat]
    BY <1>12, <2>2 DEF FillMore, TypeInv, TypeOK
  <2> QED BY <1>12, <2>1, <2>3
          DEF FillMore, TypeInv, TypeOK, PcOK, source, settings
<1>13. ASSUME NEW p \in Actors, ReadBlock(p) PROVE TypeInv'
  <2> p = "user" \/ p = "thread"
    BY DEF Actors
  <2>1. CASE BeginRead(p)
    <3>1. PcOK'
      BY <2>1, <1>p, UserMoves, ThreadMoves DEF BeginRead, UserPC, ThreadPC
    <3>2. <<>> \in Seq(Event)
      BY EmptySeq
    <3> QED BY <2>1, <3>1, <3>2
            DEF BeginRead, TypeInv, TypeOK, PcOK, settings
  <2>2. CASE ReadFails(p)
    <3>1. PcOK'
      BY <2>2, <1>p, UserMoves, AtType DEF ReadFails, UserPC, ThreadPC, Gone
    <3> QED BY <2>2, <3>1 DEF ReadFails, TypeInv, TypeOK, PcOK, settings
  <2>3. CASE ReadEvent(p)
    <3>1. cursor + 1 \in 1..FileLen
      BY <2>3, FileAssumption DEF ReadEvent, TypeInv, TypeOK
    <3>2. [id |-> cursor + 1, by |-> transform] \in Event
      BY <3>1 DEF Event, TypeInv, TypeOK
    <3>3. block' \in Seq(Event)
      BY <2>3, <3>2, AppendProperties DEF ReadEvent, TypeInv, TypeOK
    <3>4. cursor' \in 0..FileLen /\ got' \in Nat
      BY <2>3, <3>1 DEF ReadEvent, TypeInv, TypeOK
    <3> QED BY <2>3, <3>3, <3>4
            DEF ReadEvent, TypeInv, TypeOK, control, settings
  <2>4. CASE EndRead(p)
    <3>1. PcOK'
      BY <2>4, <1>p, UserMoves, ThreadMoves
         DEF EndRead, Return, UserPC, ThreadPC
    <3> QED BY <2>4, <3>1 DEF EndRead, TypeInv, TypeOK, PcOK, settings
  <2>5. CASE Push(p)
    <3> DEFINE count == Lesser(budget[p], Len(block) - blockPos)
               part == SubSeq(block, blockPos + 1, blockPos + count)
    <3>1. PcOK'
      BY <2>5, <1>p, UserMoves, ThreadMoves DEF Push, Return, UserPC, ThreadPC
    <3>2. /\ blockPos + count \in Nat
          /\ blockPos + count <= Len(block)
      BY <2>5, <1>p DEF Push, Lesser, TypeInv, TypeOK
    <3>3. part \in Seq(Event)
      BY <3>2, PartOfBlock DEF TypeInv, TypeOK
    <3>4. queue' = Pushed(queue, capacity, part) /\ blockPos' = blockPos + count
      BY <2>5 DEF Push
    <3>5. queue' \in Seq(Event) /\ Len(queue') <= capacity
      BY <3>3, <3>4, PushedType DEF TypeInv, TypeOK
    <3> HIDE DEF count, part
    <3> QED BY <2>5, <3>1, <3>2, <3>4, <3>5
            DEF Push, TypeInv, TypeOK, PcOK, settings
  <2> QED BY <1>13, <2>1, <2>2, <2>3, <2>4, <2>5 DEF ReadBlock
<1>14. CASE ThreadLoop
  BY <1>14, <1>p, <1>q, ThreadMoves DEF ThreadLoop, ThreadPC
<1>15. CASE ThreadSize
  <2>1. PcOK'
    BY <1>15, <1>p, ThreadMoves DEF ThreadSize, ThreadPC
  <2> QED BY <1>15, <1>p, <2>1
          DEF ThreadSize, TypeInv, TypeOK, PcOK, source, settings
<1>16. CASE ThreadRoom
  <2>1. PcOK'
    BY <1>16, <1>p, ThreadMoves DEF ThreadRoom, ThreadPC
  <2>2. Room \in Nat
    BY <1>p DEF Room, Lesser, TypeInv, TypeOK
  <2>3. budget' \in [Actors -> Nat]
    BY <1>16, <2>2 DEF ThreadRoom, TypeInv, TypeOK
  <2> QED BY <1>16, <2>1, <2>3
          DEF ThreadRoom, TypeInv, TypeOK, PcOK, source, settings
<1>17. CASE UNCHANGED vars
  BY <1>17 DEF vars, control, source, settings, TypeInv, TypeOK
<1> QED BY <1>1, <1>2, <1>3, <1>4, <1>5, <1>6, <1>7, <1>8, <1>9, <1>10, <1>11,
           <1>12, <1>13, <1>14, <1>15, <1>16, <1>17
        DEF Next, Call, Proceed, Thread, Over, Actors

\* Every variable keeps its type, and the queue its capacity.
THEOREM TypeCorrect == Spec => []TypeInv
  BY TypeInit, TypeNext, PTL DEF Spec
\* Every variable keeps its type, whatever the user and the thread do.
THEOREM TypeCorrectOK == Spec => []TypeOK
<1>1. TypeInv => TypeOK
  BY DEF TypeInv
<1> QED BY TypeCorrect, <1>1, PTL

-------------------------------------------------------------------------------
(* The inductive invariant.                                                *)

Reading == {"block", "read"}

\* Who owns the reader.  The thread exists outside stop_() only with running_
\* up, and running_ is down in stop_() and while the user reads by itself.
Handover ==
    /\ pc["user"] \in Stopping \cup Reading \cup {"fill"} => ~running
    /\ pc["thread"] # "none" /\ pc["user"] \notin Stopping \cup Gone => running
    /\ pc["thread"] = "exited" => pc["user"] \in Stopping
    /\ pc["user"] = "destroyed" => pc["thread"] = "none"
    /\ pc["user"] = "aborted" => pc["thread"] = "aborted"
    /\ pc["thread"] = "aborted" => pc["user"] = "aborted"

\* What the reads of the queue still say of it later: the thread's are outdated
\* only by pops, which leave more room.
RoomKnown ==
    /\ pc["thread"] = "room" => Len(queue) <= held
    /\ pc["thread"] \in Reading =>
         /\ Len(queue) + budget["thread"] <= capacity
         /\ Len(queue) + budget["thread"] <= level
    /\ pc["user"] \in Reading \cup {"fill"} =>
         Len(queue) <= wanted /\ wanted <= capacity
    /\ pc["user"] \in Reading => Len(queue) + budget["user"] <= wanted

\* The block while it is read and pushed.
BlockSound ==
    /\ blockPos <= Len(block)
    /\ \A p \in Actors : pc[p] = "read" =>
         blockPos = 0 /\ Len(block) <= got /\ got <= Block
    /\ FinishedMeansAll

IInv == Handover /\ RoomKnown /\ BlockSound

\* The invariant holds of a reader just constructed.
LEMMA IInvInit == Init => IInv
<1> SUFFICES ASSUME Init PROVE IInv
  OBVIOUS
<1>1. pc["user"] = "idle" /\ pc["thread"] = "none"
  BY DEF Init, Actors
<1>2. Len(block) = 0 /\ \A p \in Actors : pc[p] # "read"
  BY <1>1, EmptySeq DEF Init, Actors
<1>3. Handover /\ RoomKnown
  BY <1>1 DEF Handover, RoomKnown, Reading, Stopping, Gone
<1>4. BlockSound
  BY <1>2 DEF Init, BlockSound, FinishedMeansAll
<1> QED BY <1>3, <1>4 DEF IInv

\* The user fills the queue only if there is no thread.
LEMMA Owner ==
    ASSUME Handover
    PROVE  pc["user"] \in Reading \cup {"fill"} => pc["thread"] = "none"
  BY DEF Handover, Reading, Stopping, Gone

\* Every step leaves the reader with one owner.
LEMMA HandoverNext == TypeInv /\ IInv /\ [Next]_vars => Handover'
<1> SUFFICES ASSUME TypeInv, Handover, [Next]_vars PROVE Handover'
  BY DEF IInv
<1>p. PcOK
  BY DEF TypeInv, TypeOK, PcOK
<1> USE DEF Reading, Stopping, Gone
<1>s. ASSUME UNCHANGED <<pc, running>> PROVE Handover'
  BY <1>s DEF Handover
<1>r. ASSUME NEW call \in Stopping, Joined(call), Start \/ Restart
      PROVE  Handover'
  <2>1. /\ pc'["user"] = "idle"
        /\ pc'["thread"] = "none" \/ (pc'["thread"] = "loop" /\ running')
    <3>1. CASE At("idle", "none")
      BY <3>1, AtType DEF UserPC, ThreadPC
    <3>2. CASE At("idle", "loop") /\ running'
      BY <3>2, AtType DEF UserPC, ThreadPC
    <3> QED BY <1>r, <3>1, <3>2 DEF Start, Restart
  <2> QED BY <2>1 DEF Handover
<1>1. ASSUME NEW n \in Asks, AskThread(n) PROVE Handover'
  <2>1. pc'["user"] = "waitSize" /\ pc'["thread"] = pc["thread"]
    BY <1>1, <1>p, UserMoves DEF AskThread, UserPC
  <2> QED BY <1>1, <2>1 DEF AskThread, Handover
<1>2. ASSUME NEW n \in Asks, FillAlone(n) PROVE Handover'
  <2>1. pc'["user"] = "fill" /\ pc'["thread"] = pc["thread"]
    BY <1>2, <1>p, UserMoves DEF FillAlone, UserPC
  <2> QED BY <1>2, <2>1 DEF FillAlone, Alone, Handover
<1>3. ASSUME NEW call \in Stopping, Stop(call) PROVE Handover'
  <2>1. pc'["user"] = call /\ pc'["thread"] = pc["thread"]
    BY <1>3, <1>p, UserMoves DEF Stop, UserPC
  <2> QED BY <1>3, <2>1 DEF Stop, Handover
<1>4. CASE Pop
  BY <1>4, <1>s DEF Pop, control
<1>5. ASSUME NEW n \in Levels, Prefetch(n) PROVE Handover'
  <2>1. CASE Start
    BY <1>5, <2>1, <1>r DEF Prefetch
  <2>2. CASE At("idle", "none")
    <3>1. pc'["user"] = "idle" /\ pc'["thread"] = "none"
      BY <2>2, AtType DEF UserPC, ThreadPC
    <3> QED BY <3>1 DEF Handover
  <2> QED BY <1>5, <2>1, <2>2 DEF Prefetch
<1>6. CASE Reset
  BY <1>6, <1>r DEF Reset
<1>7. ASSUME NEW x \in Transforms, SetTransform(x) PROVE Handover'
  BY <1>7, <1>r DEF SetTransform
<1>8. ASSUME NEW r \in Rois, SetRoi(r) PROVE Handover'
  BY <1>8, <1>r DEF SetRoi
<1>9. CASE Destroy
  <2>1. pc'["user"] = "destroyed" /\ pc'["thread"] = "none"
    BY <1>9, AtType DEF Destroy, UserPC, ThreadPC
  <2> QED BY <2>1 DEF Handover
<1>10. CASE WaitSize
  <2>1. pc'["user"] \in {"idle", "waitFinished"} /\ pc'["thread"] = pc["thread"]
    BY <1>10, <1>p, UserMoves DEF WaitSize, UserPC
  <2> QED BY <1>10, <2>1 DEF WaitSize, Handover
<1>11. CASE WaitFinished
  <2>1. pc'["user"] \in {"idle", "waitSize"} /\ pc'["thread"] = pc["thread"]
    BY <1>11, <1>p, UserMoves DEF WaitFinished, UserPC
  <2> QED BY <1>11, <2>1 DEF WaitFinished, Handover
<1>12. CASE FillMore
  <2>1. pc'["user"] \in {"idle", "block"} /\ pc'["thread"] = pc["thread"]
    BY <1>12, <1>p, UserMoves DEF FillMore, UserPC
  <2> QED BY <1>12, <2>1 DEF FillMore, Handover
<1>13. CASE ReadBlock("user")
  <2>1. /\ pc["user"] \in Reading
        /\ pc'["user"] \in {"idle", "fill", "block", "read"}
        /\ pc'["thread"] = pc["thread"]
    <3>1. CASE BeginRead("user")
      BY <3>1, <1>p, UserMoves DEF BeginRead, UserPC
    <3>2. CASE ReadFails("user")
      BY <3>2, <1>p, UserMoves DEF ReadFails, UserPC
    <3>3. CASE ReadEvent("user")
      BY <3>3 DEF ReadEvent, control
    <3>4. CASE EndRead("user")
      BY <3>4, <1>p, UserMoves DEF EndRead, Return, UserPC
    <3>5. CASE Push("user")
      BY <3>5, <1>p, UserMoves DEF Push, Return, UserPC
    <3> QED BY <1>13, <3>1, <3>2, <3>3, <3>4, <3>5 DEF ReadBlock
  <2>2. UNCHANGED running
    BY <1>13 DEF ReadBlock, BeginRead, ReadFails, ReadEvent, EndRead, Push,
                 control
  <2> QED BY <2>1, <2>2, Owner DEF Handover
<1>14. CASE ReadBlock("thread")
  <2>1. /\ pc["thread"] \in Reading
        /\ \/ /\ pc'["user"] = "aborted"
              /\ pc'["thread"] = "aborted"
           \/ /\ pc'["user"] = pc["user"]
              /\ pc'["thread"] \in {"loop", "block", "read"}
    <3>1. CASE BeginRead("thread")
      BY <3>1, <1>p, ThreadMoves DEF BeginRead, ThreadPC
    <3>2. CASE ReadFails("thread")
      BY <3>2, AtType DEF ReadFails, UserPC, ThreadPC
    <3>3. CASE ReadEvent("thread")
      BY <3>3 DEF ReadEvent, control
    <3>4. CASE EndRead("thread")
      BY <3>4, <1>p, ThreadMoves DEF EndRead, Return, ThreadPC
    <3>5. CASE Push("thread")
      BY <3>5, <1>p, ThreadMoves DEF Push, Return, ThreadPC
    <3> QED BY <1>14, <3>1, <3>2, <3>3, <3>4, <3>5 DEF ReadBlock
  <2>2. UNCHANGED running
    BY <1>14 DEF ReadBlock, BeginRead, ReadFails, ReadEvent, EndRead, Push,
                 control
  <2> QED BY <2>1, <2>2 DEF Handover
<1>15. CASE ThreadLoop
  <2>1. /\ pc'["user"] = pc["user"]
        /\ pc'["thread"] = IF running THEN "size" ELSE "exited"
    BY <1>15, <1>p, ThreadMoves DEF ThreadLoop, ThreadPC
  <2> QED BY <1>15, <2>1 DEF ThreadLoop, Handover
<1>16. CASE ThreadSize
  <2>1. pc'["user"] = pc["user"] /\ pc'["thread"] = "room"
    BY <1>16, <1>p, ThreadMoves DEF ThreadSize, ThreadPC
  <2> QED BY <1>16, <2>1 DEF ThreadSize, Handover
<1>17. CASE ThreadRoom
  <2>1. pc'["user"] = pc["user"] /\ pc'["thread"] \in {"loop", "block"}
    BY <1>17, <1>p, ThreadMoves DEF ThreadRoom, ThreadPC
  <2> QED BY <1>17, <2>1 DEF ThreadRoom, Handover
<1>18. CASE UNCHANGED vars
  BY <1>18, <1>s DEF vars, control
<1> QED BY <1>1, <1>2, <1>3, <1>4, <1>5, <1>6, <1>7, <1>8, <1>9, <1>10, <1>11,
           <1>12, <1>13, <1>14, <1>15, <1>16, <1>17, <1>18
        DEF Next, Call, Proceed, Thread, Over

\* A queue replaced by one at least as large keeps its events.
LEMMA ResizeKeeps ==
    ASSUME TypeInv, NEW cap \in Nat, Resize(cap), Len(queue) <= cap
    PROVE  queue' = queue /\ capacity' = cap
<1>1. <<>> \in Seq(Event) /\ Len(<<>>) = 0 /\ queue \in Seq(Event)
  BY EmptySeq DEF TypeInv, TypeOK
<1>2. Len(<<>>) + Len(queue) <= cap
  BY <1>1, LenProperties
<1>3. Pushed(<<>>, cap, queue) = <<>> \o queue
  BY <1>1, <1>2, PushedFits
<1> QED BY <1>1, <1>3, ConcatEmptySeq DEF Resize

\* fill_() grows the queue to hold what is asked, and keeps what it has.
LEMMA FillAloneGrows ==
    ASSUME TypeInv, NEW n \in Asks, FillAlone(n)
    PROVE  /\ queue' = queue
           /\ capacity' \in Nat
           /\ wanted' = Len(queue) + n
           /\ wanted' <= capacity'
<1>1. n \in Nat /\ Len(queue) \in Nat /\ capacity \in Nat
  BY ArgumentAssumption, LenProperties DEF TypeInv, TypeOK
<1>2. Grown(n) \in Nat /\ Len(queue) + n <= Grown(n)
  BY <1>1, SizeAssumption DEF Grown, Greater, HasQueue
<1>3. wanted' = Len(queue) + n
  BY DEF FillAlone
<1>4. CASE Grown(n) # capacity
  BY <1>1, <1>2, <1>3, <1>4, ResizeKeeps DEF FillAlone
<1>5. CASE Grown(n) = capacity
  BY <1>1, <1>2, <1>3, <1>5 DEF FillAlone, KeepQueue
<1> QED BY <1>4, <1>5

\* What readBlock_() pushes, and where it leaves the block.
LEMMA PushAdds ==
    ASSUME TypeInv, BlockSound, NEW p \in Actors, Push(p)
    PROVE  /\ Len(queue') <= Len(queue) + budget[p]
           /\ blockPos' \in Nat /\ blockPos' <= Len(block)
<1> DEFINE count == Lesser(budget[p], Len(block) - blockPos)
           part == SubSeq(block, blockPos + 1, blockPos + count)
<1>1. Len(queue) \in Nat /\ Len(block) \in Nat /\ blockPos \in Nat
      /\ budget[p] \in Nat
  BY LenProperties DEF TypeInv, TypeOK
<1>2. count \in Nat /\ count <= budget[p] /\ blockPos + count <= Len(block)
  BY <1>1 DEF Push, Lesser
<1>3. queue' = Pushed(queue, capacity, part) /\ blockPos' = blockPos + count
  BY DEF Push
<1> HIDE DEF count
<1>4. part \in Seq(Event) /\ Len(part) = count
  <2>1. blockPos + count \in Nat /\ blockPos <= blockPos + count
    BY <1>1, <1>2
  <2>2. /\ part \in Seq(Event)
        /\ Len(part) = (blockPos + count) - blockPos
    BY <1>1, <1>2, <2>1, PartOfBlock DEF TypeInv, TypeOK
  <2> QED BY <1>1, <1>2, <2>2
<1> HIDE DEF part
<1>5. /\ Pushed(queue, capacity, part) \in Seq(Event)
      /\ Len(Pushed(queue, capacity, part)) <= Len(queue) + Len(part)
  BY <1>4, PushedType DEF TypeInv, TypeOK
<1>6. Len(queue') \in Nat /\ Len(queue') <= Len(queue) + count
  BY <1>3, <1>4, <1>5, LenProperties
<1> QED BY <1>1, <1>2, <1>3, <1>6

\* Every step leaves true what the reads of the queue said.
LEMMA RoomNext == TypeInv /\ IInv /\ [Next]_vars => RoomKnown'
<1> SUFFICES ASSUME TypeInv, IInv, [Next]_vars PROVE RoomKnown'
  OBVIOUS
<1>h. Handover /\ RoomKnown /\ BlockSound
  BY DEF IInv
<1>p. /\ PcOK /\ Len(queue) \in Nat /\ wanted \in Nat /\ held \in Nat
      /\ level \in Nat /\ capacity \in Nat /\ budget \in [Actors -> Nat]
      /\ budget["user"] \in Nat /\ budget["thread"] \in Nat
      /\ Len(queue) <= capacity
  BY LenProperties DEF TypeInv, TypeOK, PcOK, Actors
<1>o. pc["user"] \in Reading \cup {"fill"} => pc["thread"] = "none"
  BY <1>h, Owner
<1> USE DEF Reading, Stopping, Gone
\* A step that leaves what the room depends on alone.
<1>s. ASSUME UNCHANGED <<queue, capacity, held, level, budget, wanted>>,
             pc'["thread"] \in {"room"} \cup Reading => pc'["thread"] = pc["thread"]
                \/ (pc'["thread"] \in Reading /\ pc["thread"] \in Reading),
             pc'["user"] \in {"fill"} => pc["user"] \in Reading \cup {"fill"},
             pc'["user"] \in Reading => pc["user"] \in Reading
      PROVE  RoomKnown'
  BY <1>s, <1>h DEF RoomKnown
<1>r. ASSUME pc'["user"] \notin Reading \cup {"fill"},
             pc'["thread"] \notin Reading \cup {"room"}
      PROVE  RoomKnown'
  BY <1>r DEF RoomKnown
<1>1. ASSUME NEW n \in Asks, AskThread(n) PROVE RoomKnown'
  <2>1. pc'["user"] = "waitSize" /\ pc'["thread"] = pc["thread"]
    BY <1>1, <1>p, UserMoves DEF AskThread, UserPC
  <2> QED BY <1>1, <2>1, <1>h DEF AskThread, RoomKnown
<1>2. ASSUME NEW n \in Asks, FillAlone(n) PROVE RoomKnown'
  <2>1. pc'["user"] = "fill" /\ pc'["thread"] = pc["thread"]
    BY <1>2, <1>p, UserMoves DEF FillAlone, UserPC
  <2>2. pc["thread"] = "none"
    BY <1>2, <1>h DEF FillAlone, Alone, Handover
  <2>3. n \in Nat /\ queue' = queue /\ wanted' = Len(queue) + n
        /\ wanted' <= capacity'
    BY <1>2, FillAloneGrows, ArgumentAssumption
  <2> QED BY <1>p, <2>1, <2>2, <2>3 DEF RoomKnown
<1>3. ASSUME NEW call \in Stopping, Stop(call) PROVE RoomKnown'
  <2>1. pc'["user"] = call /\ pc'["thread"] = pc["thread"]
    BY <1>3, <1>p, UserMoves DEF Stop, UserPC
  <2> QED BY <1>3, <2>1, <1>s DEF Stop
<1>4. CASE Pop
  <2>1. Len(queue') \in Nat /\ Len(queue') <= Len(queue)
    BY <1>4, <1>p, HeadTailProperties DEF Pop, TypeInv, TypeOK
  <2>2. UNCHANGED <<pc, wanted, held, budget, level, capacity>>
    BY <1>4 DEF Pop, control
  <2>3. pc["user"] = "idle"
    BY <1>4 DEF Pop
  <2> QED BY <2>1, <2>2, <2>3, <1>h, <1>p DEF RoomKnown
<1>5. ASSUME NEW n \in Levels, Prefetch(n) PROVE RoomKnown'
  BY <1>5, <1>r, StartType, AtType DEF Prefetch, UserPC, ThreadPC
<1>6. CASE Reset
  BY <1>6, <1>r, StartType DEF Reset
<1>7. ASSUME NEW x \in Transforms, SetTransform(x) PROVE RoomKnown'
  BY <1>7, <1>r, StartType DEF SetTransform
<1>8. ASSUME NEW r \in Rois, SetRoi(r) PROVE RoomKnown'
  BY <1>8, <1>r, StartType DEF SetRoi
<1>9. CASE Destroy
  BY <1>9, <1>r, AtType DEF Destroy, UserPC, ThreadPC
<1>10. CASE WaitSize
  <2>1. pc'["user"] \in {"idle", "waitFinished"} /\ pc'["thread"] = pc["thread"]
    BY <1>10, <1>p, UserMoves DEF WaitSize, UserPC
  <2> QED BY <1>10, <2>1, <1>s DEF WaitSize
<1>11. CASE WaitFinished
  <2>1. pc'["user"] \in {"idle", "waitSize"} /\ pc'["thread"] = pc["thread"]
    BY <1>11, <1>p, UserMoves DEF WaitFinished, UserPC
  <2> QED BY <1>11, <2>1, <1>s DEF WaitFinished
<1>12. CASE FillMore
  <2>1. pc'["user"] \in {"idle", "block"} /\ pc'["thread"] = pc["thread"]
    BY <1>12, <1>p, UserMoves DEF FillMore, UserPC
  <2>2. pc["user"] = "fill" /\ pc["thread"] = "none"
    BY <1>12, <1>o DEF FillMore
  <2>3. pc'["user"] = "block" => budget'["user"] = wanted - Len(queue)
    <3>1. CASE Len(queue) < wanted /\ ~finished
      <4>1. budget' = [budget EXCEPT !["user"] = wanted - Len(queue)]
        BY <1>12, <3>1 DEF FillMore
      <4> QED BY <4>1, <1>p DEF Actors
    <3>2. CASE ~(Len(queue) < wanted /\ ~finished)
      <4>1. pc' = [pc EXCEPT !["user"] = "idle"]
        BY <1>12, <3>2 DEF FillMore
      <4> QED BY <4>1, <1>p, UserMoves DEF UserPC
    <3> QED BY <3>1, <3>2
  <2>4. UNCHANGED <<queue, wanted, capacity>>
    BY <1>12 DEF FillMore
  <2> QED BY <2>1, <2>2, <2>3, <2>4, <1>h, <1>p DEF RoomKnown
<1>13. ASSUME NEW p \in Actors, BeginRead(p) \/ ReadEvent(p) PROVE RoomKnown'
  <2> p = "user" \/ p = "thread"
    BY DEF Actors
  <2>1. UNCHANGED <<queue, capacity, held, level, budget, wanted>>
    BY <1>13 DEF BeginRead, ReadEvent, control
  <2>2. /\ pc[p] \in Reading /\ pc'[p] = "read"
        /\ \A q \in Actors \ {p} : pc'[q] = pc[q]
    <3>1. CASE BeginRead(p)
      BY <3>1, <1>p, UserMoves, ThreadMoves
         DEF BeginRead, Actors, UserPC, ThreadPC
    <3>2. CASE ReadEvent(p)
      BY <3>2 DEF ReadEvent, control
    <3> QED BY <1>13, <3>1, <3>2
  <2>3. CASE p = "user"
    BY <2>1, <2>2, <2>3, <1>s DEF Actors
  <2>4. CASE p = "thread"
    BY <2>1, <2>2, <2>4, <1>s DEF Actors
  <2> QED BY <2>3, <2>4
<1>14. CASE ReadFails("user")
  <2>1. pc'["user"] = "idle" /\ pc'["thread"] = pc["thread"]
    BY <1>14, <1>p, UserMoves DEF ReadFails, UserPC
  <2>2. pc["thread"] = "none"
    BY <1>14, <1>o DEF ReadFails
  <2> QED BY <2>1, <2>2, <1>r
<1>15. CASE ReadFails("thread")
  BY <1>15, <1>r, AtType DEF ReadFails, UserPC, ThreadPC
<1>16. CASE EndRead("user")
  <2>1. pc'["user"] \in {"fill", "block"} /\ pc'["thread"] = pc["thread"]
    BY <1>16, <1>p, UserMoves DEF EndRead, Return, UserPC
  <2> QED BY <1>16, <2>1, <1>s DEF EndRead
<1>17. CASE EndRead("thread")
  <2>1. pc'["thread"] \in {"loop", "block"} /\ pc'["user"] = pc["user"]
    BY <1>17, <1>p, ThreadMoves DEF EndRead, Return, ThreadPC
  <2> QED BY <1>17, <2>1, <1>s DEF EndRead
<1>18. CASE Push("user")
  <2>1. pc'["user"] = "fill" /\ pc'["thread"] = pc["thread"]
    BY <1>18, <1>p, UserMoves DEF Push, Return, UserPC
  <2>2. pc["user"] = "block" /\ pc["thread"] = "none"
    BY <1>18, <1>o DEF Push
  <2>3. Len(queue') <= Len(queue) + budget["user"]
    BY <1>18, <1>h, PushAdds DEF Actors
  <2>4. UNCHANGED <<wanted, capacity>>
    BY <1>18 DEF Push
  <2>5. Len(queue') \in Nat
    BY TypeNext, LenProperties DEF TypeInv, TypeOK
  <2> QED BY <2>1, <2>2, <2>3, <2>4, <2>5, <1>h, <1>p DEF RoomKnown
<1>19. CASE Push("thread")
  <2>1. pc'["thread"] = "loop" /\ pc'["user"] = pc["user"]
    BY <1>19, <1>p, ThreadMoves DEF Push, Return, ThreadPC
  <2>2. pc["user"] \notin Reading \cup {"fill"}
    BY <1>19, <1>o DEF Push
  <2> QED BY <2>1, <2>2, <1>r
<1>20. CASE ThreadLoop
  <2>1. pc'["user"] = pc["user"] /\ pc'["thread"] \in {"size", "exited"}
    BY <1>20, <1>p, ThreadMoves DEF ThreadLoop, ThreadPC
  <2> QED BY <1>20, <2>1, <1>s DEF ThreadLoop
<1>21. CASE ThreadSize
  <2>1. pc'["user"] = pc["user"] /\ pc'["thread"] = "room"
    BY <1>21, <1>p, ThreadMoves DEF ThreadSize, ThreadPC
  <2>2. pc["user"] \notin Reading \cup {"fill"}
    BY <1>21, <1>o DEF ThreadSize
  <2>3. queue' = queue /\ held' = Len(queue)
    BY <1>21 DEF ThreadSize
  <2> QED BY <1>p, <2>1, <2>2, <2>3 DEF RoomKnown
<1>22. CASE ThreadRoom
  <2>1. pc'["user"] = pc["user"] /\ pc'["thread"] \in {"loop", "block"}
    BY <1>22, <1>p, ThreadMoves DEF ThreadRoom, ThreadPC
  <2>2. pc["user"] \notin Reading \cup {"fill"} /\ Len(queue) <= held
    BY <1>22, <1>o, <1>h DEF ThreadRoom, RoomKnown
  <2>3. UNCHANGED <<queue, capacity, level>>
    BY <1>22 DEF ThreadRoom
  <2>4. CASE finished \/ Room = 0
    <3>1. pc'["thread"] = "loop"
      BY <1>22, <2>4, <1>p, ThreadMoves DEF ThreadRoom, ThreadPC
    <3> QED BY <2>1, <2>2, <3>1, <1>r
  <2>5. CASE ~(finished \/ Room = 0)
    <3>1. budget' = [budget EXCEPT !["thread"] = Room]
      BY <1>22, <2>5 DEF ThreadRoom
    <3>2. budget'["thread"] = Room
      BY <3>1, <1>p DEF Actors
    <3>3. Len(queue) + Room <= capacity /\ Len(queue) + Room <= level
      BY <2>2, <2>5, <1>p DEF Room, Lesser
    <3> QED BY <2>1, <2>2, <2>3, <3>2, <3>3 DEF RoomKnown
  <2> QED BY <2>4, <2>5
<1>23. CASE UNCHANGED vars
  BY <1>23, <1>s DEF vars, control
<1>24. ASSUME NEW p \in Actors, ReadBlock(p) PROVE RoomKnown'
  BY <1>24, <1>13, <1>14, <1>15, <1>16, <1>17, <1>18, <1>19
     DEF ReadBlock, Actors
<1> QED BY <1>1, <1>2, <1>3, <1>4, <1>5, <1>6, <1>7, <1>8, <1>9, <1>10, <1>11,
           <1>12, <1>20, <1>21, <1>22, <1>23, <1>24
        DEF Next, Call, Proceed, Thread, Over, Actors

\* Every step leaves the block well formed, and finished_ truthful.
LEMMA BlockNext == TypeInv /\ IInv /\ [Next]_vars => BlockSound'
<1> SUFFICES ASSUME TypeInv, IInv, [Next]_vars PROVE BlockSound'
  OBVIOUS
<1>h. Handover /\ BlockSound
  BY DEF IInv
<1>p. /\ PcOK /\ blockPos \in Nat /\ Len(block) \in Nat /\ got \in Nat
      /\ cursor \in 0..FileLen
  BY LenProperties DEF TypeInv, TypeOK, PcOK
<1>o. pc["user"] \in Reading => pc["thread"] = "none"
  BY <1>h, Owner
<1> USE DEF Reading, Stopping, Gone, FinishedMeansAll
\* A step of an actor that does not touch the source.
<1>s. ASSUME UNCHANGED source,
             \A p \in Actors : pc'[p] = "read" => pc[p] = "read"
      PROVE  BlockSound'
  BY <1>s, <1>h DEF BlockSound, source
<1>u. ASSUME UNCHANGED source, NEW q \in UserPC, q # "read",
             pc' = [pc EXCEPT !["user"] = q]
      PROVE  BlockSound'
  BY <1>u, <1>p, <1>s, UserMoves DEF Actors
<1>t. ASSUME UNCHANGED source, NEW q \in ThreadPC, q # "read",
             pc' = [pc EXCEPT !["thread"] = q]
      PROVE  BlockSound'
  BY <1>t, <1>p, <1>s, ThreadMoves DEF Actors
<1>j. ASSUME UNCHANGED source, Start \/ Restart
      PROVE  BlockSound'
  BY <1>j, <1>s, StartType DEF Actors
<1>1. ASSUME NEW n \in Asks, AskThread(n) PROVE BlockSound'
  BY <1>1, <1>u DEF AskThread, UserPC
<1>2. ASSUME NEW n \in Asks, FillAlone(n) PROVE BlockSound'
  BY <1>2, <1>u DEF FillAlone, UserPC
<1>3. ASSUME NEW call \in Stopping, Stop(call) PROVE BlockSound'
  BY <1>3, <1>u DEF Stop, UserPC
<1>4. CASE Pop
  BY <1>4, <1>s DEF Pop, control
<1>5. ASSUME NEW n \in Levels, Prefetch(n) PROVE BlockSound'
  <2>1. CASE Start
    BY <1>5, <2>1, <1>j DEF Prefetch
  <2>2. CASE At("idle", "none")
    BY <1>5, <2>2, <1>s, AtType DEF Prefetch, Actors, UserPC, ThreadPC
  <2> QED BY <1>5, <2>1, <2>2 DEF Prefetch
<1>6. CASE Reset
  <2>1. blockPos' = 0 /\ block' = <<>> /\ finished' = FALSE
    BY <1>6 DEF Reset, BlockDropped
  <2>2. \A p \in Actors : pc'[p] # "read"
    BY <1>6, StartType DEF Reset, Actors
  <2>3. Len(block') = 0
    BY <2>1, EmptySeq
  <2> QED BY <2>1, <2>2, <2>3 DEF BlockSound
<1>7. ASSUME NEW x \in Transforms, SetTransform(x) PROVE BlockSound'
  BY <1>7, <1>j DEF SetTransform
<1>8. ASSUME NEW r \in Rois, SetRoi(r) PROVE BlockSound'
  BY <1>8, <1>j DEF SetRoi
<1>9. CASE Destroy
  BY <1>9, <1>s, AtType DEF Destroy, Actors, UserPC, ThreadPC
<1>10. CASE WaitSize
  BY <1>10, <1>u DEF WaitSize, UserPC
<1>11. CASE WaitFinished
  BY <1>11, <1>u DEF WaitFinished, UserPC
<1>12. CASE FillMore
  BY <1>12, <1>u DEF FillMore, UserPC
<1>13. ASSUME NEW p \in Actors, BeginRead(p) PROVE BlockSound'
  <2>1. blockPos' = 0 /\ block' = <<>> /\ got' = 0
        /\ UNCHANGED <<cursor, finished>>
    BY <1>13 DEF BeginRead
  <2>2. Len(block') = 0
    BY <2>1, EmptySeq
  <2>3. 0 <= Block
    BY SizeAssumption
  <2>4. finished' => cursor' = FileLen
    BY <2>1, <1>h DEF BlockSound
  <2> QED BY <2>1, <2>2, <2>3, <2>4 DEF BlockSound
<1>14. ASSUME NEW p \in Actors, ReadFails(p) PROVE BlockSound'
  <2>1. \A q \in Actors : pc'[q] # "read"
    <3>1. CASE p = "user"
      <4>1. pc'["user"] = "idle" /\ pc'["thread"] = pc["thread"]
        BY <1>14, <3>1, <1>p, UserMoves DEF ReadFails, UserPC
      <4> QED BY <1>14, <3>1, <4>1, <1>o DEF ReadFails, Actors
    <3>2. CASE p = "thread"
      BY <1>14, <3>2, AtType DEF ReadFails, Actors, UserPC, ThreadPC
    <3> QED BY <3>1, <3>2 DEF Actors
  <2>2. blockPos' = 0 /\ block' = block /\ finished' = finished /\ cursor < FileLen
    BY <1>14 DEF ReadFails
  <2>3. ~finished
    BY <2>2, <1>h, FileAssumption DEF BlockSound
  <2> QED BY <1>p, <2>1, <2>2, <2>3 DEF BlockSound
<1>15. ASSUME NEW p \in Actors, ReadEvent(p) PROVE BlockSound'
  <2>1. /\ pc[p] = "read" /\ got < Block /\ cursor < FileLen /\ got' = got + 1
        /\ UNCHANGED <<pc, blockPos, finished>>
    BY <1>15 DEF ReadEvent, control
  <2>2. blockPos = 0 /\ Len(block) <= got
    BY <2>1, <1>h DEF BlockSound
  <2>3. Len(block') \in Nat /\ Len(block') <= Len(block) + 1
    <3>1. CASE cursor + 1 \in roi
      <4>1. [id |-> cursor + 1, by |-> transform] \in Event
        BY <2>1, <1>p, FileAssumption DEF Event, TypeInv, TypeOK
      <4>2. block' = Append(block, [id |-> cursor + 1, by |-> transform])
        BY <1>15, <3>1 DEF ReadEvent
      <4>3. Len(block') = Len(block) + 1
        BY <4>1, <4>2, AppendProperties DEF TypeInv, TypeOK
      <4> QED BY <4>3, <1>p
    <3>2. CASE cursor + 1 \notin roi
      BY <1>15, <3>2, <1>p DEF ReadEvent
    <3> QED BY <3>1, <3>2
  <2>4. ~finished
    BY <2>1, <1>h, FileAssumption DEF BlockSound
  <2>5. Len(block') <= got' /\ got' <= Block
    BY <2>1, <2>2, <2>3, <1>p, SizeAssumption
  <2> QED BY <2>1, <2>2, <2>3, <2>4, <2>5 DEF BlockSound
<1>16. ASSUME NEW p \in Actors, EndRead(p) PROVE BlockSound'
  <2>1. /\ pc[p] = "read" /\ (got = Block \/ cursor = FileLen)
        /\ UNCHANGED <<block, blockPos, got, cursor>>
    BY <1>16 DEF EndRead
  <2>2. blockPos = 0 /\ Len(block) <= got
    BY <2>1, <1>h DEF BlockSound
  <2>3. \A q \in Actors : pc'[q] = "read" => pc[q] = "read"
    BY <1>16, <1>p, UserMoves, ThreadMoves
       DEF EndRead, Return, Actors, UserPC, ThreadPC
  <2>4. CASE got = 0
    <3>1. cursor = FileLen /\ blockPos = Len(block)
      BY <2>1, <2>2, <2>4, <1>p, SizeAssumption
    <3> QED BY <2>1, <2>3, <3>1, <1>h DEF BlockSound
  <2>5. CASE got # 0
    <3>1. UNCHANGED finished
      BY <1>16, <2>5 DEF EndRead, NothingRead
    <3> QED BY <2>1, <2>3, <3>1, <1>h DEF BlockSound
  <2> QED BY <2>4, <2>5
<1>17. ASSUME NEW p \in Actors, Push(p) PROVE BlockSound'
  <2>1. /\ pc[p] = "block" /\ blockPos < Len(block)
        /\ UNCHANGED <<block, got, cursor, finished>>
    BY <1>17 DEF Push
  <2>2. blockPos' \in Nat /\ blockPos' <= Len(block)
    BY <1>17, <1>h, PushAdds
  <2>3. ~finished
    BY <2>1, <1>h, <1>p DEF BlockSound
  <2>4. \A q \in Actors : pc'[q] # "read"
    <3>1. CASE p = "user"
      <4>1. pc'["user"] = "fill" /\ pc'["thread"] = pc["thread"]
        BY <1>17, <3>1, <1>p, UserMoves DEF Push, Return, UserPC
      <4> QED BY <2>1, <3>1, <4>1, <1>o DEF Actors
    <3>2. CASE p = "thread"
      <4>1. pc'["thread"] = "loop" /\ pc'["user"] = pc["user"]
        BY <1>17, <3>2, <1>p, ThreadMoves DEF Push, Return, ThreadPC
      <4> QED BY <2>1, <3>2, <4>1, <1>o DEF Actors
    <3> QED BY <3>1, <3>2 DEF Actors
  <2> QED BY <2>1, <2>2, <2>3, <2>4 DEF BlockSound
<1>18. CASE ThreadLoop
  BY <1>18, <1>t DEF ThreadLoop, ThreadPC
<1>19. CASE ThreadSize
  BY <1>19, <1>t DEF ThreadSize, ThreadPC
<1>20. CASE ThreadRoom
  BY <1>20, <1>t DEF ThreadRoom, ThreadPC
<1>21. CASE UNCHANGED vars
  BY <1>21, <1>s DEF vars, control
<1>22. ASSUME NEW p \in Actors, ReadBlock(p) PROVE BlockSound'
  BY <1>22, <1>13, <1>14, <1>15, <1>16, <1>17 DEF ReadBlock
<1> QED BY <1>1, <1>2, <1>3, <1>4, <1>5, <1>6, <1>7, <1>8, <1>9, <1>10, <1>11,
           <1>12, <1>18, <1>19, <1>20, <1>21, <1>22
        DEF Next, Call, Proceed, Thread, Over, Actors

\* The inductive invariant holds, with the types it speaks of.
THEOREM Invariance == Spec => [](TypeInv /\ IInv)
<1>1. Init => TypeInv /\ IInv
  BY TypeInit, IInvInit
<1>2. TypeInv /\ IInv /\ [Next]_vars => (TypeInv /\ IInv)'
  BY TypeNext, HandoverNext, RoomNext, BlockNext DEF IInv
<1> QED BY <1>1, <1>2, PTL DEF Spec

-------------------------------------------------------------------------------
(* Safety.                                                                 *)

\* The block, the file and the producer's end of the queue have one owner.
THEOREM OneOwner == Spec => []SingleProducer
<1>1. IInv => SingleProducer
  BY Owner DEF IInv, SingleProducer, Reading
<1> QED BY Invariance, <1>1, PTL

\* No push is ever refused, in part or whole.
LEMMA Fits == TypeInv /\ IInv => PushFits
<1> SUFFICES ASSUME TypeInv, IInv, NEW p \in Actors, pc[p] = "block"
             PROVE  Len(queue) + budget[p] <= capacity
  BY DEF PushFits
<1>1. /\ Len(queue) \in Nat /\ budget[p] \in Nat
      /\ wanted \in Nat /\ capacity \in Nat
  BY LenProperties DEF TypeInv, TypeOK
<1>2. CASE p = "user"
  BY <1>1, <1>2 DEF IInv, RoomKnown, Reading
<1>3. CASE p = "thread"
  BY <1>1, <1>3 DEF IInv, RoomKnown, Reading
<1> QED BY <1>2, <1>3 DEF Actors

\* No push() whose result readBlock_() ignores is ever refused.
THEOREM EveryPushFits == Spec => []PushFits
  BY Invariance, Fits, PTL

\* finished_ is up only when nothing is left in the file or in the block.
THEOREM FinishedIsTheEnd == Spec => []FinishedMeansAll
<1>1. IInv => FinishedMeansAll
  BY DEF IInv, BlockSound
<1> QED BY Invariance, <1>1, PTL

\* A step of the thread alone leaves the user where it is, or ends the program.
LEMMA UserStays ==
    ASSUME PcOK, Thread
    PROVE  pc'["user"] = pc["user"] \/ pc'["user"] = "aborted"
<1>1. CASE ThreadLoop \/ ThreadSize \/ ThreadRoom
  BY <1>1, ThreadMoves DEF ThreadLoop, ThreadSize, ThreadRoom, ThreadPC
<1>2. CASE BeginRead("thread")
  BY <1>2, ThreadMoves DEF BeginRead, ThreadPC
<1>3. CASE ReadFails("thread")
  BY <1>3, AtType DEF ReadFails, UserPC, ThreadPC, Gone
<1>4. CASE ReadEvent("thread")
  BY <1>4 DEF ReadEvent, control
<1>5. CASE EndRead("thread")
  BY <1>5, ThreadMoves DEF EndRead, Return, ThreadPC
<1>6. CASE Push("thread")
  BY <1>6, ThreadMoves DEF Push, Return, ThreadPC
<1> QED BY <1>1, <1>2, <1>3, <1>4, <1>5, <1>6 DEF Thread, ReadBlock

\* In events(n) the user takes no step of another call.
LEMMA OtherCall ==
    ASSUME Next, pc["user"] \in {"waitSize", "waitFinished", "fill"}
    PROVE  \/ WaitSize /\ pc["user"] = "waitSize"
           \/ WaitFinished /\ pc["user"] = "waitFinished"
           \/ FillMore /\ pc["user"] = "fill"
           \/ Thread
  BY DEF Next, Call, Proceed, Over, Gone, AskThread, FillAlone, Stop, Pop,
         Prefetch, Reset, SetTransform, SetRoi, Destroy, Joined, WaitSize,
         WaitFinished, FillMore, ReadBlock, BeginRead, ReadFails, ReadEvent,
         EndRead, Push

\* events(n) returns with what it promises.
THEOREM EventsKeepsItsPromise == Spec => EventsDelivers
<1> DEFINE A ==
      pc'["user"] = "idle" =>
        /\ pc["user"] \in {"waitSize", "waitFinished", "fill"} =>
             Len(queue) >= wanted \/ (cursor = FileLen /\ blockPos = Len(block))
        /\ pc["user"] = "fill" => Len(queue) <= wanted
<1>1. TypeInv /\ IInv /\ [Next]_vars => [A]_vars
  <2> SUFFICES ASSUME TypeInv, IInv, Next, pc'["user"] = "idle"
               PROVE  A
    OBVIOUS
  <2>p. /\ PcOK /\ Len(queue) \in Nat /\ wanted \in Nat
        /\ finished => cursor = FileLen /\ blockPos = Len(block)
    BY LenProperties
       DEF TypeInv, TypeOK, PcOK, IInv, BlockSound, FinishedMeansAll
  <2>1. CASE pc["user"] = "waitSize"
    <3>1. CASE WaitSize
      BY <2>1, <3>1, <2>p, UserMoves DEF WaitSize, EnoughHeld, UserPC
    <3>2. CASE Thread
      BY <2>1, <3>2, <2>p, UserStays
    <3> QED BY <2>1, <3>1, <3>2, OtherCall
  <2>2. CASE pc["user"] = "waitFinished"
    <3>1. CASE WaitFinished
      BY <2>2, <3>1, <2>p, UserMoves DEF WaitFinished, UserPC
    <3>2. CASE Thread
      BY <2>2, <3>2, <2>p, UserStays
    <3> QED BY <2>2, <3>1, <3>2, OtherCall
  <2>3. CASE pc["user"] = "fill"
    <3>1. CASE FillMore
      <4>1. Len(queue) >= wanted \/ finished
        BY <3>1, <2>p, UserMoves DEF FillMore, UserPC
      <4>2. Len(queue) <= wanted
        BY <2>3 DEF IInv, RoomKnown
      <4> QED BY <2>3, <2>p, <4>1, <4>2
    <3>2. CASE Thread
      BY <2>3, <3>2, <2>p, UserStays
    <3> QED BY <2>3, <3>1, <3>2, OtherCall
  <2> QED BY <2>1, <2>2, <2>3
<1> QED BY Invariance, <1>1, PTL DEF Spec, EventsDelivers

\* The thread stops at the level it was asked for.
THEOREM ThreadStaysWithinLevel == Spec => LevelBound
<1> DEFINE A == pc["thread"] # "none" /\ Len(queue') > Len(queue) =>
                    Len(queue') <= level
<1>1. TypeInv /\ IInv /\ [Next]_vars => [A]_vars
  <2> SUFFICES ASSUME TypeInv, IInv, Next, pc["thread"] # "none",
                      Len(queue') > Len(queue)
               PROVE  Len(queue') <= level
    OBVIOUS
  <2>p. /\ queue \in Seq(Event) /\ Len(queue) \in Nat /\ level \in Nat
        /\ Len(queue') \in Nat /\ budget["thread"] \in Nat
    BY TypeNext, LenProperties DEF TypeInv, TypeOK, Actors
  <2>1. queue' # queue
    BY <2>p
  <2>2. ~Pop
    BY <2>p, HeadTailProperties DEF Pop
  <2>3. ~Reset
    BY <2>p, EmptySeq DEF Reset
  <2>4. ASSUME NEW n \in Levels, Prefetch(n) PROVE FALSE
    <3>1. PICK cap \in Nat : Resize(cap)
      BY <2>1, <2>4, ArgumentAssumption, SizeAssumption
         DEF Prefetch, KeepQueue, Greater
    <3>2. <<>> \in Seq(Event) /\ Len(<<>>) = 0 /\ Len(<<>>) <= cap
      BY EmptySeq
    <3>3. Len(Pushed(<<>>, cap, queue)) <= Len(<<>>) + Len(queue)
      BY <2>p, <3>2, PushedType
    <3>4. Len(queue') <= Len(queue)
      <4>1. queue' = Pushed(<<>>, cap, queue)
        BY <3>1 DEF Resize
      <4> QED BY <2>p, <3>2, <3>3, <4>1
    <3> QED BY <2>p, <3>4
  <2>5. ASSUME NEW n \in Asks, FillAlone(n) PROVE FALSE
    BY <2>1, <2>5, FillAloneGrows
  <2>6. PICK p \in Actors : Push(p)
    BY <2>1, <2>2, <2>3, <2>4, <2>5
       DEF Next, Call, Proceed, Thread, Over, vars, control, AskThread, Stop,
           SetTransform, SetRoi, Destroy, WaitSize, WaitFinished, FillMore,
           ReadBlock, BeginRead, ReadFails, ReadEvent, EndRead, ThreadLoop,
           ThreadSize, ThreadRoom, Actors
  <2>7. p = "thread"
    BY <2>6, Owner DEF Push, Reading, IInv, Actors
  <2>8. Len(queue') <= Len(queue) + budget["thread"]
    BY <2>6, <2>7, PushAdds DEF IInv
  <2> QED BY <2>p, <2>6, <2>7, <2>8 DEF Push, IInv, RoomKnown, Reading
<1> QED BY Invariance, <1>1, PTL DEF Spec, LevelBound

-------------------------------------------------------------------------------
(* Refinement: a reader whose reads do not fail implements the stream.     *)

\* Taking the first of a queue takes the first of what waits.
LEMMA TakeFirst ==
    ASSUME NEW S, NEW q \in Seq(S), NEW r \in Seq(S), q # <<>>
    PROVE  /\ q \o r # <<>>
           /\ Head(q \o r) = Head(q)
           /\ Tail(q \o r) = Tail(q) \o r
<1>1. /\ Len(q) \in Nat \ {0} /\ Len(r) \in Nat
      /\ Tail(q) \in Seq(S) /\ Len(Tail(q)) = Len(q) - 1
      /\ \A i \in 1..(Len(q) - 1) : Tail(q)[i] = q[i + 1]
  BY EmptySeq, LenProperties, HeadTailProperties
<1>2. /\ q \o r \in Seq(S) /\ Len(q \o r) = Len(q) + Len(r)
      /\ \A i \in 1..(Len(q) + Len(r)) :
           (q \o r)[i] = IF i <= Len(q) THEN q[i] ELSE r[i - Len(q)]
  BY ConcatProperties
<1>3. q \o r # <<>>
  BY <1>1, <1>2, EmptySeq
<1>4. Head(q \o r) = Head(q)
  <2>1. (q \o r)[1] = q[1]
    BY <1>1, <1>2
  <2> QED BY <2>1, <1>3
<1>5. /\ Tail(q \o r) \in Seq(S)
      /\ Len(Tail(q \o r)) = Len(q) + Len(r) - 1
      /\ \A i \in 1..(Len(q) + Len(r) - 1) : Tail(q \o r)[i] = (q \o r)[i + 1]
  BY <1>2, <1>3, HeadTailProperties
<1>6. /\ Tail(q) \o r \in Seq(S)
      /\ Len(Tail(q) \o r) = Len(q) + Len(r) - 1
      /\ \A i \in 1..(Len(q) + Len(r) - 1) : (Tail(q) \o r)[i] =
           IF i <= Len(q) - 1 THEN Tail(q)[i] ELSE r[i - (Len(q) - 1)]
  BY <1>1, ConcatProperties
<1>7. \A i \in 1..Len(Tail(q \o r)) : Tail(q \o r)[i] = (Tail(q) \o r)[i]
  <2> TAKE i \in 1..Len(Tail(q \o r))
  <2>1. i \in 1..(Len(q) + Len(r) - 1) /\ i + 1 \in 1..(Len(q) + Len(r))
    BY <1>1, <1>5
  <2>2. Tail(q \o r)[i] =
          IF i + 1 <= Len(q) THEN q[i + 1] ELSE r[i + 1 - Len(q)]
    BY <2>1, <1>2, <1>5
  <2>3. CASE i + 1 <= Len(q)
    BY <2>1, <2>2, <2>3, <1>1, <1>6
  <2>4. CASE ~(i + 1 <= Len(q))
    <3>1. i + 1 - Len(q) = i - (Len(q) - 1)
      BY <2>1, <1>1
    <3> QED BY <2>1, <2>2, <2>4, <3>1, <1>1, <1>6
  <2> QED BY <2>3, <2>4
<1>8. Tail(q \o r) = Tail(q) \o r
  BY <1>5, <1>6, <1>7, SeqEqual
<1> QED BY <1>3, <1>4, <1>8

\* Appending to the block appends to what waits.
LEMMA AppendLast ==
    ASSUME NEW S, NEW q \in Seq(S), NEW r \in Seq(S), NEW e \in S
    PROVE  q \o Append(r, e) = Append(q \o r, e)
<1>1. <<e>> \in Seq(S)
  OBVIOUS
<1>2. Append(r, e) = r \o <<e>> /\ q \o r \in Seq(S)
  BY AppendIsConcat, ConcatProperties
<1>3. Append(q \o r, e) = (q \o r) \o <<e>>
  BY <1>2, AppendIsConcat
<1> QED BY <1>1, <1>2, <1>3, ConcatAssociative

\* A push only moves the boundary between the queue and the block.
LEMMA PushMoves ==
    ASSUME TypeInv, IInv, NEW p \in Actors, Push(p)
    PROVE  queue' \o Rest' = queue \o Rest
<1> DEFINE count == Lesser(budget[p], Len(block) - blockPos)
           part == SubSeq(block, blockPos + 1, blockPos + count)
<1>1. /\ Len(queue) \in Nat /\ Len(block) \in Nat /\ blockPos \in Nat
      /\ budget[p] \in Nat /\ capacity \in Nat
      /\ queue \in Seq(Event) /\ block \in Seq(Event)
  BY LenProperties DEF TypeInv, TypeOK
<1>2. count \in Nat /\ count <= budget[p] /\ blockPos + count <= Len(block)
  BY <1>1 DEF Push, Lesser
<1>3. /\ queue' = Pushed(queue, capacity, part)
      /\ blockPos' = blockPos + count /\ block' = block
  BY DEF Push
<1>4. Len(queue) + budget[p] <= capacity
  BY Fits DEF PushFits, Push
<1> HIDE DEF count
<1>5. part \in Seq(Event) /\ Len(part) = count
  <2>1. blockPos + count \in Nat /\ blockPos <= blockPos + count
    BY <1>1, <1>2
  <2>2. part \in Seq(Event) /\ Len(part) = (blockPos + count) - blockPos
    BY <1>1, <1>2, <2>1, PartOfBlock
  <2> QED BY <1>1, <1>2, <2>2
<1>6. queue' = queue \o part
  <2>1. Len(queue) + Len(part) <= capacity
    BY <1>1, <1>2, <1>4, <1>5
  <2> QED BY <1>1, <1>3, <1>5, <2>1, PushedFits
<1>7. part \o Rest' = Rest
  <2>1. /\ blockPos + 1 \in 1..(Len(block) + 1)
        /\ blockPos + count \in ((blockPos + 1) - 1)..Len(block)
        /\ Len(block) \in (blockPos + count)..Len(block)
    BY <1>1, <1>2
  <2>2. SubSeq(block, blockPos + 1, blockPos + count)
          \o SubSeq(block, blockPos + count + 1, Len(block))
        = SubSeq(block, blockPos + 1, Len(block))
    BY <1>1, <2>1, ConcatAdjacentSubSeq
  <2> QED BY <1>3, <2>2 DEF Rest
<1>8. Rest' \in Seq(Event)
  <2>1. blockPos + count \in Nat /\ Len(block) <= Len(block)
    BY <1>1, <1>2
  <2>2. SubSeq(block, blockPos + count + 1, Len(block)) \in Seq(Event)
    BY <1>1, <2>1, PartOfBlock
  <2> QED BY <1>3, <2>2 DEF Rest
<1> HIDE DEF part
<1>9. (queue \o part) \o Rest' = queue \o (part \o Rest')
  BY <1>1, <1>5, <1>8, ConcatAssociative, SMTT(30)
<1> QED BY <1>6, <1>7, <1>9

\* The variables the stream is a view of.
view == <<queue, block, blockPos, cursor, delivered, roi, transform>>

\* A reader just constructed is a stream at its beginning.
LEMMA StreamInit == Init => Stream!Init
<1> SUFFICES ASSUME Init PROVE Stream!Init
  OBVIOUS
<1>1. Rest = <<>>
  <2>1. blockPos = 0 /\ Len(block) = 0
    BY EmptySeq DEF Init
  <2> QED BY <2>1, SubSeqEmpty DEF Rest
<1>2. queue \o Rest = <<>>
  <2>1. <<>> \in Seq(Event)
    BY EmptySeq
  <2> QED BY <1>1, <2>1, ConcatEmptySeq DEF Init
<1> QED BY <1>2 DEF Init, Stream!Init

\* Every step of the reader is a step of the stream, or leaves it as it is.
LEMMA StreamNext ==
    ASSUME MaxReadFaults = 0, TypeInv, IInv, [Next]_vars
    PROVE  [Stream!Next]_(Stream!streamVars)
<1> DEFINE Goal == [Stream!Next]_(Stream!streamVars)
<1>p. /\ queue \in Seq(Event) /\ block \in Seq(Event) /\ delivered \in Seq(Event)
      /\ Len(queue) \in Nat /\ Len(block) \in Nat /\ blockPos \in Nat
      /\ capacity \in Nat /\ Len(queue) <= capacity /\ readFaults \in Nat
      /\ cursor \in 0..FileLen
  BY LenProperties DEF TypeInv, TypeOK
<1>r. Rest \in Seq(Event)
  BY <1>p, PartOfBlock DEF Rest
<1>s. ASSUME UNCHANGED view PROVE Goal
  BY <1>s DEF view, Rest, Stream!streamVars
<1>1. ASSUME NEW n \in Asks, AskThread(n) PROVE Goal
  BY <1>1, <1>s DEF AskThread, view, source, settings
<1>2. ASSUME NEW n \in Asks, FillAlone(n) PROVE Goal
  BY <1>2, <1>s, FillAloneGrows DEF FillAlone, view, source, settings
<1>3. ASSUME NEW call \in Stopping, Stop(call) PROVE Goal
  BY <1>3, <1>s DEF Stop, view, source, settings
<1>4. CASE Pop
  <2>1. /\ queue # <<>> /\ queue' = Tail(queue)
        /\ delivered' = Append(delivered, Head(queue))
        /\ UNCHANGED <<block, blockPos, cursor, roi, transform>>
    BY <1>4 DEF Pop, source, settings
  <2>2. Rest' = Rest
    BY <2>1 DEF Rest
  <2>3. /\ queue \o Rest # <<>>
        /\ Head(queue \o Rest) = Head(queue)
        /\ Tail(queue \o Rest) = queue' \o Rest'
    BY <2>1, <2>2, <1>p, <1>r, TakeFirst
  <2>4. Stream!Take
    BY <2>1, <2>3 DEF Stream!Take
  <2> QED BY <2>4 DEF Stream!Next
<1>5. ASSUME NEW n \in Levels, Prefetch(n) PROVE Goal
  <2>1. queue' = queue
    <3>1. CASE KeepQueue
      BY <3>1 DEF KeepQueue
    <3>2. CASE n > capacity /\ Resize(Greater(n, MinCapacity))
      <4>1. Greater(n, MinCapacity) \in Nat /\ Len(queue) <= Greater(n, MinCapacity)
        BY <3>2, <1>p, ArgumentAssumption, SizeAssumption DEF Greater
      <4> QED BY <3>2, <4>1, ResizeKeeps
    <3> QED BY <1>5, <3>1, <3>2 DEF Prefetch, TooSmall
  <2> QED BY <1>5, <2>1, <1>s DEF Prefetch, view, source, settings
<1>6. CASE Reset
  <2>1. /\ queue' = <<>> /\ block' = <<>> /\ blockPos' = 0 /\ cursor' = 0
        /\ delivered' = <<>> /\ UNCHANGED <<roi, transform>>
    BY <1>6 DEF Reset, BlockDropped, settings
  <2>2. Rest' = <<>>
    <3>1. Rest' = SubSeq(<<>>, 1, 0)
      BY <2>1, EmptySeq DEF Rest
    <3> QED BY <3>1, SubSeqEmpty
  <2>3. queue' \o Rest' = <<>>
    <3>1. <<>> \in Seq(Event)
      BY EmptySeq
    <3> QED BY <2>1, <2>2, <3>1, ConcatEmptySeq
  <2>4. Stream!Rewind
    BY <2>1, <2>3 DEF Stream!Rewind
  <2> QED BY <2>4 DEF Stream!Next
<1>7. ASSUME NEW x \in Transforms, SetTransform(x) PROVE Goal
  <2>1. Stream!ChooseTransform(x)
    BY <1>7 DEF SetTransform, source, Rest, Stream!ChooseTransform
  <2> QED BY <2>1 DEF Stream!Next
<1>8. ASSUME NEW r \in Rois, SetRoi(r) PROVE Goal
  <2>1. Stream!ChooseRoi(r)
    BY <1>8 DEF SetRoi, source, Rest, Stream!ChooseRoi
  <2> QED BY <2>1 DEF Stream!Next
<1>9. CASE Destroy
  BY <1>9, <1>s DEF Destroy, view, source, settings
<1>10. CASE WaitSize
  BY <1>10, <1>s DEF WaitSize, view, source, settings
<1>11. CASE WaitFinished
  BY <1>11, <1>s DEF WaitFinished, view, source, settings
<1>12. CASE FillMore
  BY <1>12, <1>s DEF FillMore, view, source, settings
<1>13. ASSUME NEW p \in Actors, BeginRead(p) PROVE Goal
  <2>1. /\ blockPos = Len(block) /\ blockPos' = 0 /\ block' = <<>>
        /\ UNCHANGED <<queue, cursor, delivered, roi, transform>>
    BY <1>13 DEF BeginRead, settings
  <2>2. Rest = <<>>
    BY <2>1, <1>p, SubSeqEmpty DEF Rest
  <2>3. Rest' = <<>>
    <3>1. Rest' = SubSeq(<<>>, 1, 0)
      BY <2>1, EmptySeq DEF Rest
    <3> QED BY <3>1, SubSeqEmpty
  <2> QED BY <2>1, <2>2, <2>3 DEF Stream!streamVars
<1>14. ASSUME NEW p \in Actors, ReadFails(p) PROVE Goal
  BY <1>14, <1>p DEF ReadFails
<1>15. ASSUME NEW p \in Actors, ReadEvent(p) PROVE Goal
  <2> DEFINE e == [id |-> cursor + 1, by |-> transform]
  <2>1. /\ pc[p] = "read" /\ cursor < FileLen /\ cursor' = cursor + 1
        /\ block' = IF cursor + 1 \in roi THEN Append(block, e) ELSE block
        /\ UNCHANGED <<queue, blockPos, delivered, roi, transform>>
    BY <1>15 DEF ReadEvent, settings
  <2>2. blockPos = 0
    BY <2>1 DEF IInv, BlockSound
  <2>3. Rest = block
    BY <2>2, <1>p, SubSeqFull DEF Rest
  <2>4. e \in Event
    BY <2>1, <1>p, FileAssumption DEF Event, TypeInv, TypeOK
  <2> HIDE DEF e
  <2>5. block' \in Seq(Event)
    BY <2>1, <2>4, <1>p, AppendProperties
  <2>6. Rest' = block'
    <3>1. Rest' = SubSeq(block', 1, Len(block'))
      BY <2>1, <2>2 DEF Rest
    <3> QED BY <2>5, <3>1, SubSeqFull
  <2>7. queue' \o Rest' = IF cursor + 1 \in roi
                            THEN Append(queue \o Rest, e)
                            ELSE queue \o Rest
    <3>1. queue \o Append(block, e) = Append(queue \o block, e)
      BY <2>4, <1>p, AppendLast
    <3> QED BY <2>1, <2>3, <2>6, <3>1
  <2>8. Stream!Read
    BY <2>1, <2>7 DEF Stream!Read, Stream!More, Stream!Kept, e
  <2> QED BY <2>8 DEF Stream!Next
<1>16. ASSUME NEW p \in Actors, EndRead(p) PROVE Goal
  BY <1>16, <1>s DEF EndRead, view, settings
<1>17. ASSUME NEW p \in Actors, Push(p) PROVE Goal
  <2>1. queue' \o Rest' = queue \o Rest
    BY <1>17, PushMoves
  <2>2. UNCHANGED <<cursor, delivered, roi, transform>>
    BY <1>17 DEF Push, settings
  <2> QED BY <2>1, <2>2 DEF Stream!streamVars
<1>18. CASE ThreadLoop \/ ThreadSize \/ ThreadRoom
  BY <1>18, <1>s
     DEF ThreadLoop, ThreadSize, ThreadRoom, view, source, settings
<1>19. CASE UNCHANGED vars
  BY <1>19, <1>s DEF vars, view, source, settings
<1>20. ASSUME NEW p \in Actors, ReadBlock(p) PROVE Goal
  BY <1>20, <1>13, <1>14, <1>15, <1>16, <1>17 DEF ReadBlock
<1> QED BY <1>1, <1>2, <1>3, <1>4, <1>5, <1>6, <1>7, <1>8, <1>9, <1>10, <1>11,
           <1>12, <1>18, <1>19, <1>20
        DEF Next, Call, Proceed, Thread, Over, Actors

\* A reader whose reads do not fail implements the stream: what the user pops
\* is the file, in order, once, under the settings in force when it was read.
THEOREM ReaderImplementsStream ==
    ASSUME MaxReadFaults = 0
    PROVE  Spec => StreamSpec
<1>1. TypeInv /\ IInv /\ [Next]_vars => [Stream!Next]_(Stream!streamVars)
  BY StreamNext
<1> QED BY Invariance, StreamInit, <1>1, PTL DEF Spec, StreamSpec, Stream!Spec

-------------------------------------------------------------------------------
(* What the user of such a reader relies on, by way of the stream.         *)

StreamProofs == INSTANCE EventStreamProofs WITH pending <- queue \o Rest

\* The stream the reader implements is the one EventStreamProofs speaks of.
LEMMA SameStream == StreamSpec => StreamProofs!Spec
<1>1. Stream!Init => StreamProofs!Init
  BY DEF Stream!Init, StreamProofs!Init
<1>2. [Stream!Next]_(Stream!streamVars)
        => [StreamProofs!Next]_(StreamProofs!streamVars)
  BY DEF Stream!Next, StreamProofs!Next, Stream!streamVars,
         StreamProofs!streamVars, Stream!Read, StreamProofs!Read,
         Stream!Take, StreamProofs!Take, Stream!Rewind, StreamProofs!Rewind,
         Stream!ChooseRoi, StreamProofs!ChooseRoi, Stream!ChooseTransform,
         StreamProofs!ChooseTransform, Stream!More, StreamProofs!More,
         Stream!Kept, StreamProofs!Kept
<1> QED BY <1>1, <1>2, PTL DEF StreamSpec, Stream!Spec, StreamProofs!Spec

\* What the user has popped and what the queue holds is in the order of the
\* file, with no event twice.
THEOREM PoppedInOrder ==
    ASSUME MaxReadFaults = 0
    PROVE  Spec => []InOrder
<1>1. StreamProofs!Spec => []StreamProofs!InFileOrder
  BY StreamProofs!StreamInOrder
<1>2. TypeInv /\ StreamProofs!InFileOrder => InOrder
  <2> SUFFICES ASSUME TypeInv, StreamProofs!InFileOrder PROVE InOrder
    OBVIOUS
  <2> DEFINE all == delivered \o queue
             known == delivered \o (queue \o Rest)
  <2>1. /\ delivered \in Seq(Event) /\ queue \in Seq(Event)
        /\ block \in Seq(Event) /\ Len(block) \in Nat /\ blockPos \in Nat
    BY LenProperties DEF TypeInv, TypeOK
  <2>2. Rest \in Seq(Event)
    BY <2>1, PartOfBlock DEF Rest
  <2>3. known = all \o Rest /\ all \in Seq(Event)
    BY <2>1, <2>2, ConcatAssociative, ConcatProperties
  <2>4. \A i, j \in 1..Len(known) : i < j => known[i].id < known[j].id
    BY DEF StreamProofs!InFileOrder, StreamProofs!Known
  <2> HIDE DEF all, known
  <2>5. /\ Len(known) = Len(all) + Len(Rest)
        /\ Len(all) \in Nat /\ Len(Rest) \in Nat
        /\ \A i \in 1..Len(all) : i \in 1..Len(known) /\ known[i] = all[i]
    <3>1. Len(all) \in Nat /\ Len(Rest) \in Nat
      BY <2>2, <2>3, LenProperties
    <3>2. /\ Len(known) = Len(all) + Len(Rest)
          /\ \A i \in 1..(Len(all) + Len(Rest)) :
               known[i] = IF i <= Len(all) THEN all[i] ELSE Rest[i - Len(all)]
      BY <2>2, <2>3, ConcatProperties
    <3> QED BY <3>1, <3>2
  <2>6. \A i, j \in 1..Len(all) : i < j => all[i].id < all[j].id
    BY <2>4, <2>5
  <2> QED BY <2>6 DEF InOrder, all
<1> QED BY ReaderImplementsStream, Invariance, SameStream, <1>1, <1>2, PTL

\* No event that every region contains is lost between the file and the user,
\* whatever the thread, the levels and the changes of the settings.
THEOREM ReaderLosesNothing ==
    ASSUME MaxReadFaults = 0
    PROVE  Spec => []NothingLost
<1>1. StreamProofs!Spec => []StreamProofs!NothingLost
  BY StreamProofs!StreamLosesNothing
<1>2. StreamProofs!NothingLost => NothingLost
  BY DEF StreamProofs!NothingLost, StreamProofs!Known, NothingLost,
         Stream!NothingLost, Stream!Known
<1> QED BY ReaderImplementsStream, SameStream, <1>1, <1>2, PTL
===============================================================================
