---------------------------- MODULE AbstractReader ----------------------------
(***************************************************************************)
(* ev::AbstractReader_: a queue of events that events(n) fills from the    *)
(* calling thread or, after prefetch(n), a background thread keeps filled. *)
(*                                                                         *)
(* Two actors.  "user" is the one thread allowed to use the reader;        *)
(* "thread" is the lambda start_() runs.  They share queue_, running_ and  *)
(* finished_ with no lock, so each of their accesses to those is a step of *)
(* its own.  The block, the file and the settings belong to whoever reads, *)
(* and stop_() hands them over by joining the thread.                      *)
(*                                                                         *)
(* The argument of a call that begins with stop_() is chosen in the step   *)
(* that first uses it, after the join.  A call that only reads (events()   *)
(* with a queue, events(n) refused with an exception, the getters) is no   *)
(* step.                                                                   *)
(***************************************************************************)
EXTENDS Recording

CONSTANTS
    Block,           \* BLOCK
    MinCapacity,     \* MIN_CAPACITY
    Asks,            \* the n of events(n)
    Levels,          \* the n of prefetch(n)
    MaxReadFaults,   \* bound: how many times read_() throws
    StartMayFail     \* TRUE if the constructor of std::thread may throw

ASSUME SizeAssumption == Block \in Nat \ {0} /\ MinCapacity \in Nat \ {0}
ASSUME ArgumentAssumption == Asks \subseteq Nat /\ Levels \subseteq Nat
ASSUME FaultAssumption == MaxReadFaults \in Nat /\ StartMayFail \in BOOLEAN

VARIABLES
    pc,          \* where each actor is
    threaded,    \* what stop_() returned to the call of the user
    wanted,      \* how many events the queue must hold for events(n) to return
    held,        \* held, in the loop of the thread
    budget,      \* the max each actor gives to readBlock_()
    queue,       \* events in *queue_
    capacity,    \* queue_->capacity(), zero if there is no queue
    running,     \* running_
    finished,    \* finished_
    level,       \* level_
    block,       \* block_[0 .. blockCount_ - 1]
    blockPos,    \* blockPos_
    got,         \* events read_() has put in the block so far
    cursor,      \* position in the file
    roi,         \* roi_
    transform,   \* timeOffset_ and timeScale_
    readFaults,  \* how many times read_() has thrown
    delivered    \* history: events the user has popped since the beginning

control == <<pc, threaded, wanted, held, budget, running, level>>
source == <<block, blockPos, got, cursor, finished, readFaults>>
settings == <<roi, transform>>
vars == <<control, queue, capacity, source, settings, delivered>>

Actors == {"user", "thread"}
Stopping == {"prefetch", "reset", "setTransform", "setRoi", "destroy"}
Gone == {"destroyed", "aborted"}
UserPC == {"idle", "waitSize", "waitFinished", "fill", "block", "read"}
            \cup Stopping \cup Gone
ThreadPC == {"none", "loop", "size", "room", "block", "read", "exited",
             "aborted"}

TypeOK ==
    /\ pc \in [Actors -> UserPC \cup ThreadPC]
    /\ pc["user"] \in UserPC
    /\ pc["thread"] \in ThreadPC
    /\ threaded \in BOOLEAN
    /\ wanted \in Nat
    /\ held \in Nat
    /\ budget \in [Actors -> Nat]
    /\ queue \in Seq(Event)
    /\ capacity \in Nat
    /\ running \in BOOLEAN
    /\ finished \in BOOLEAN
    /\ level \in Nat
    /\ block \in Seq(Event)
    /\ blockPos \in Nat
    /\ got \in Nat
    /\ cursor \in 0..FileLen
    /\ readFaults \in Nat
    /\ roi \in SUBSET (1..FileLen)
    /\ transform \in Transforms
    /\ delivered \in Seq(Event)

Lesser(a, b) == IF a <= b THEN a ELSE b
Greater(a, b) == IF a >= b THEN a ELSE b

HasQueue == capacity > 0
Rest == SubSeq(block, blockPos + 1, Len(block))

Init ==
    /\ pc = [p \in Actors |-> IF p = "user" THEN "idle" ELSE "none"]
    /\ threaded = FALSE
    /\ wanted = 0
    /\ held = 0
    /\ budget = [p \in Actors |-> 0]
    /\ queue = <<>>
    /\ capacity = 0
    /\ running = FALSE
    /\ finished = FALSE
    /\ level = 0
    /\ block = <<>>
    /\ blockPos = 0
    /\ got = 0
    /\ cursor = 0
    /\ readFaults = 0
    /\ roi = 1..FileLen
    /\ transform = Identity
    /\ delivered = <<>>

-------------------------------------------------------------------------------
(* The queue: boost::lockfree::spsc_queue, which accepts what fits.        *)

Pushed(q, cap, events) ==
    q \o SubSeq(events, 1, Lesser(Len(events), cap - Len(q)))

\* Mutant: the events that were pending are forgotten.
ResizeDropping(cap) ==
    /\ capacity' = cap
    /\ queue' = <<>>

\* resize_() with the thread stopped: a new queue takes the events of the old.
Resize(cap) ==
    /\ capacity' = cap
    /\ queue' = Pushed(<<>>, cap, queue)

KeepQueue == UNCHANGED <<queue, capacity>>

-------------------------------------------------------------------------------
(* stop_() and start_().                                                   *)

\* running_.exchange(false); the call then waits in thread_.join().
Stop(call) ==
    /\ pc["user"] = "idle"
    /\ pc' = [pc EXCEPT !["user"] = call]
    /\ threaded' = running
    /\ running' = FALSE
    /\ UNCHANGED <<wanted, held, budget, level, queue, capacity, source,
                   settings, delivered>>

\* The join returns: there was no thread, or its loop has ended.
Joined(call) ==
    /\ pc["user"] = call
    /\ pc["thread"] \in {"none", "exited"}

At(user, thread) ==
    pc' = [p \in Actors |-> IF p = "user" THEN user ELSE thread]

\* running_ is set before the thread exists, and stays set if it cannot be
\* created: the exception leaves through the call of the user.
Start ==
    /\ running' = TRUE
    /\ \/ At("idle", "loop")
       \/ StartMayFail /\ At("idle", "none")

Restart == IF threaded THEN Start ELSE At("idle", "none") /\ UNCHANGED running

-------------------------------------------------------------------------------
(* The calls of the user that change how the reader works.                 *)

\* Mutant: a queue that exists is taken to be large enough.
TooSmallOnlyIfNone(n) == n > 0 /\ ~HasQueue

\* prefetch(n) needs another queue.
TooSmall(n) == n > capacity

Prefetch(n) ==
    /\ Joined("prefetch")
    /\ level' = n
    /\ IF n = 0
         THEN At("idle", "none") /\ KeepQueue /\ UNCHANGED running
         ELSE /\ IF TooSmall(n)
                   THEN Resize(Greater(n, MinCapacity))
                   ELSE KeepQueue
              /\ Start
    /\ UNCHANGED <<threaded, wanted, held, budget, source, settings, delivered>>

\* Mutant: only the file and the queue are reset.
BlockKept == UNCHANGED <<block, blockPos, got>>

\* What was left of the block is dropped.
BlockDropped ==
    /\ block' = <<>>
    /\ blockPos' = 0
    /\ got' = 0

Reset ==
    /\ Joined("reset")
    /\ cursor' = 0
    /\ BlockDropped
    /\ queue' = <<>>
    /\ finished' = FALSE
    /\ delivered' = <<>>
    /\ Restart
    /\ UNCHANGED <<threaded, wanted, held, budget, level, capacity, readFaults,
                   settings>>

SetTransform(x) ==
    /\ Joined("setTransform")
    /\ transform' = x
    /\ Restart
    /\ UNCHANGED <<threaded, wanted, held, budget, level, queue, capacity,
                   source, roi, delivered>>

SetRoi(r) ==
    /\ Joined("setRoi")
    /\ roi' = r
    /\ Restart
    /\ UNCHANGED <<threaded, wanted, held, budget, level, queue, capacity,
                   source, transform, delivered>>

\* The destructor of the concrete reader, whose stop_() comes first.
Destroy ==
    /\ Joined("destroy")
    /\ At("destroyed", "none")
    /\ UNCHANGED <<threaded, wanted, held, budget, running, level, queue,
                   capacity, source, settings, delivered>>

-------------------------------------------------------------------------------
(* readBlock_(): run by the user inside events(n) with no thread, or by    *)
(* the thread.  read_() and the filter go through the block once, in       *)
(* order, and nobody looks at it meanwhile: one step per event.            *)

\* Where an actor goes when its readBlock_() returns.
Return(p) == pc' = [pc EXCEPT ![p] = IF p = "user" THEN "fill" ELSE "loop"]

BeginRead(p) ==
    /\ pc[p] = "block"
    /\ blockPos = Len(block)
    /\ blockPos' = 0
    /\ block' = <<>>
    /\ got' = 0
    /\ pc' = [pc EXCEPT ![p] = "read"]
    /\ UNCHANGED <<threaded, wanted, held, budget, running, level, queue,
                   capacity, cursor, finished, readFaults, settings, delivered>>

\* read_() throws before it stores an event: blockPos_ is zero already and
\* blockCount_ is still the count of the block before.  The exception leaves
\* events(n), or ends the program if it is thrown in the thread.
ReadFails(p) ==
    /\ readFaults < MaxReadFaults
    /\ pc[p] = "block"
    /\ blockPos = Len(block)
    /\ cursor < FileLen
    /\ readFaults' = readFaults + 1
    /\ blockPos' = 0
    /\ IF p = "user"
         THEN pc' = [pc EXCEPT !["user"] = "idle"]
         ELSE At("aborted", "aborted")
    /\ UNCHANGED <<threaded, wanted, held, budget, running, level, queue,
                   capacity, block, got, cursor, finished, settings, delivered>>

ReadEvent(p) ==
    /\ pc[p] = "read"
    /\ got < Block
    /\ cursor < FileLen
    /\ got' = got + 1
    /\ cursor' = cursor + 1
    /\ block' = IF cursor + 1 \in roi
                  THEN Append(block, [id |-> cursor + 1, by |-> transform])
                  ELSE block
    /\ UNCHANGED <<control, queue, capacity, blockPos, finished, readFaults,
                   settings, delivered>>

\* Mutant: a block that is not full is taken for the end of the file.
ShortRead == got < Block

\* read_() returned nothing.
NothingRead == got = 0

\* A block may turn out empty after the filter: the next one is read.
EndRead(p) ==
    /\ pc[p] = "read"
    /\ got = Block \/ cursor = FileLen
    /\ IF NothingRead
         THEN finished' = TRUE /\ Return(p)
         ELSE pc' = [pc EXCEPT ![p] = "block"] /\ UNCHANGED finished
    /\ UNCHANGED <<threaded, wanted, held, budget, running, level, queue,
                   capacity, block, blockPos, got, cursor, readFaults, settings,
                   delivered>>

Push(p) ==
    /\ pc[p] = "block"
    /\ blockPos < Len(block)
    /\ LET count == Lesser(budget[p], Len(block) - blockPos)
       IN  /\ queue' = Pushed(queue, capacity,
                              SubSeq(block, blockPos + 1, blockPos + count))
           /\ blockPos' = blockPos + count
    /\ Return(p)
    /\ UNCHANGED <<threaded, wanted, held, budget, running, level, capacity,
                   block, got, cursor, finished, readFaults, settings,
                   delivered>>

ReadBlock(p) ==
    BeginRead(p) \/ ReadFails(p) \/ ReadEvent(p) \/ EndRead(p) \/ Push(p)

-------------------------------------------------------------------------------
(* events(n), through fill_(): with the thread it waits, otherwise it      *)
(* makes room and reads.                                                   *)

\* Mutant: fill_() does not look at running_.
AloneAlways == TRUE

\* fill_() finds no thread running.
Alone == ~running

AskThread(n) ==
    /\ pc["user"] = "idle"
    /\ running
    /\ n > 0
    /\ n <= level
    /\ wanted' = n
    /\ pc' = [pc EXCEPT !["user"] = "waitSize"]
    /\ UNCHANGED <<threaded, held, budget, running, level, queue, capacity,
                   source, settings, delivered>>

\* Mutant: any event will do.
SomeHeld == queue # <<>>

\* The queue holds what events(n) was asked for.
EnoughHeld == Len(queue) >= wanted

WaitSize ==
    /\ pc["user"] = "waitSize"
    /\ pc' = [pc EXCEPT !["user"] =
                IF EnoughHeld THEN "idle" ELSE "waitFinished"]
    /\ UNCHANGED <<threaded, wanted, held, budget, running, level, queue,
                   capacity, source, settings, delivered>>

WaitFinished ==
    /\ pc["user"] = "waitFinished"
    /\ pc' = [pc EXCEPT !["user"] = IF finished THEN "idle" ELSE "waitSize"]
    /\ UNCHANGED <<threaded, wanted, held, budget, running, level, queue,
                   capacity, source, settings, delivered>>

\* Mutant: the queue is never grown.
GrownNever(n) == IF HasQueue THEN capacity ELSE Greater(n, MinCapacity)

\* The capacity fill_() leaves for n more events: first that of the queue it
\* creates if there was none, then the growth.
Grown(n) ==
    LET current == IF HasQueue THEN capacity ELSE Greater(n, MinCapacity)
    IN  IF Len(queue) + n > current
          THEN Greater(Len(queue) + n, 2 * current)
          ELSE current

FillAlone(n) ==
    /\ pc["user"] = "idle"
    /\ Alone
    /\ n > 0 \/ ~HasQueue
    /\ wanted' = Len(queue) + n
    /\ IF Grown(n) # capacity THEN Resize(Grown(n)) ELSE KeepQueue
    /\ pc' = [pc EXCEPT !["user"] = "fill"]
    /\ UNCHANGED <<threaded, held, budget, running, level, source, settings,
                   delivered>>

FillMore ==
    /\ pc["user"] = "fill"
    /\ IF Len(queue) < wanted /\ ~finished
         THEN /\ budget' = [budget EXCEPT !["user"] = wanted - Len(queue)]
              /\ pc' = [pc EXCEPT !["user"] = "block"]
         ELSE /\ pc' = [pc EXCEPT !["user"] = "idle"]
              /\ UNCHANGED budget
    /\ UNCHANGED <<threaded, wanted, held, running, level, queue, capacity,
                   source, settings, delivered>>

\* The user takes the front of the queue.
Pop ==
    /\ pc["user"] = "idle"
    /\ queue # <<>>
    /\ delivered' = Append(delivered, Head(queue))
    /\ queue' = Tail(queue)
    /\ UNCHANGED <<control, capacity, source, settings>>

-------------------------------------------------------------------------------
(* The loop of the thread.                                                 *)

ThreadLoop ==
    /\ pc["thread"] = "loop"
    /\ pc' = [pc EXCEPT !["thread"] = IF running THEN "size" ELSE "exited"]
    /\ UNCHANGED <<threaded, wanted, held, budget, running, level, queue,
                   capacity, source, settings, delivered>>

ThreadSize ==
    /\ pc["thread"] = "size"
    /\ held' = Len(queue)
    /\ pc' = [pc EXCEPT !["thread"] = "room"]
    /\ UNCHANGED <<threaded, wanted, budget, running, level, queue, capacity,
                   source, settings, delivered>>

\* Mutant: no check that the queue is below the level.
RoomUnchecked == Lesser(level - held, capacity - Len(queue))

\* Mutant: what the queue holds is not discounted.
RoomOfLevel == IF held < level THEN Lesser(level, capacity - Len(queue)) ELSE 0

\* How many events the thread may add.  The user may have popped since held
\* was read.
Room == IF held < level THEN Lesser(level - held, capacity - Len(queue)) ELSE 0

ThreadRoom ==
    /\ pc["thread"] = "room"
    /\ IF finished \/ Room = 0
         THEN /\ pc' = [pc EXCEPT !["thread"] = "loop"]
              /\ UNCHANGED budget
         ELSE /\ pc' = [pc EXCEPT !["thread"] = "block"]
              /\ budget' = [budget EXCEPT !["thread"] = Room]
    /\ UNCHANGED <<threaded, wanted, held, running, level, queue, capacity,
                   source, settings, delivered>>

-------------------------------------------------------------------------------
\* A call the user makes while it is in none.
Call ==
    \/ \E n \in Asks : AskThread(n) \/ FillAlone(n)
    \/ \E call \in Stopping : Stop(call)
    \/ Pop

\* What the user still does in the call it has made.
Proceed ==
    \/ \E n \in Levels : Prefetch(n)
    \/ Reset
    \/ \E x \in Transforms : SetTransform(x)
    \/ \E r \in Rois : SetRoi(r)
    \/ Destroy
    \/ WaitSize
    \/ WaitFinished
    \/ FillMore
    \/ ReadBlock("user")

Thread ==
    \/ ThreadLoop
    \/ ThreadSize
    \/ ThreadRoom
    \/ ReadBlock("thread")

Over == pc["user"] \in Gone /\ UNCHANGED vars

Next == Call \/ Proceed \/ Thread \/ Over

Spec == Init /\ [][Next]_vars

\* The system runs both threads: the loop of one yields or sleeps when it has
\* nothing to do, the other spins with yield(), and neither holds a lock.  The
\* user need not make another call, but goes on with the one it has made.
FairSpec == Spec /\ WF_vars(Proceed) /\ WF_vars(Thread)

-------------------------------------------------------------------------------
(* Safety.                                                                 *)

\* The thread does not exist while the user is inside readBlock_() or fills
\* the queue itself: block_, blockPos_, the file and the producer's end of the
\* queue have one owner, although nothing but running_ and the joins of stop_()
\* says who it is.
SingleProducer ==
    pc["user"] \in {"fill", "block", "read"} => pc["thread"] = "none"

\* Whoever is about to push, the queue has room for all it may push: the
\* result of push() is ignored in readBlock_(), and blockPos_ moves on whether
\* or not the queue took the events.  The thread computed its room from reads
\* of the queue that the user may have outdated.
PushFits ==
    \A p \in Actors :
        pc[p] = "block" => Len(queue) + budget[p] <= capacity

\* finished_ is only up when the file and the block are exhausted: fill_()
\* returns early on it, in both of its loops.
FinishedMeansAll ==
    finished => cursor = FileLen /\ blockPos = Len(block)

\* events(n) returns with what it promises.  With the thread, at least the n
\* events asked; alone, exactly n more than there were; and fewer only if the
\* file is exhausted and all of it has been pushed.  The size and finished_ are
\* read one after the other while the thread pushes.
EventsDelivers ==
    [][ pc'["user"] = "idle" =>
          /\ pc["user"] \in {"waitSize", "waitFinished", "fill"} =>
               Len(queue) >= wanted \/ (cursor = FileLen /\ blockPos = Len(block))
          /\ pc["user"] = "fill" => Len(queue) <= wanted ]_vars

\* The thread never takes the queue above the level prefetch() asked for,
\* whatever the user pops between its reads of the size and its push.
LevelBound ==
    [][ pc["thread"] # "none" /\ Len(queue') > Len(queue) =>
            Len(queue') <= level ]_vars

\* What the user has taken, and what waits for it in the queue, is in the order
\* of the file and holds no event twice.
InOrder ==
    LET all == delivered \o queue
    IN  \A i, j \in 1..Len(all) : i < j => all[i].id < all[j].id

\* The reader implements the stream: an event waits from the moment it is read
\* into the block until it is popped.  No event is lost, repeated, reordered,
\* filtered or transformed other than by the settings in force when it is read.
Stream == INSTANCE EventStream WITH pending <- queue \o Rest

StreamSpec == Stream!Spec

\* An event that every region contains is never lost, however often the user
\* changes the region, the transform or the level: once it is read it has been
\* popped, or waits in the queue or in the block.
NothingLost == Stream!NothingLost

-------------------------------------------------------------------------------
(* Liveness.                                                               *)

\* Every call returns: the wait of events(n) for the thread ends, so does the
\* loop that fills the queue alone, and so do the joins of stop_().
InCall == pc["user"] \notin Gone \cup {"idle"}
CallsReturn == InCall ~> ~InCall

\* With prefetch() on, the queue is brought to the level asked for without
\* anyone asking for events, unless the file ends or the thread is stopped.
PrefetchFills == running ~> Len(queue) >= level \/ finished \/ ~running
===============================================================================
