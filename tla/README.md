# A TLA+ model of openev

openev is a C++ library for event cameras: containers of events, readers that
stream recordings, datasets that download and open them, device drivers, filters
and representations. Most of it is sequential. What is hard is in a few places:
the reader that a background thread fills while the user empties it, the player
that turns a recording into real time, the cache of datasets on disk, the camera
threads of the device library, and the containers and representations whose
state accumulates over long sequences of calls.

This directory holds specifications of those parts, the instances TLC checks, and
theorems TLAPS proves. `PROJECT.json` says which lines each definition models.

## Inventory

Paths are under `src/modules/`.

### Readers (`readers/`)

**Abstract reader** (`readers/src/abstract-reader.cpp`). State: a fixed-capacity
single-producer single-consumer queue (`queue_`), a block of at most 512 events
read and not yet pushed (`block_`, `blockPos_`, `blockCount_`), the flags
`running_` and `finished_`, the level of `prefetch()`, the region of interest and
the time transform. Operations: `events(n)`, `prefetch(n)`, `reset()`,
`setRoi()`, `setTimeTransform()`, the destructor, and the loop of the background
thread. The two threads share the queue, `running_` and `finished_` without a
lock; the file, the block and the settings are handed over by joining the thread
in `stop_()`. Correct when: the two are never both reading; no push is refused,
since its result is ignored; `events(n)` returns, with what its comment promises;
the thread stops at its level and reaches it; what the user pops is the file, in
order, once, filtered and transformed by the settings in force when it was read.

**Plain text reader** (`readers/src/plain-text-reader.cpp`). State: the file, a
buffer that grows (`chunk_`, `pos_`, `end_`), `exhausted_`, `failed_`. Operations:
`nextLine_()`, `read_()`, `reset_()`. Correct when every line is returned once and
whole, wherever the reads of the file cut it.

**HDF5 reader** (`readers/src/hdf5-reader.cpp`). State: the position in the file
and a chunk of 4096 events. `read_()` copies chunks into blocks; a read of a
dataset may throw, from `events(n)` or, uncaught, from the thread.

**Player** (`readers/include/openev/readers/player.hpp`). State: the clock of the
last call, the playhead, the positions among frames and measurements, the
controls (`pause`, `setSpeed`, `setLoop`), whether it is anchored or finished.
Operations: `next()` in three forms, `restart()`, the controls. It pulls from a
reader whose `prefetch()` level it must respect. Correct when each call delivers
exactly what happened up to the playhead, through batches, passes and restarts.

### Containers (`containers/`)

`ConcurrentQueue_` (external boost queue), `Array`, `Vector`, `Deque`, `Queue`,
`CircularBuffer`, and three that keep more than their elements. `StatsContainer_`
holds no events: a bounding box that grows, a count for each of its pixels, and sums
updated by each `push()`; `Stats_` computes the same statistics over stored events,
in two other ways. `SlidingWindow_` is a deque trimmed by time. `Grid_` has one
container per cell of the sensor. Correct when after any sequence of calls the
statistics, the window and the cells are those of the events they were given.

### Datasets (`datasets/`)

`AbstractDataset_` downloads an archive into a cache, extracts it, tells whether a
recording is available, and opens its readers. State: files on disk, and the
members `open()` fills. Hard: crashes between the steps, two processes on one
cache, a failure half way through `open()`. Correct when what is available is
complete, and a failure leaves nothing.

### Devices (`devices/`)

`AbstractCamera_` and `Davis` over libcaer (external): start, stop, `getData()`,
`flush()`, register configuration in several writes. State: `running_` (shared
between threads), the region of interest, the hot and saturated pixels, which
filters the device has and what its registers hold. Hard: the device keeps
producing while it is flushed or stopped; a write that fails between two others;
pixels filtered partly by the device and partly by the host. Correct when exactly
the wanted pixels reach the user, whoever filters them, and calls return.

### Event processing (`evproc/`)

Filters that keep the time of the last event of each pixel (background activity,
refractory period) or a count of them (hot pixels); undistortion, a map computed
once; voting. Sequential. Hard: what is recorded for an event that does not pass,
thresholds met exactly, settings changed and resets in the middle of a stream.
Correct when each answer follows from the history of the input.

### Representations (`representations/`)

Event image, histogram, time surface, point cloud and space-time: state built by
`insert()` and emptied by `clear()`, and drawn by `render()`. Hard: what `clear()`
leaves when it throws, caches of a background in a view, sentinels such as time
zero, counters that wrap, the peak that scales what is drawn. Correct when what is
drawn is what the events inserted since the last `clear()` say.

### The rest

Core types and conversions, the wrapper of the external EFFT, examples and
benchmarks keep no state worth a model.

### How they interact

The user's thread calls a reader; the reader's thread pushes to the queue the user
pops. A player calls `events(n)`, `reset()` and `prefetchCapacity()` of a reader
and nothing else. A dataset builds the readers it opens. Filters, containers and
representations receive events by calls, one after another. Cameras take containers
from a thread of libcaer.

## Modules

| module | what it is |
| --- | --- |
| `Recording` | the file of a reader and the settings of its user |
| `EventStream` | what a reader promises, with no queue, block or thread |
| `AbstractReader` | the reader and its thread, access by access |
| `EventSource` | what a reader needs of a file format |
| `PlainTextReader`, `HDF5Reader` | the two formats |
| `Player` | the player over the contract of the reader |
| `Dataset` | download, extraction and opening over a shared cache |
| `Camera` | the camera over its device and library |
| `EventFilters` | the three filters |
| `EventContainers` | running statistics, sliding window, grid |
| `EventRepresentation` | the five representations |
| `Undistortion` | the map and its `operator()` |
| `Filtering` | what a loop keeps of a list, for `Camera` and `EventContainers` |
| `Pipeline` | the four above composed as a program composes them |
| `MCAbstractReader`, `MCEventSource`, `MCPlayer`, `MCDataset`, `MCCamera`, `MCPipeline` | the instances for TLC |
| `EventStreamProofs`, `AbstractReaderProofs`, `EventSourceProofs`, `PlayerProofs`, `DatasetProofs`, `CameraProofs`, `PipelineProofs` | the theorems of each component |
| `IterationProofs` | the lemmas about loops, sequences and sums that they share |

`AbstractReader` implements `EventStream`, `PlainTextReader` and `HDF5Reader`
implement `EventSource`, and `Player` uses the contract that `AbstractReader` is
shown to keep. An operator whose comment begins with "Mutant:" is never used: it is a
variant of the definition after it, with a plausible mistake, that
`PROJECT.json` names to show which property notices.

### AbstractReader

Two actors, each with its place in `pc`: `user`, in one call at a time, and
`thread`, the lambda of `start_()`. A step is one access to what they share
without a lock: `size()` in the thread (`ThreadSize`) and `write_available()`
(`ThreadRoom`) are two steps between which the user may pop; `events(n)` reads the
size (`WaitSize`) and `finished_` (`WaitFinished`) in two steps between which the
thread may push. `stop_()` is two steps as well, the exchange of `running_`
(`Stop`) and the return of the join (`Joined`), and the rest of the call happens
in the second one, because by then nobody else touches what it changes.
`readBlock_()` goes `BeginRead`, one `ReadEvent` per event (with the transform and
the filter of that moment), `EndRead` and `Push`.

The block is what is left after the filter, so `blockCount_` is `Len(block)`, and
`got` is what `read_()` has returned. An event is its number in the file and the
transform it carries; a region of interest is the set of events inside it; the
empty `cv::Rect`, which filters nothing, is the set of them all. A call that only
reads (`events()` once there is a queue, the getters, `events(n)` refused with an
exception because `n` is above the level) changes nothing and is not a step. The
user uses the reader from one thread, as its header requires.

`FillAlone` covers two cases of `fill_()`: `n` events, and `events(0)` of a reader
with no queue yet. `Grown` is the capacity after the two possible calls of
`resize_()`, which with no thread are one change. The idle counter of the thread
only chooses between `yield()` and a short sleep and is left out.

Failures: `ReadFails` is an exception of `read_()`, which can only come from the
HDF5 reader, and only at the beginning of a block because its chunks of 4096 are
whole blocks; in the thread it ends the program. `Start` may leave no thread, if
`StartMayFail`.

Properties: `SingleProducer`, `PushFits`, `FinishedMeansAll`, `EventsDelivers`,
`LevelBound`, `InOrder`, `NothingLost`, `StreamSpec` (refinement), `CallsReturn`,
`PrefetchFills` (liveness).

### EventStream

Five variables: the events read (`cursor`), those waiting (`pending`), those taken
(`delivered`) and the two settings. `AbstractReader` implements it with `pending`
being the queue followed by the rest of the block: an event waits from the moment
it is read. `InFileOrder` and `NothingLost` say what this means to a user.

### EventSource, PlainTextReader, HDF5Reader

`EventSource` has the file's events (`records`), what has been handed over (`handed`),
whether a `read_()` is running (`reading`) and how many have thrown (`throws`). `Call`
begins one, `Give` ends it and hands over the next block, shorter only at the end of the
file, `Throw` ends it with nothing handed over, and `GoBack` is `reset_()`. A call is a
variable because `AbstractReader` takes a read of no events for the end of the file: a
`read_()` that returns nothing changes `reading`, so it is no stutter, and must be a
`Give`, which hands over nothing only when nothing is left. The count tells it from a
throw: `throws` is the `faults` of the HDF5 reader, and stays zero for text, no read of
which throws. So a `reset_()` that forgot to clear the stream or a flag, after which
every call gives nothing, is a violation.

`PlainTextReader` has the variables of the class. A byte is its position in the file
and a file gives the kind of each: a digit, a newline, or junk that makes its line
unreadable; so an event is the bytes of its line, and one cut, joined or repeated
cannot be mistaken for another. `nextLine_()` looks for a newline in what the buffer
holds, and refills it otherwise: what is left moves to the front, the buffer doubles
when a line fills it, and a read that comes back short sets `eof` of the stream,
which `reset_()` must clear. The abstract file ends where the first line that cannot be
parsed begins, as the code's does. The order of the columns and the separators only
decide which lines those are.

`HDF5Reader` copies from a chunk to the block, and reads the next chunk when it is
empty; that read may throw. `ChunkOfBlocks` is the relation between 4096 and 512 that
makes a throw lose nothing: it can only happen before the first event of a block.

### Player

`next()` is `Begin` (the clock, the early return of a finished player, the anchor),
`PlayEvent`, `AskMore`, `PlayedAll`, `EndStops` or `EndLoops` (the loop over the
events), `PlayFrame`, `PlayedFrames`, `PlaySample`, `Return`. Between calls the
user may change the controls, restart, change the level of the reader, and time
passes (`Tick`). The reader is its contract: `Filled` gives the positions where
`events(n)` may leave it, and `Prefetched` is its thread. A frame that cannot be
read is passed over like any other and not distinguished.

### Dataset

A process is in `idle` or at a step of `download()` or `open()`: `Call` (the close of
`open()`, the early returns, the directory), `FetchBegins` and `FetchEnds`
(`fetch()`), `Unzip`, `EntryBegins`, `EntryEnds` and `Extracted` (`extract()`),
`RemoveZip`, `Check`, `Clean` and `Cleaned` (the end of `download()`), `Load`. Steps
are divided where another process, or the end of this one, makes a difference.
A file is `absent`, `partial` or `whole`, and `writer` is who can still make it whole:
a file truncated by one process is lost to the other. Entries that are directories
write nothing and are left out, as are sequences that are not published, the
progress callback, and frames and measurements, whose files are names like any
other. `Crash` ends a process at any step; the disk stays. `CloseMayFail` lets an
`ofstream` lose its last bytes in its destructor, and `NamesMayFail` lets
`zip_get_name()` give no name for an entry, which `extract()` then passes over without
failing (`EntryUnnamed`).

Removals do not fail in the model, though their errors are ignored in the code.

### Camera

The device and its library are the environment: `Produce` adds a container to the queue
that the library holds for the host, `Lose` cuts the connection, and the register
writes of the filters may fail, one after another, up to `MaxFaults` of them. Those of
the streams (`devices/src/davis.cpp:68` to `:72`) do not fail in the model: their results
are ignored, and a stream whose write failed would stay enabled. The sensor
is a row, so a region of interest takes two registers instead of four; the device may
have the filter of regions and that of pixels, each or none (`roiFilter`,
`pixelFilter`, chosen in `Init`).

`start()` is `Start` (reading which streams are enabled, and starting, which enables
all of them), `Restore` and the `flush()` it ends with. `flush()` discards one
container per step. `stop()` is the exchange of `running_` (`Stop`) and what follows
(`Stopped`), by the user's thread or another. A container is given the region it was
exposed with and whether it has a time and a frame; which events it holds follows from
the filters of device and host, `Seen`. A pixel of a repaired frame is the set of the
pixels of the sensor that its value is the median of.

The streams that are enabled are taken to stay as they are when the library stops; one
that disables them then would have `start()` read them as disabled and leave them so.

The host's list keeps the hot pixels that the device has no slot for; the last pixel of
the list fills the slots that are left. `listed` and `asked` (ghosts) are what the user
last asked for, which `FilterExact` and `StreamsAsAsked` compare with what the
device does. `listed` is the list of the file inside the sensor, in its order and
with its repetitions: nothing in the code removes them, so a pixel that is listed
twice takes two slots.

### EventFilters, EventContainers, EventRepresentation, Undistortion

Four modules of sequential objects, each with one action per call and without a
specification of its own: `Pipeline` composes them. Each object keeps what its class
keeps, and a ghost: `heard` the events and the calls a filter has received, `pushed` the
events the containers were given, `shown` those the representations were. The
properties define from the ghost alone what the object should say: `RefractoryByHistory`,
for example, knows nothing of the map of last times.

- `EventFilters`: times are integers and `Lowest` is before all of them. The answer of
  a call depends on the map before the call writes it, as in the code.
- `EventContainers`: the statistics are exact integers, moments instead of the real
  numbers derived from them; `CLogC` stands for c log2(c) over counts, and needs only be
  zero at zero and a whole number elsewhere: what is compared is linear in its values.
  The instance takes one that tells counts apart. `Stats_` is computed over the box or
  over sorted keys, as `MAX_AREA_PER_EVENT` decides, and both must agree with the sums.
  The order of the keys is one of theirs (`Before`): runs of equal keys are the same in
  any order.
- `EventRepresentation`: one object per class, all given the same calls. A drawn pixel
  is `<<value, part, whole>>`: the fraction of the way from the reset value, without
  computing it. Nothing keeps the part within the whole but what the code does: a count
  is cut (`Cut`) only where outliers are rejected, and the age of an event is cut to its
  span where it is projected (`SeenAt`) and not where it fades (`Faded`). The kernels of
  the time surface are the three of the code; of the exponential the model keeps that it
  is one at age zero and falls. A colormap is its two ends and its middle. `Project` is
  the geometry of `SpaceTime_`, a constant, as `AxesAt` is that of its axes. The factor
  of outliers is in halves, so that whole numbers of them reach a count that is cut. `Tiny` is the smallest
  positive time, which the code uses as if it were the lowest: it is positive in the
  model too. The counters wrap at `CounterMax`. No event comes after `Forever`, the largest
  time of its type.
- `Undistortion`: the map as `init()` generates it, point by point with the state
  that its lambda captures; `Lens` is the function of OpenCV, a constant.

`Pipeline` runs one of `Programs`: an event arrives, is asked of the filters of the chain
one by one until one holds it back, is perhaps moved by the undistortion map, and ends
in the containers or in the representations. Between two events the program may make
any other call of the objects it uses.

## Runs

| run | module | shows |
| --- | --- | --- |
| `reader_safety` | `MCAbstractReader` | types and the five safety properties, with faults |
| `reader_refines` | `MCAbstractReader` | refinement, order and completeness with two regions and two transforms; calls return and the thread fills the queue, under fairness |
| `reader_read_fails` | `MCAbstractReader` | a failed read repeats a block (violation) |
| `sources` | `MCEventSource` | both formats implement the abstract source; `read_()` returns |
| `player` | `MCPlayer` | what is delivered is what is due; `next()` returns and is never refused |
| `player_tail` | `MCPlayer` | the end of a pass loses measurements (violation) |
| `dataset` | `MCDataset` | whole unless a process died, a failure leaves nothing, fetching again mends |
| `dataset_shared` | `MCDataset` | two processes leave no archive and spoil nothing that was whole |
| `dataset_crash` | `MCDataset` | a crash leaves half a sequence available (violation) |
| `camera` | `MCCamera` | exactly the wanted pixels are seen, streams are left as asked, frames repaired, `flush()` returns |
| `pipeline` | `MCPipeline` | every filter, container and representation says what the history of its input says |
| `undistort` | `MCPipeline` | a lens that distorts nothing moves the first column (violation) |

### Bounds

Reader: files of 3 or 5 events with blocks of 2, so that there are full blocks, a
short last one and the empty read after it. `MinCapacity` is 2 and not 4096, so
that queues are created, filled and grown; `Asks` and `Levels` go below, to and
above it. In `reader_refines` the region {1, FileLen} leaves out parts of blocks,
and with the region changing at any time, whole ones. `MaxReadFaults` bounds how
often a read fails; it and `StartMayFail` are on in `reader_safety`, and off where
a failure would break what the run asks: refinement, order and progress. No other
variable needs a bound: the file bounds the queue and the history.

Sources: every text of up to six bytes over the three kinds, with a buffer of two and
blocks of two events: lines that fit, that are cut by a read, that are longer than the
buffer, empty, unreadable or without their newline, and the empty file, in every order
that fits. HDF5 files of zero to nine events in chunks of four: none, part of a chunk,
exactly one or two, and one more; two reads may throw (`MaxFaults`). `reset_()` may come
between any two calls.

Player: four events, two of them at one time so that a batch of two splits them or
not, frames and measurements before, between and after them; the clock advances at
most `MaxGap` between calls, twice as fast with speed 2; `MaxLoops` bounds the
passes and restarts. `BATCH` is 2 with levels of 0, 1 and 3: none, below and
above.

Dataset: archives of one to three entries with the events first, between two others,
and absent, and one with an entry that leaves the directory; one process, or two,
enough for one to work on what the other left or is writing. `MaxCrashes` is 2 in
`dataset`, so that the second crash hits a download over the remains of
the first. `NamesMayFail` is on in `dataset_shared`, whose properties do not say that
a fetched sequence is whole; it is off in `dataset`, whose properties do. Calls are
not bounded.

Camera: three pixels, regions that overlap and one that leaves the sensor; two slots
with lists of hot pixels shorter and longer than that, one with a coordinate outside
the sensor and one with nothing inside it. Saturated pixels at the ends and next to
each other: with three pixels a region has a border on either side. One container in the
queue of the library, since the host takes them one at a time; `FlushTime` is 2, so
that a container that is not the last must count; one write may fail, which is enough
for a region made of two. All four kinds of device.

Pipeline: programs of two to five events with none, one or two other calls among them,
each aimed at a component and with the places and delays where its cases lie: neighbours
and events that are not, delays below, at and above `dt`, events outside the sensor and
at negative coordinates, a last column and a last row of cells that are narrower.
`MAX_AREA_PER_EVENT` is 2 and the box of far events exceeds it. `CounterMax` is 1, so that
a counter wraps with two events. The image has three pixels, so that one of them can be
an outlier of their counts: one that has wrapped to two, when the others have one. Some
have events and others none, and there are events outside of it. A program stops
after its last event, so deadlock is not checked in these two runs.

### Fairness

`FairSpec` of the reader is weak fairness of the user's current call and of the
thread. Neither holds a lock, both loops yield, and the operating system runs
both. Nothing makes the user begin a call. `FairSpec` of the player is weak
fairness of the call in progress; the reader's thread needs none, because the
contract of `events(n)`, which `CallsReturn` checks, is that it returns. `FairSpec` of
the sources is weak fairness of a `read_()` in progress.

`FairSpec` of the camera is weak fairness of the call in progress and of a `stop()` in
progress, and strong fairness of containers with a time: a stream that is enabled
again and again has events now and then, though any number of containers without
one may come between them, and the queue may be full in between. Without it `flush()`
may wait for ever, and so does the code's. `FlushReturns` excuses a call
whose stream is stopped, disabled or lost: the code does not return then.

## What the runs found

Four places where the code does not do what a comment or a test says:

- `reader_read_fails`: `readBlock_()` zeroes `blockPos_` before `read_()`, which
  may throw; the block before is then delivered again.
- `player_tail`: at the end of a pass `restart()` runs before the frames and
  measurements of the call are delivered, and they are lost.
- `dataset_crash`: `isAvailable()` asks only whether `events.txt` exists, and it is
  written in place: a process that dies while extracting leaves half a sequence
  available for ever.
  Two instances that are not kept as runs fail in the same way: with two processes,
  one opens what the other is extracting; with `CloseMayFail`, a file loses its end
  in the destructor of its `ofstream` and the download returns true. Extraction to a
  temporary directory, renamed once its streams are closed and checked, would answer
  the three.
- `undistort`: the lambda of `init()` returns the first pixel of the row that has just
  ended, `Point(x = 0, y++)`, so that an event of the first column is moved as one
  of the row above. The test of that name tries one point, far from the column.

### Known divergences without a run

Met while modelling, and either modelled as the code has them or left out; no property
claims otherwise. Paths are under `src/modules/`.

Readers:
- a `prefetch(n)` whose thread cannot be created (`readers/src/abstract-reader.cpp:50`
  and `:126`) leaves `prefetchCapacity()` at `n`, documented as zero with no thread, and
  the next `events(n)` waits for ever;
- a player paused before it is anchored (before the first `next()`, after a
  `restart()` or at the start of a pass) delivers the first events
  (`readers/include/openev/readers/player.hpp:187`), though `pause()` promises that
  nothing is delivered (`:67`);
- with `setLoop(false)` the player is over with its last event, and the frames and
  measurements after it are never delivered (`player.hpp:207`); a `pause(true)` and
  `pause(false)` between two calls of `next()` takes no time out (`:175`).

Datasets:
- an entry whose name the library cannot give is passed over
  (`datasets/src/abstract-dataset.cpp:92`), and the download succeeds without that file:
  with `NamesMayFail` the model does the same, and neither `WholeUnlessCrashed` nor
  `FetchedIsReady` holds;
- errors of removals are ignored (`datasets/src/abstract-dataset.cpp:190`).

Devices:
- the results of the writes that put the streams back (`devices/src/davis.cpp:68`) are
  ignored: one that fails leaves a stream enabled that the user disabled. It is not
  modelled, and `StreamsAsAsked` is about writes that succeed;
- the results of the writes that suppress hot pixels are ignored
  (`devices/src/davis.cpp:212`), and a list without any writes nothing (`:205`), so the
  device goes on suppressing those of the list before;
- `flush()` does not return once its stream is stopped, disabled or lost;

Representations:
- with the kernels LINEAR and EXPONENTIAL a time surface with no background draws a pixel
  without events toward `V_OFF` (`representations/include/openev/representations/time-surface.tpp:24`
  to `:35`): the zeros that `clear()` leaves are taken for the time and the polarity of
  an event. `abstract-representation.hpp:229` says that these pixels have a value of their
  own. The guard at `time-surface.tpp:15` does not help a surface that has no events at
  all, since the limit it compares with zero starts at the smallest positive number. The
  model does the same, and `SurfaceTellsAge` claims these pixels only with NONE or over
  a background;
- after a `clear()` that threw the time limits are gone and the times are not
  (`abstract-representation.tpp:22`): a surface with LINEAR or EXPONENTIAL, and a cloud that
  fades, then go past the value of a pixel that is newer or older than the new limits;
- `clear()` of a point cloud leaves the widget of its image plane
  (`representations/include/openev/representations/point-cloud.tpp:44`);
- `render()` of a space-time draws the events in the order of their insertion, which is
  from the oldest to the newest (`space-time.hpp:152`) only if they came so.

## Theorems

`AbstractReaderProofs` proves, for every file, block size, capacity, level, region,
transform and number of faults:

- `TypeCorrect`: `TypeOK`, with `Len(queue) <= capacity`. `TypeOK` alone is not
  inductive: the room the thread computes is a difference with the capacity.
- `Invariance`: the inductive invariant `IInv`, in three parts. `Handover` relates
  `running_`, the place of the user and the existence of the thread: there is a
  thread outside `stop_()` only with `running_` up, and `running_` is down while the
  user reads by itself. `RoomKnown` says what the reads of the queue still mean
  later: the size the thread read is an upper bound, because only the user has
  moved since, and it only pops; so what it will push fits both the capacity and
  the level. `BlockSound` says where the block is while it is read and pushed, and
  that `finished_` is truthful.
- From it: `OneOwner`, `EveryPushFits`, `FinishedIsTheEnd`, and the action
  properties `EventsKeepsItsPromise` and `ThreadStaysWithinLevel`.
- `ReaderImplementsStream`: with no failed reads, every step of the reader is a
  step of `EventStream` or leaves it unchanged. `EveryPushFits` is what makes a push
  a stutter. The hypothesis is needed: `reader_read_fails` is the counterexample.
- `PoppedInOrder` and `ReaderLosesNothing`: `InOrder` and `NothingLost`, from the
  refinement and from `StreamInOrder` and `StreamLosesNothing` of `EventStreamProofs`,
  which are about the abstract stream alone.

`DatasetProofs` proves, for every set of names and archives, and whichever steps fail:

- `TypeCorrectOK`: `TypeOK`, with the strengthening `Writes`: a process that writes is
  at an entry of the archive, and one whose path is safe.
- `NoArchiveStays`: `NoArchiveLeft`, for any number of processes over one cache, if none
  of them dies (`MaxCrashes = 0`). The invariant, `ZipHeld`, is that a file with the name
  of the archive is held by some call that will remove it. It need not be the one that
  made it, and that is why the invariant is about all of them.
- `OneAtATime`: the inductive invariant `Calls`, for one process whose calls follow one
  another, whose files close and whose entries have names (`Lone`). It says what a call knows of the disk at each
  place: the entries before `next` are whole while it extracts (`Written`, `Writing`),
  nothing is missing once extraction has succeeded (`Extraction`), the files that
  exist are the ones it has still to remove (`Cleaning`), and between calls what is
  available is whole if nobody has died (`Between`). `Written` excepts a name that
  appears twice, while its second entry is being written.
- From it: `AvailableIsWhole`, `FailureCleans` and `FetchMends`, the properties of the run
  `dataset`. The last two allow for any number of crashes before. Each part of
  `Lone` is needed: `dataset_crash`'s two relatives, above, are the counterexamples to the
  first two, and an entry that is passed over to the third.
- `WholeForGood`: `ReadyForGood`, for any number of processes, whatever fails and whoever
  dies. What stays (`Kept`) is that the sequence is whole and that every process is
  outside a call or in one that will only load: nobody begins to write while
  `events.txt` is there.

`EventSourceProofs`, for every text, file, buffer, block and chunk:

- `TypeCorrect`: the types of both formats, which for the text reader say that its
  indices stay in its buffer while it is filled, emptied and doubled.
- `HDF5Refines`: `HDF5IsSource`, the refinement, with any number of reads that throw and
  resets. The invariant `H5Inv` says that the chunk is the part of the file before
  `file_pos_` (`ChunkInv`), that what was handed over and what the call has copied are
  together the file up to the first event of the chunk that is not copied (`OrderInv`),
  and that both ends lie between two blocks (`BlockInv`). The last one is where
  `ChunkOfBlocks` is used: a read of the file throws only when the chunk is used up, and
  two multiples of a block that are less than a block apart are the same, so the call has
  copied nothing that could be lost.
- `TextRefines`: `TextIsSource`, the same for lines. The file's own records are defined
  without a scan, by where lines break (`Breaks`, `Starts`, `Line`) and by how many good
  lines begin no later (`Records`). `BufferInv` says that the bytes between `pos_` and
  `end_` are those of the file after the place that the reader has come to, wherever a
  read cut the file and however often the buffer was moved and doubled; `ScanInv` that
  this place is where a line begins, that the lines before it were parsed and that they
  are as many as were returned, or that the call has failed and there are no more;
  `LinesInv` that what was handed over and found are the first records. A call that
  ends has a block or has come to the end of the file or to a line that was not parsed,
  where the records end too: so one that gives less, or nothing, has given the last. The newline that
  `memchr()` finds is the next break of the file because everything before it in the
  buffer is the file (`BufferInv`), and the bytes left at the end are a line only
  because `exhausted_` implies the end of the file.

`PlayerProofs`, for every recording, level, speed, batch and number of passes:

- `EventsInTime` and `SensorsInTime`: `EventsUpToPlayhead` and `SensorsUpToPlayhead`, and
  `PassStartsAtFirstEvent`. What is delivered is early in no state (`EarlyInv`); it is
  not late behind the loop that delivers it (`LateInv`): the loop over the events ends
  only if the next event is ahead of the playhead or there is none, and the contract of
  the reader is what excludes that it merely had not read it yet (`FilledType`). `PassInv`
  adds that before its anchor a pass has delivered nothing. `Prefix` turns the two into
  the properties: of sorted times, those reached are the first ones.

`CameraProofs`, for every sensor, list, number of slots and kind of device, whichever
writes fail:

- `FiltersExactly`: `FilterExact`. The invariant relates three holders of one truth.
  `RegionInv` says who filters the region: the registers hold it, or the host has it,
  and the host only for want of the filter in the device, as long as no write failed.
  `PixelInv` says that what the host drops and what the slots hold are together the
  pixels of the last list, and that the slots hold no others unless the list is empty,
  which the code does not write.
- `StreamsKept`: `StreamsAsAsked`, by `StreamInv`: what `start()` saved is what was asked
  for until it is restored. `FramesAreRepaired` is about one container: the
  neighbours that replace a saturated pixel are inside the frame and not saturated.

`PipelineProofs`, for every sensor, map, grid and program, whatever calls its other calls
are:

- `BackgroundIsExact` and `RefractoryIsExact`: `BackgroundByHistory` and
  `RefractoryByHistory`. The map of times holds for each pixel the newest of the events
  heard, or of those that passed, or `Lowest` if there is none (`Newest`). That the last
  one is the newest is what needs events in order.
- `HotIsExact`: `HotByHistory`. The window a call falls in is found by a recursive
  function over the history, whose steps are proved first (`Opener`, by `Recursion`).
  `Windowed` says that the counts are those of the window so far, that the mask is the
  one of the window before with the criterion of the call that closed it, and that the
  mask is empty in the first window. The total that the code keeps comparing with is a
  sum over the pixels, and moves with each of them (the lemmas `Total` of
  `IterationProofs`).
- `LensMovesEvents`: `UndistortedByLens`. The map is generated by a lambda with state, so
  what its point number n is follows by induction on n, from the steps that
  `GeneratedSteps` gives. The property leaves the first column out, where the map is
  wrong as `undistort` shows.
- `WindowIsExact` and `GridIsExact`: `WindowKeeps` and `GridKeeps`, from
  `ContainersInvariant`. The window is an end of what was pushed, by times that do not
  decrease, so that trimming from the front removes just what it does not reach
  (`SlideInv`); each cell is such a window of its own events (`GridInv`). The arithmetic
  of the cells is in `Covers` (every pixel of the sensor has one, however the division
  rounds) and `CellsApart` (two have different places in the array).
- `RepresentationIsExact`: `RepresentationExact`, for every frame, projection, background,
  queue and order of calls. `RepresentationInv` says, of the objects `r` and the events
  shown: at each pixel they hold what its own events say (`Holding`), the peak covers
  every count and is zero only if the histogram is what `clear()` left (`Scaled`), the
  backdrop is that of the present view and background (also `Scaled`), and, unless a
  `clear()` threw, the count, the points and the limits are those of the events
  (`Counting`). Three arguments are not obvious. A counter is a remainder: that counting
  on from a wrapped counter gives what the net count gives, and that one event always
  changes it, so that the peak leaves zero with the first, is `WrappedCounts`. A queue is
  inserted by a fold: `FoldSteps` gives its intermediate objects, and `InsertedAll` is an
  induction over them. The limits start at `Forever` and `Tiny`: that they are those
  of the events is `Limiting`, in which a newest event at zero or before is lost. The
  properties of what is drawn follow without the history: each is about what one state
  draws. `AllInScale` is that no pixel goes past its value. For the histogram it comes
  from the peak, which bounds every count, where outliers are not rejected, and from the
  cut where they are (`CountsInScale`; `WholeIs` says that the scale is at least one, for
  whatever number the median is). For the surface (`TimesInScale`) and for a cloud that
  fades (`AgesInScale`) nothing is cut from above: it comes from the limits, which no time
  they hold is outside of unless a `clear()` threw. `TimesTellAge` compares two pixels
  with each kernel, as fractions with different wholes (`LaterIsBrighter`). The others are
  `NewestDrawnLast` and `BackdropIsSeen`. What a pixel without events shows with LINEAR
  and EXPONENTIAL and no background is not claimed: it is the divergence listed above.
- `TypeCorrect`: `TypeOK`, from all of these and from `StatsInv`, by which the counts of
  the statistics are as many as the pixels of their box, whichever way it has grown.
- `StatisticsAgree`: `StatsAgree`. `Tally` is how many events a pixel has, by the history
  alone. The invariant, `StatsAccounted`, says that every event is in the box, that the
  place of each of its pixels has the tally (`CountsInv`), and that the sums are those of
  the events, the number of active pixels and the peak those of the tallies, and the sum
  for the entropy the one over the pixels (`SumsInv`). The box grows to one that holds
  the old one (`ExtentHolds`), and places and pixels of a box are in one-to-one
  correspondence (`BoxPlaces`, from `RowMajor`), so that no count is lost or doubled when
  the rows move (`MovedKeeps`). After `clear()` the box stays, with counts of zero.
  `CountsInv` does not imply that the box is the smallest, which the `bounds` of the
  sums are (`BoxedJoined`). On the other side, both ways in which `Stats_` counts come
  to the number of pixels with each tally (`BagIs`): over the box because pixels without
  events have zero (`DenseCounts`), over keys because the ranks of the keys of one
  pixel have no gaps, so that a run is all of them (`RunsAre`, `SparseCounts`, from
  `NoGaps`). Adding up class by class or pixel by pixel is the same (`TotalByClass`), and
  so are the products of deviations and what the sums make of them (`TotalProducts`).

### Induction over data

The library's induction theorems take an operator and cannot be instantiated here. What
they are needed for is in `IterationProofs` in another form: `Induction` takes a set of
numbers, which is a first-order argument and comes from the well-foundedness of `<`;
`Recursion` shows that a function with the two equations of a recursive definition
exists, so that a definition by `CHOOSE` has them. From these: what a loop that filters a
sequence keeps (`Among`), suffixes of sequences, and sums over finite sets (`Total`), by
induction on the cardinality. They
cover functions on numbers with one step back. `FoldLeft` of the community modules recurs
over sets of places instead; `FoldsExists` shows, by their cardinality, that such a
function exists for the fold that inserts a queue.

### Assumptions

The theorems rest on the assumptions the modules name on their constants, which TLC
evaluates on every run:

- lengths, sizes and bounds are natural numbers; blocks, chunks, buffers, batches, sensors
  and maps are not empty; chunks are whole blocks, as 4096 and 512 are;
- recordings are sorted by time, and regions are sets of events of the file;
- archives are sequences of names, and the name of the archive is not one of them;
- coordinates of a region are not negative, those of a list may be anything;
- `Lowest` is below every `-dt`, as the smallest number of its type is;
- `tau` is positive, as `render()` demands of the kernels that use it;
- the frame of the representations has natural sizes, `CounterMax` and `Forever` are natural
  numbers, and `Tiny` is one: times are integers, so the smallest positive one is;
- the cells of a grid are no more than the pixels along each side, which its constructor
  demands;
- time does not run backwards in a program, and filters are asked of events on their
  sensor (`ProgramsAssumption`): their maps are indexed without a check;
- `CLogC` is zero at zero, where the code returns zero, and whole over the counts that a
  program can reach (`CLogCAssumption`, `ProgramsAssumption`). The real function is not:
  `StatsAgree` is about exact sums, and rounding is not modelled.

### Only model-checked

- Liveness, which the prover does not do: `CallsReturn`, `PrefetchFills`, `NextReturns`,
  `ReadReturns`, `FlushReturns`.
- `ZeroDistortionMapsPointToItself` and the other properties of the runs that expect a
  violation: they are false.

Every invariant and every action property of a passing run is a theorem. `ENABLED` is in
no proof, and the modules with theorems have no RECURSIVE operator.

## Not modelled

- Voting: one numeric kernel per call over real-valued accumulators.
- The drawing half of undistortion (`visualize()`, the remapping of images), the channels
  of images, the window of `PointCloud_`, and the geometry of `SpaceTime_`.
- Camera: biases, exposure, the interval and size of containers, the conversion of
  inertial measurements, and discovery. Each is one read or write of the library.
- Containers that only add constructors to those of the standard library and boost, and
  the value types of `core`, which keep no state.
- The memory model: `running_`, `finished_` and the indices of the queue are
  sequentially consistent or acquire/release in the code, and steps of the model.
- References to the queue that `events(n)` returned before it grew: the model has no
  addresses.
- The network, the zip library and the contents of the files of a dataset.
- The wrapper of EFFT, examples, benchmarks, build files.

## Plan

Done, each with its instance and runs: the reader, its contract and the refinement; the
two formats; the player; datasets; the camera; filters, containers, representations and
undistortion, composed. Proved: every invariant and
action property of the passing runs, with the refinements of the reader and of the two
formats; for datasets, what one process promises, and for any number of them their
archives and what stays whole.

What would come next:

1. `Player` composed with `AbstractReader` instead of its contract.
2. Datasets with the extraction to a temporary directory proposed above, and
   `AvailableIsWhole` for any number of processes.

The set of runs stays small: a component gets one passing run, with its safety and
its liveness together where the size allows, and a violation run only for a
disagreement with a documented promise.
