------------------------------ MODULE HDF5Reader ------------------------------
(***************************************************************************)
(* The HDF5 format: the events of four datasets, read in chunks that       *)
(* outlast a call of read_(), any of which may fail to be read.            *)
(***************************************************************************)
EXTENDS Naturals, Sequences, FiniteSetsExt

CONSTANTS
    Totals,          \* numbers of events a file may have
    Chunk,           \* kChunk: events in a read of the datasets
    Block,           \* BLOCK: the events a call of read_() asks for
    MaxFaults        \* bound: reads of the datasets that throw

\* 512 and 4096 in the code.  A read of the datasets is then only needed at the
\* beginning of a call, and one that throws loses no event already copied.
ChunkOfBlocks == Chunk \in Nat \ {0} /\ \E n \in 1..Chunk : Chunk = n * Block

VARIABLES
    total,           \* total_
    filePos,         \* file_pos_
    buf, bufPos,     \* t_buf_, x_buf_, y_buf_ and p_buf_, and buf_pos_
    reading,         \* read_() is running
    events,          \* what it has copied
    handed,          \* what the calls before have handed over
    faults           \* reads that have thrown

vars == <<total, filePos, buf, bufPos, reading, events, handed, faults>>

Records == [i \in 1..total |-> i]

TypeOK ==
    /\ filePos \in 0..total
    /\ \A i \in 1..Len(buf) : buf[i] \in 1..total
    /\ bufPos \in 0..Len(buf) /\ Len(buf) <= Chunk
    /\ reading \in BOOLEAN
    /\ Len(events) <= Block
    /\ Len(handed) <= total
    /\ faults \in 0..MaxFaults

Init ==
    /\ total \in Totals
    /\ filePos = 0 /\ buf = <<>> /\ bufPos = 0
    /\ reading = FALSE /\ events = <<>> /\ handed = <<>>
    /\ faults = 0

Call ==
    /\ ~reading
    /\ reading' = TRUE
    /\ UNCHANGED <<total, filePos, buf, bufPos, events, handed, faults>>

\* Mutant: a chunk that does not end with a block.
OddChunk == Min({Chunk - 1, total - filePos})

NextChunk == Min({Chunk, total - filePos})

BufferUsed == reading /\ Len(events) < Block /\ bufPos >= Len(buf)

ReadChunk ==
    /\ BufferUsed
    /\ filePos < total
    /\ buf' = [i \in 1..NextChunk |-> filePos + i]
    /\ bufPos' = 0
    /\ filePos' = filePos + NextChunk
    /\ UNCHANGED <<total, reading, events, handed, faults>>

\* The exception leaves read_(): file_pos_ and the rest have not moved, and
\* what the call had copied is lost to its caller.
ReadThrows ==
    /\ faults < MaxFaults
    /\ BufferUsed
    /\ filePos < total
    /\ faults' = faults + 1
    /\ reading' = FALSE
    /\ events' = <<>>
    /\ UNCHANGED <<total, filePos, buf, bufPos, handed>>

Copy ==
    LET available == Min({Block - Len(events), Len(buf) - bufPos})
    IN  /\ reading
        /\ available > 0
        /\ events' = events \o SubSeq(buf, bufPos + 1, bufPos + available)
        /\ bufPos' = bufPos + available
        /\ UNCHANGED <<total, filePos, buf, reading, handed, faults>>

Return ==
    /\ reading
    /\ Len(events) = Block \/ (bufPos >= Len(buf) /\ filePos >= total)
    /\ reading' = FALSE
    /\ handed' = handed \o events
    /\ events' = <<>>
    /\ UNCHANGED <<total, filePos, buf, bufPos, faults>>

Reset ==
    /\ ~reading
    /\ filePos' = 0 /\ buf' = <<>> /\ bufPos' = 0
    /\ handed' = <<>>
    /\ UNCHANGED <<total, reading, events, faults>>

Work == ReadChunk \/ Copy \/ Return

Next == Call \/ Work \/ ReadThrows \/ Reset

Spec == Init /\ [][Next]_vars
================================================================================
