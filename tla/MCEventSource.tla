----------------------------- MODULE MCEventSource -----------------------------
(***************************************************************************)
(* The two formats against EventSource: every file of up to MaxBytes bytes *)
(* for the text, and files of up to MaxEvents events for HDF5.  A          *)
(* behaviour reads one file in one format.                                 *)
(***************************************************************************)
EXTENDS Naturals, Sequences, SequencesExt

CONSTANTS TextBlock, TextChunk, MaxBytes, H5Block, H5Chunk, MaxEvents, MaxFaults

VARIABLES format, file, offset, eof, chunk, pos, end, exhausted, failed,
          total, filePos, buf, bufPos, faults, reading, events, handed

MCFiles == UNION {[1..n -> {"digit", "junk", "newline"}] : n \in 0..MaxBytes}

Text == INSTANCE PlainTextReader
            WITH Files <- MCFiles, Chunk <- TextChunk, Block <- TextBlock
HDF5 == INSTANCE HDF5Reader
            WITH Totals <- 0..MaxEvents, Chunk <- H5Chunk, Block <- H5Block

ASSUME TextSizes == TextChunk \in Nat \ {0} /\ TextBlock \in Nat \ {0}
ASSUME H5Sizes == H5Block \in Nat \ {0} /\ HDF5!ChunkOfBlocks
ASSUME Bounds == MaxBytes \in Nat /\ MaxEvents \in Nat /\ MaxFaults \in Nat

textVars == <<file, offset, eof, chunk, pos, end, exhausted, failed>>
h5Vars == <<total, filePos, buf, bufPos, faults>>
vars == <<format, textVars, h5Vars, reading, events, handed>>

Init ==
    \/ /\ format = "text"
       /\ Text!Init
       /\ total = 0 /\ filePos = 0 /\ buf = <<>> /\ bufPos = 0 /\ faults = 0
    \/ /\ format = "hdf5"
       /\ HDF5!Init
       /\ file = <<>> /\ offset = 0 /\ eof = FALSE /\ chunk = <<0>> /\ pos = 0
       /\ end = 0 /\ exhausted = FALSE /\ failed = FALSE

Next ==
    \/ format = "text" /\ Text!Next /\ UNCHANGED <<format, h5Vars>>
    \/ format = "hdf5" /\ HDF5!Next /\ UNCHANGED <<format, textVars>>

\* read_() is one call of one thread, which goes on until it returns.
FairSpec ==
    /\ Init /\ [][Next]_vars
    /\ WF_vars(format = "text" /\ Text!Work /\ UNCHANGED <<format, h5Vars>>)
    /\ WF_vars(format = "hdf5" /\ HDF5!Work /\ UNCHANGED <<format, textVars>>)

\* The types of the reader in use: the bytes between pos_ and end_ are bytes of
\* the file, and no call hands over more than it was asked for.
TypeOK == IF format = "text" THEN Text!TypeOK ELSE HDF5!TypeOK

\* What each reader hands over, and that it runs; the other format does neither.
\* No read of the text throws.
From(f) == IF format = f THEN handed ELSE <<>>
Runs(f) == format = f /\ reading
TextSource == INSTANCE EventSource
                WITH records <- Text!Records, handed <- From("text"), reading <- Runs("text"),
                     throws <- 0, Block <- TextBlock
HDF5Source == INSTANCE EventSource
                WITH records <- HDF5!Records, handed <- From("hdf5"), reading <- Runs("hdf5"),
                     throws <- faults, Block <- H5Block

\* PlainTextReader::read_() hands over the lines of the file, whole, in order
\* and once, wherever the reads of the file cut them and however often it is
\* reset; a call gives less than a block only if that ends the file or reaches
\* the first line that is not parsed, and nothing only after that.
TextIsSource == TextSource!Spec

\* HDF5Reader::read_() hands over the events of the datasets in order and once,
\* when reads of the datasets throw in the middle of the file and are tried
\* again by the next call, and when the file is reset within a chunk; a call that
\* does not throw gives less than a block, or nothing, only at the end.
HDF5IsSource == HDF5Source!Spec

\* A call of read_() returns (or throws), whatever the bytes of the file: the
\* loop that refills the buffer ends.
ReadReturns == reading ~> ~reading
================================================================================
