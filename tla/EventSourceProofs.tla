---------------------------- MODULE EventSourceProofs ----------------------------
(***************************************************************************)
(* The two readers implement EventSource, proved for every file and every  *)
(* size of buffers, chunks and blocks (for HDF5, blocks that divide the    *)
(* chunks, with any number of reads that throw); and their types.          *)
(*                                                                         *)
(* HDF5: the chunk is the part of the file before file_pos_, what was      *)
(* handed over and what the call has copied are together the file up to    *)
(* the first event of the chunk that is not copied, and both ends fall     *)
(* between two blocks: when a read throws, the call has copied nothing.    *)
(*                                                                         *)
(* Text: the bytes of the buffer are those of the file from a place on at  *)
(* which a line begins, and the lines before it were returned.             *)
(***************************************************************************)
EXTENDS MCEventSource, IterationProofs

-------------------------------------------------------------------------------
(* Multiples of a block.                                                   *)

Blocks(n) == \E k \in Nat : n = k * H5Block

\* Nothing is no block.
LEMMA BlocksNone == Blocks(0)
<1>1. 0 \in Nat /\ 0 = 0 * H5Block
  BY H5Sizes
<1> QED BY <1>1 DEF Blocks

\* Blocks and one more.
LEMMA BlocksAdd ==
    ASSUME NEW a, NEW b, Blocks(a), Blocks(b)
    PROVE  Blocks(a + b)
<1>1. PICK k \in Nat : a = k * H5Block
  BY DEF Blocks
<1>2. PICK l \in Nat : b = l * H5Block
  BY DEF Blocks
<1>3. k + l \in Nat /\ a + b = (k + l) * H5Block
  BY <1>1, <1>2, H5Sizes
<1> QED BY <1>3 DEF Blocks

\* A block is one.
LEMMA BlocksOne == Blocks(H5Block)
<1>1. 1 \in Nat /\ H5Block = 1 * H5Block
  BY H5Sizes
<1> QED BY <1>1 DEF Blocks

\* A chunk is a number of blocks.
LEMMA BlocksChunk == Blocks(H5Chunk) /\ H5Chunk \in Nat \ {0}
<1>1. H5Chunk \in Nat \ {0} /\ \E n \in 1..H5Chunk : H5Chunk = n * H5Block
  BY H5Sizes DEF HDF5!ChunkOfBlocks
<1> QED BY <1>1 DEF Blocks

\* Two multiples are less than a block apart only if they are the same.
LEMMA BlocksApart ==
    ASSUME NEW a \in Nat, NEW b \in Nat, Blocks(a), Blocks(b), a <= b, b - a < H5Block
    PROVE  a = b
<1>1. PICK k \in Nat : a = k * H5Block
  BY DEF Blocks
<1>2. PICK l \in Nat : b = l * H5Block
  BY DEF Blocks
<1>3. H5Block \in Nat \ {0}
  BY H5Sizes
<1>4. b - a = (l - k) * H5Block
  BY <1>1, <1>2, <1>3
<1>5. CASE l <= k
  <2>1. k * H5Block = l * H5Block + (k - l) * H5Block /\ (k - l) * H5Block >= 0
    BY <1>3, <1>5
  <2>2. k * H5Block \in Int /\ l * H5Block \in Int /\ (k - l) * H5Block \in Int
    BY <1>3
  <2>3. k * H5Block >= l * H5Block
    BY <2>1, <2>2
  <2> QED BY <1>1, <1>2, <2>3
<1>6. CASE l > k
  <2>1. l - k \in Nat /\ l - k >= 1
    BY <1>6
  <2>2. (l - k) * H5Block >= H5Block
    BY <1>3, <2>1
  <2>3. (l - k) * H5Block \in Int
    BY <1>3
  <2> QED BY <1>3, <1>4, <2>2, <2>3
<1> QED BY <1>5, <1>6

\* The smaller of two numbers, as FiniteSetsExt chooses it.
LEMMA MinOfTwo ==
    ASSUME NEW a \in Int, NEW b \in Int
    PROVE  Min({a, b}) = IF a <= b THEN a ELSE b
BY DEF Min

-------------------------------------------------------------------------------
(* HDF5.                                                                   *)

\* How much of the file is copied from the chunk or was before it.
Consumed == filePos - Len(buf) + bufPos

H5Types ==
    /\ total \in Nat /\ filePos \in 0..total
    /\ buf \in Seq(Nat) /\ bufPos \in 0..Len(buf) /\ Len(buf) <= H5Chunk
    /\ reading \in BOOLEAN
    /\ events \in Seq(Nat) /\ Len(events) <= H5Block
    /\ handed \in Seq(Nat)
    /\ faults \in 0..MaxFaults

\* The chunk is what precedes file_pos_ in the file.
ChunkInv == Len(buf) <= filePos /\ \A i \in 1..Len(buf) : buf[i] = filePos - Len(buf) + i

\* What was handed over and what is copied are the events up to there.
OrderInv ==
    /\ \A i \in 1..Len(handed) : handed[i] = i
    /\ \A i \in 1..Len(events) : events[i] = Len(handed) + i
    /\ Len(handed) + Len(events) = Consumed
    /\ ~reading => events = <<>>

\* Both begin with a block, or end with the file.
BlockInv ==
    /\ Blocks(filePos) \/ filePos = total
    /\ Blocks(Len(handed)) \/ Len(handed) = total

H5Inv == H5Types /\ ChunkInv /\ OrderInv /\ BlockInv

\* The sizes of the instance.
LEMMA H5Sizing ==
    H5Block \in Nat \ {0} /\ H5Chunk \in Nat \ {0} /\ MaxEvents \in Nat /\ MaxFaults \in Nat
BY H5Sizes, BlocksChunk, Bounds

\* The positions of the reader are numbers.
LEMMA H5Numbers ==
    ASSUME H5Types
    PROVE  /\ Len(buf) \in Nat /\ Len(handed) \in Nat /\ Len(events) \in Nat
           /\ filePos \in Nat /\ filePos <= total /\ total \in Nat
           /\ bufPos \in Nat /\ bufPos <= Len(buf) /\ Len(buf) <= H5Chunk
           /\ Len(events) <= H5Block
           /\ faults \in Nat /\ faults <= MaxFaults
BY H5Sizing DEF H5Types

\* The empty block.
LEMMA H5None == <<>> \in Seq(Nat) /\ Len(<<>>) = 0
OBVIOUS

\* The invariant holds at first.
LEMMA H5InitHolds == HDF5!Init => H5Inv
<1> SUFFICES ASSUME HDF5!Init PROVE H5Inv
  OBVIOUS
<1>0. /\ total \in 0..MaxEvents /\ filePos = 0 /\ buf = <<>> /\ bufPos = 0
      /\ reading = FALSE /\ events = <<>> /\ handed = <<>> /\ faults = 0
  BY DEF HDF5!Init
<1>4. Len(buf) = 0 /\ Len(events) = 0 /\ Len(handed) = 0
  BY <1>0, H5None, Zenon
<1>1. H5Types
  <2>1. total \in Nat /\ filePos \in 0..total /\ faults \in 0..MaxFaults /\ bufPos \in 0..Len(buf)
    BY <1>0, <1>4, H5Sizing
  <2>2. Len(buf) <= H5Chunk /\ Len(events) <= H5Block
    BY <1>4, H5Sizing
  <2>3. buf \in Seq(Nat) /\ events \in Seq(Nat) /\ handed \in Seq(Nat)
    BY <1>0, H5None, Zenon
  <2> QED BY <1>0, <2>1, <2>2, <2>3 DEF H5Types
<1>2. ChunkInv /\ OrderInv
  <2>1. Consumed = 0
    <3>1. filePos = 0 /\ bufPos = 0
      BY <1>0
    <3> QED BY <1>4, <3>1 DEF Consumed
  <2> QED BY <1>0, <1>4, <2>1 DEF ChunkInv, OrderInv
<1>3. BlockInv
  BY BlocksNone DEF HDF5!Init, BlockInv
<1> QED BY <1>1, <1>2, <1>3 DEF H5Inv

\* The next chunk is read where the last one ended.
LEMMA H5ReadChunkKeeps ==
    ASSUME H5Inv, HDF5!ReadChunk
    PROVE  H5Inv'
<1> USE DEF H5Inv
<1> DEFINE n == HDF5!NextChunk
<1>1. n \in Nat \ {0} /\ n <= H5Chunk /\ (n = H5Chunk \/ filePos + n = total) /\ filePos + n <= total
  <2>1. n = IF H5Chunk <= total - filePos THEN H5Chunk ELSE total - filePos
    <3>1. H5Chunk \in Int /\ total - filePos \in Int
      BY H5Sizing, H5Numbers
    <3> QED BY <3>1 DEF HDF5!NextChunk, HDF5!Min
  <2> QED BY <2>1, H5Sizing, H5Numbers DEF HDF5!ReadChunk
<1>2. /\ buf' = [i \in 1..n |-> filePos + i] /\ bufPos' = 0 /\ filePos' = filePos + n
      /\ UNCHANGED <<total, reading, events, handed, faults>>
      /\ bufPos >= Len(buf) /\ filePos < total
  BY DEF HDF5!ReadChunk, HDF5!BufferUsed
<1> HIDE DEF n
<1>3. buf' \in Seq(Nat) /\ Len(buf') = n
  BY <1>1, <1>2 DEF H5Types
<1>4. H5Types'
  BY <1>1, <1>2, <1>3 DEF H5Types
<1>5. ChunkInv'
  BY <1>1, <1>2, <1>3 DEF ChunkInv, H5Types
<1>6. Consumed' = Consumed
  <2>1. Consumed = filePos
    BY <1>2, H5Numbers DEF Consumed
  <2>2. Consumed' = filePos
    BY <1>1, <1>2, <1>3, H5Numbers DEF Consumed
  <2> QED BY <2>1, <2>2
<1>7. OrderInv'
  BY <1>2, <1>6 DEF OrderInv
<1>8. BlockInv'
  <2>1. Blocks(filePos) => Blocks(filePos + H5Chunk)
    BY BlocksAdd, BlocksChunk
  <2>2. Blocks(filePos') \/ filePos' = total
    BY <1>1, <1>2, <2>1 DEF BlockInv, H5Types
  <2> QED BY <1>2, <2>2 DEF BlockInv
<1> QED BY <1>4, <1>5, <1>7, <1>8

\* A read that throws finds nothing copied.
LEMMA H5ReadThrowsKeeps ==
    ASSUME H5Inv, HDF5!ReadThrows
    PROVE  H5Inv'
<1> USE DEF H5Inv
<1>1. /\ faults' = faults + 1 /\ reading' = FALSE /\ events' = <<>>
      /\ UNCHANGED <<total, filePos, buf, bufPos, handed>>
      /\ bufPos >= Len(buf) /\ filePos < total /\ Len(events) < H5Block /\ faults < MaxFaults
  BY DEF HDF5!ReadThrows, HDF5!BufferUsed
<1>2. Len(handed) + Len(events) = filePos
  BY <1>1, H5Numbers DEF OrderInv, Consumed
<1>3. Len(handed) \in Nat /\ filePos \in Nat /\ Len(handed) <= filePos
      /\ filePos - Len(handed) < H5Block /\ Len(handed) # total /\ filePos # total
  BY <1>1, <1>2, H5Sizing, H5Numbers
<1>4. Blocks(Len(handed)) /\ Blocks(filePos)
  BY <1>3 DEF BlockInv
<1>5. Len(handed) = filePos
  BY <1>3, <1>4, BlocksApart
<1>6. events = <<>>
  <2>1. Len(events) = 0
    BY <1>2, <1>3, <1>5, H5Numbers
  <2> QED BY <2>1 DEF H5Types
<1>7. H5Types'
  <2>1. faults' \in 0..MaxFaults
    BY <1>1, H5Sizing, H5Numbers
  <2>2. events' \in Seq(Nat) /\ Len(events') <= H5Block
    BY <1>1, <1>6 DEF H5Types
  <2> QED BY <1>1, <2>1, <2>2 DEF H5Types
<1>8. ChunkInv' /\ OrderInv' /\ BlockInv'
  BY <1>1, <1>6 DEF ChunkInv, OrderInv, BlockInv, Consumed
<1> QED BY <1>7, <1>8

\* Events are copied from the chunk to the block, in order.
LEMMA H5CopyKeeps ==
    ASSUME H5Inv, HDF5!Copy
    PROVE  H5Inv'
<1> USE DEF H5Inv
<1> DEFINE n == HDF5!Min({H5Block - Len(events), Len(buf) - bufPos})
           part == SubSeq(buf, bufPos + 1, bufPos + n)
<1>1. /\ n > 0 /\ events' = events \o part /\ bufPos' = bufPos + n /\ reading
      /\ UNCHANGED <<total, filePos, buf, reading, handed, faults>>
  BY DEF HDF5!Copy
<1>2. n \in Nat /\ n <= H5Block - Len(events) /\ n <= Len(buf) - bufPos
  <2>1. H5Block - Len(events) \in Nat /\ Len(buf) - bufPos \in Nat
    BY H5Sizing, H5Numbers
  <2>2. n = IF H5Block - Len(events) <= Len(buf) - bufPos
              THEN H5Block - Len(events) ELSE Len(buf) - bufPos
    BY <2>1 DEF HDF5!Min
  <2> HIDE DEF n
  <2> QED BY <2>1, <2>2
<1> HIDE DEF n
<1>3. part \in Seq(Nat) /\ Len(part) = n /\ \A i \in 1..n : part[i] = buf[bufPos + i]
  <2>1. buf \in Seq(Nat) /\ bufPos \in Nat /\ bufPos + n <= Len(buf) /\ Len(buf) \in Nat
    BY <1>2, H5Numbers DEF H5Types
  <2>2. \A i \in (bufPos + 1)..(bufPos + n) : buf[i] \in Nat
    BY <1>2, <2>1
  <2> QED BY <1>2, <2>1, <2>2
<1> HIDE DEF part
<1>4. /\ events' \in Seq(Nat) /\ Len(events') = Len(events) + n
      /\ \A i \in 1..Len(events) : events'[i] = events[i]
      /\ \A i \in 1..n : events'[Len(events) + i] = part[i]
  <2>1. events \in Seq(Nat)
    BY DEF H5Types
  <2>2. events' \in Seq(Nat) /\ Len(events') = Len(events) + n
    <3>1. events' = events \o part
      BY <1>1
    <3>2. part \in Seq(Nat) /\ Len(part) = n
      BY <1>3
    <3>3. events \o part \in Seq(Nat) /\ Len(events \o part) = Len(events) + Len(part)
      BY ONLY <2>1, <3>2
    <3> QED BY <3>1, <3>2, <3>3, Zenon
  <2>3. \A i \in 1..Len(events) : events'[i] = events[i]
    BY <1>1, <1>3, <2>1
  <2>4. ASSUME NEW i \in 1..n PROVE events'[Len(events) + i] = part[i]
    <3>1. /\ Len(events) + i \in 1..(Len(events) + Len(part)) /\ Len(events) + i > Len(events)
          /\ Len(events) + i - Len(events) = i
      BY <1>2, <1>3, <2>1
    <3> QED BY <1>1, <1>3, <2>1, <3>1
  <2> QED BY <2>2, <2>3, <2>4
<1>5. H5Types'
  <2>1. Len(events') <= H5Block
    BY <1>2, <1>4, H5Numbers, H5Sizing
  <2>2. bufPos' \in 0..Len(buf)
    BY <1>1, <1>2, H5Numbers
  <2> QED BY <1>1, <1>4, <2>1, <2>2 DEF H5Types
<1>6. ChunkInv' /\ BlockInv'
  BY <1>1 DEF ChunkInv, BlockInv
<1>7. Len(handed') + Len(events') = Consumed'
  <2>1. Len(handed) + Len(events) = filePos - Len(buf) + bufPos
    BY DEF OrderInv, Consumed
  <2>2. Consumed' = filePos - Len(buf) + (bufPos + n)
    BY <1>1 DEF Consumed
  <2>3. Len(handed') = Len(handed) /\ Len(events') = Len(events) + n
    BY <1>1, <1>4
  <2>4. /\ n \in Int /\ filePos \in Int /\ Len(buf) \in Int /\ bufPos \in Int
        /\ Len(handed) \in Int /\ Len(events) \in Int
    BY <1>2, H5Numbers
  <2> QED BY <2>1, <2>2, <2>3, <2>4
<1>8. ASSUME NEW j \in 1..Len(events')
      PROVE  events'[j] = Len(handed) + j
  <2>1. CASE j <= Len(events)
    BY <1>4, <2>1 DEF OrderInv, H5Types
  <2>2. CASE j > Len(events)
    <3> DEFINE i == j - Len(events)
    <3>1. i \in 1..n /\ Len(events) + i = j
      BY <1>2, <1>4, <2>2 DEF H5Types
    <3>2. bufPos + i \in 1..Len(buf)
      BY <1>2, <3>1 DEF H5Types
    <3>3. events'[j] = buf[bufPos + i]
      BY <1>3, <1>4, <3>1
    <3>4. buf[bufPos + i] = filePos - Len(buf) + (bufPos + i)
      BY <3>2 DEF ChunkInv
    <3>5. Len(handed) + Len(events) = filePos - Len(buf) + bufPos
      BY DEF OrderInv, Consumed
    <3>6. i \in Int
      BY <3>1, <1>2
    <3> HIDE DEF i
    <3> HIDE DEF i
    <3>7. /\ filePos \in Int /\ Len(buf) \in Int /\ bufPos \in Int
          /\ Len(handed) \in Int /\ Len(events) \in Int
      BY H5Numbers
    <3>8. events'[j] = (Len(handed) + Len(events)) + i
      BY <3>3, <3>4, <3>5, <3>6, <3>7
    <3> QED BY <3>1, <3>6, <3>7, <3>8
  <2> QED BY <1>4, <2>1, <2>2 DEF H5Types
<1>9. OrderInv'
  BY <1>1, <1>7, <1>8 DEF OrderInv
<1> QED BY <1>5, <1>6, <1>9

\* A call that returns hands over a block, or what is left of the file.
LEMMA H5ReturnKeeps ==
    ASSUME H5Inv, HDF5!Return
    PROVE  /\ H5Inv'
           /\ Len(handed') = IF Len(handed) + H5Block <= total THEN Len(handed) + H5Block
                                                             ELSE total
<1> USE DEF H5Inv
<1>1. /\ reading' = FALSE /\ events' = <<>> /\ handed' = handed \o events
      /\ UNCHANGED <<total, filePos, buf, bufPos, faults>>
      /\ Len(events) = H5Block \/ (bufPos >= Len(buf) /\ filePos >= total)
  BY DEF HDF5!Return
<1>2. /\ handed' \in Seq(Nat) /\ Len(handed') = Len(handed) + Len(events)
      /\ \A i \in 1..Len(handed) : handed'[i] = handed[i]
      /\ \A i \in 1..Len(events) : handed'[Len(handed) + i] = events[i]
  <2>1. handed \in Seq(Nat) /\ events \in Seq(Nat)
    BY DEF H5Types
  <2> QED BY <1>1, <2>1
<1>3. H5Types'
  <2>1. events' \in Seq(Nat) /\ Len(events') <= H5Block
    <3>1. Len(events') = 0 /\ events' \in Seq(Nat)
      BY <1>1, H5None, Zenon
    <3> QED BY <3>1, H5Sizing
  <2> QED BY <1>1, <1>2, <2>1 DEF H5Types
<1>4. ChunkInv'
  BY <1>1 DEF ChunkInv
<1>5. \A j \in 1..Len(handed') : handed'[j] = j
  <2> TAKE j \in 1..Len(handed')
  <2>1. CASE j <= Len(handed)
    <3>1. j \in 1..Len(handed)
      BY <1>2, <2>1, H5Numbers
    <3> QED BY <1>2, <3>1 DEF OrderInv
  <2>2. CASE j > Len(handed)
    <3>1. j - Len(handed) \in 1..Len(events) /\ Len(handed) + (j - Len(handed)) = j
      BY <1>2, <2>2, H5Numbers
    <3> QED BY <1>2, <3>1 DEF OrderInv
  <2> QED BY <1>2, <2>1, <2>2 DEF H5Types
<1>6. Consumed' = Consumed /\ Consumed <= total
  BY <1>1 DEF Consumed, H5Types
<1>7. OrderInv'
  BY <1>1, <1>2, <1>5, <1>6 DEF OrderInv, H5Types
<1>8. Len(events) # H5Block => Len(handed') = total
  <2> HAVE Len(events) # H5Block
  <2>1. bufPos = Len(buf) /\ filePos = total
    BY <1>1, H5Numbers
  <2> QED BY <1>2, <2>1, H5Numbers DEF OrderInv, Consumed
<1>9. Blocks(Len(handed')) \/ Len(handed') = total
  <2>1. CASE Len(events) = H5Block
    <3>1. Len(handed) # total
      BY <1>6, <2>1, H5Sizing DEF OrderInv, H5Types
    <3>2. Blocks(Len(handed) + H5Block)
      BY <3>1, BlocksAdd, BlocksOne DEF BlockInv
    <3> QED BY <1>2, <2>1, <3>2
  <2> QED BY <1>8, <2>1
<1>10. BlockInv'
  BY <1>1, <1>9 DEF BlockInv
<1>11. Len(handed') = IF Len(handed) + H5Block <= total THEN Len(handed) + H5Block ELSE total
  <2>1. Len(handed) + Len(events) <= total
    BY <1>6 DEF OrderInv
  <2>2. CASE Len(events) = H5Block
    BY <1>2, <2>1, <2>2, H5Sizing, H5Numbers
  <2>3. CASE Len(events) # H5Block
    <3>1. Len(handed) + Len(events) = total /\ Len(events) < H5Block
      BY <1>2, <1>8, <2>3, H5Sizing, H5Numbers
    <3> QED BY <1>8, <2>3, <3>1, H5Sizing, H5Numbers
  <2> QED BY <2>2, <2>3
<1> QED BY <1>3, <1>4, <1>7, <1>10, <1>11

\* reset_() goes back to the beginning, with no chunk.
LEMMA H5ResetKeeps ==
    ASSUME H5Inv, HDF5!Reset
    PROVE  H5Inv'
<1> USE DEF H5Inv
<1>1. /\ ~reading /\ filePos' = 0 /\ buf' = <<>> /\ bufPos' = 0 /\ handed' = <<>>
      /\ UNCHANGED <<total, reading, events, faults>>
  BY DEF HDF5!Reset
<1>5. Len(buf') = 0 /\ Len(handed') = 0 /\ buf' \in Seq(Nat) /\ handed' \in Seq(Nat)
  BY <1>1, H5None, Zenon
<1>2. H5Types'
  <2>1. filePos' \in 0..total' /\ bufPos' \in 0..Len(buf') /\ Len(buf') <= H5Chunk
    BY <1>1, <1>5, H5Sizing, H5Numbers
  <2> QED BY <1>1, <1>5, <2>1 DEF H5Types
<1>3. ChunkInv' /\ OrderInv'
  <2>1. Consumed' = 0
    <3>1. filePos' = 0 /\ bufPos' = 0
      BY <1>1
    <3> QED BY <1>5, <3>1 DEF Consumed
  <2>2. events = <<>>
    BY <1>1 DEF OrderInv
  <2>3. Len(events') = 0
    BY <1>1, <2>2, H5None, Zenon
  <2> QED BY <1>1, <1>5, <2>1, <2>2, <2>3 DEF ChunkInv, OrderInv
<1>4. BlockInv'
  BY <1>1, BlocksNone DEF BlockInv
<1> QED BY <1>2, <1>3, <1>4

\* read_() begins with an empty block.
LEMMA H5CallKeeps ==
    ASSUME H5Inv, HDF5!Call
    PROVE  H5Inv'
<1>1. /\ ~reading /\ reading' = TRUE
      /\ UNCHANGED <<total, filePos, buf, bufPos, events, handed, faults>>
  BY DEF HDF5!Call
<1>2. H5Types'
  BY <1>1 DEF H5Inv, H5Types
<1>3. ChunkInv' /\ OrderInv' /\ BlockInv'
  BY <1>1 DEF H5Inv, ChunkInv, OrderInv, BlockInv, Consumed
<1> QED BY <1>2, <1>3 DEF H5Inv

\* Every step keeps the invariant of the HDF5 reader.
LEMMA H5NextKeeps == H5Inv /\ HDF5!Next => H5Inv'
BY H5CallKeeps, H5ReadChunkKeeps, H5ReadThrowsKeeps, H5CopyKeeps, H5ReturnKeeps, H5ResetKeeps
   DEF HDF5!Next, HDF5!Work

\* The types follow from the invariant.
LEMMA H5TypeOK == H5Inv => HDF5!TypeOK
<1> SUFFICES ASSUME H5Inv PROVE HDF5!TypeOK
  OBVIOUS
<1>1. \A i \in 1..Len(buf) : buf[i] \in 1..total
  BY DEF H5Inv, H5Types, ChunkInv
<1>2. Len(handed) <= total
  BY DEF H5Inv, H5Types, OrderInv, Consumed
<1> QED BY <1>1, <1>2 DEF H5Inv, H5Types, HDF5!TypeOK

-------------------------------------------------------------------------------
(* Text: the types.                                                        *)

Bytes == 0..Len(file)

TextTypes ==
    /\ file \in Seq({"digit", "junk", "newline"}) /\ offset \in 0..Len(file)
    /\ chunk \in Seq(Bytes) /\ Len(chunk) > 0
    /\ end \in 0..Len(chunk) /\ pos \in 0..end
    /\ \A i \in (pos + 1)..end : chunk[i] # 0
    /\ eof \in BOOLEAN /\ exhausted \in BOOLEAN /\ failed \in BOOLEAN /\ reading \in BOOLEAN
    /\ events \in Seq(Seq(Bytes)) /\ Len(events) <= TextBlock
    /\ handed \in Seq(Seq(Bytes))

\* Every event has cost a byte of the file at least.
CountInv ==
    /\ Len(handed) + Len(events) <= offset - (end - pos)
    /\ ~reading => events = <<>>

TextInv == TextTypes /\ CountInv

\* The indices of the reader are numbers.
LEMMA TextNumbers ==
    ASSUME TextTypes
    PROVE  /\ Len(file) \in Nat /\ offset \in Nat /\ offset <= Len(file)
           /\ Len(chunk) \in Nat /\ Len(chunk) > 0
           /\ end \in Nat /\ end <= Len(chunk) /\ pos \in Nat /\ pos <= end
           /\ Len(events) \in Nat /\ Len(events) <= TextBlock /\ Len(handed) \in Nat
           /\ TextBlock \in Nat \ {0}
BY TextSizes DEF TextTypes

\* The empty block.
LEMMA TextNone == <<>> \in Seq(Seq(Bytes)) /\ Len(<<>>) = 0
OBVIOUS

\* A buffer of nothing is one.
LEMMA BlankType ==
    ASSUME NEW n \in Nat
    PROVE  Text!Blank(n) \in Seq(Bytes) /\ Len(Text!Blank(n)) = n
<1>1. 0 \in Bytes
  BY DEF Bytes
<1> QED BY <1>1 DEF Text!Blank

\* The invariant holds at first.
LEMMA TextInitHolds == Text!Init => TextInv
<1> SUFFICES ASSUME Text!Init PROVE TextInv
  OBVIOUS
<1>1. /\ file \in MCFiles
      /\ offset = 0 /\ eof = FALSE /\ pos = 0 /\ end = 0
      /\ exhausted = FALSE /\ failed = FALSE /\ reading = FALSE
      /\ events = <<>> /\ handed = <<>> /\ chunk = Text!Blank(TextChunk)
  BY DEF Text!Init
<1>2. file \in Seq({"digit", "junk", "newline"})
  BY <1>1, Bounds DEF MCFiles
<1>3. chunk \in Seq(Bytes) /\ Len(chunk) = TextChunk
  <2>1. TextChunk \in Nat
    BY TextSizes
  <2> QED BY <1>1, <2>1, BlankType, Zenon
<1>4. /\ Len(events) = 0 /\ Len(handed) = 0
      /\ events \in Seq(Seq(Bytes)) /\ handed \in Seq(Seq(Bytes))
  BY <1>1, TextNone, Zenon
<1>5. offset = 0 /\ pos = 0 /\ end = 0
  BY <1>1
<1>6. TextTypes
  <2>1. offset \in 0..Len(file) /\ end \in 0..Len(chunk) /\ pos \in 0..end /\ Len(chunk) > 0
        /\ Len(events) <= TextBlock /\ (pos + 1)..end = {}
    BY <1>2, <1>3, <1>4, <1>5, TextSizes
  <2> QED BY <1>1, <1>2, <1>3, <1>4, <2>1 DEF TextTypes
<1>7. CountInv
  BY <1>1, <1>4, <1>5 DEF CountInv
<1> QED BY <1>6, <1>7 DEF TextInv

\* The line up to b, which is after pos and no later than end, is taken.
LEMMA TextTakeKeeps ==
    ASSUME TextInv, Text!Wants, NEW b \in (pos + 1)..end, NEW line \in Seq(Bytes),
           Text!Take(line), pos' = b
    PROVE  TextInv'
<1> USE DEF TextInv
<1>1. /\ events' = IF Text!Parsed(line) THEN Append(events, line) ELSE events
      /\ failed' = ~Text!Parsed(line)
      /\ UNCHANGED <<file, offset, eof, chunk, end, exhausted, reading, handed>>
  BY DEF Text!Take
<1>2. reading /\ Len(events) < TextBlock
  BY DEF Text!Wants
<1>3. /\ events' \in Seq(Seq(Bytes))
      /\ Len(events') = Len(events) \/ Len(events') = Len(events) + 1
  <2>1. events \in Seq(Seq(Bytes))
    BY DEF TextTypes
  <2>2. /\ Append(events, line) \in Seq(Seq(Bytes))
        /\ Len(Append(events, line)) = Len(events) + 1
    BY <2>1
  <2>3. events' = Append(events, line) \/ events' = events
    BY <1>1
  <2> QED BY <2>1, <2>2, <2>3, Zenon
<1>4. b \in Nat /\ b <= end /\ b >= pos + 1
  BY TextNumbers
<1>5. TextTypes'
  <2>1. Len(events') <= TextBlock
    BY <1>2, <1>3, TextNumbers
  <2>2. end' \in 0..Len(chunk') /\ pos' \in 0..end'
    BY <1>1, <1>4, TextNumbers
  <2>3. \A i \in (pos' + 1)..end' : chunk'[i] # 0
    <3> TAKE i \in (pos' + 1)..end'
    <3>1. i \in (pos + 1)..end
      BY <1>1, <1>4, TextNumbers
    <3> QED BY <1>1, <3>1 DEF TextTypes
  <2>4. failed' \in BOOLEAN
    BY <1>1
  <2> QED BY <1>1, <1>3, <2>1, <2>2, <2>3, <2>4 DEF TextTypes, Bytes
<1>6. CountInv'
  <2>1. Len(handed) + Len(events) <= offset - (end - pos)
    BY DEF CountInv
  <2>2. Len(handed) + Len(events') <= offset - (end - b)
    <3>1. /\ Len(handed) \in Nat /\ Len(events) \in Nat /\ offset \in Nat
          /\ end \in Nat /\ pos \in Nat
      BY TextNumbers
    <3>2. Len(events') \in Nat /\ Len(events') <= Len(events) + 1
      BY <1>3, <3>1
    <3>3. b \in Nat /\ b >= pos + 1
      BY <1>4
    <3> QED BY <2>1, <3>1, <3>2, <3>3
  <2> QED BY <1>1, <1>2, <2>2 DEF CountInv
<1> QED BY <1>5, <1>6

\* A part of the bytes in the buffer.
LEMMA ChunkPart ==
    ASSUME TextTypes, NEW b \in Int, b <= Len(chunk)
    PROVE  /\ SubSeq(chunk, pos + 1, b) \in Seq(Bytes)
           /\ Len(SubSeq(chunk, pos + 1, b)) = IF pos + 1 <= b THEN b - pos ELSE 0
           /\ \A i \in 1..(b - pos) : SubSeq(chunk, pos + 1, b)[i] = chunk[pos + i]
<1>1. pos + 1 \in Int /\ pos \in Nat
  BY TextNumbers
<1>2. \A i \in (pos + 1)..b : chunk[i] \in Bytes
  BY <1>1 DEF TextTypes
<1>3. /\ SubSeq(chunk, pos + 1, b) \in Seq(Bytes)
      /\ Len(SubSeq(chunk, pos + 1, b)) = IF pos + 1 <= b THEN b - (pos + 1) + 1 ELSE 0
      /\ \A i \in 1..(b - (pos + 1) + 1) :
            SubSeq(chunk, pos + 1, b)[i] = chunk[(pos + 1) + i - 1]
  BY <1>1, <1>2, SubSeqProperties
<1> QED BY <1>1, <1>3

\* The smaller of two numbers, as FiniteSetsExt chooses it.
LEMMA TextMin ==
    ASSUME NEW S \in SUBSET Nat, S # {}
    PROVE  Text!Min(S) \in S
<1>1. \E x \in S : \A y \in S : x <= y
  BY Least
<1> QED BY <1>1 DEF Text!Min

\* A line that ends in the buffer is taken.
LEMMA TextWholeLineKeeps ==
    ASSUME TextInv, Text!WholeLine
    PROVE  TextInv'
<1> DEFINE b == Text!Min(Text!Newlines)
<1>1. Text!Wants /\ Text!Newlines # {} /\ pos' = b /\ Text!Take(SubSeq(chunk, pos + 1, b - 1))
  BY DEF Text!WholeLine
<1>2. b \in (pos + 1)..end
  <2>1. Text!Newlines \subseteq (pos + 1)..end /\ (pos + 1)..end \subseteq Nat
    BY TextNumbers DEF Text!Newlines, TextInv
  <2> QED BY <1>1, <2>1, TextMin
<1> HIDE DEF b
<1>3. SubSeq(chunk, pos + 1, b - 1) \in Seq(Bytes)
  <2>1. b - 1 \in Int /\ b - 1 <= Len(chunk)
    BY <1>2, TextNumbers DEF TextInv
  <2> QED BY <2>1, ChunkPart DEF TextInv
<1> QED BY <1>1, <1>2, <1>3, TextTakeKeeps

\* The last line of a file may have no end.
LEMMA TextLastLineKeeps ==
    ASSUME TextInv, Text!LastLine
    PROVE  TextInv'
<1>1. Text!Wants /\ pos # end /\ pos' = end /\ Text!Take(SubSeq(chunk, pos + 1, end))
  BY DEF Text!LastLine
<1>2. end \in (pos + 1)..end /\ end \in Int /\ end <= Len(chunk)
  BY <1>1, TextNumbers DEF TextInv
<1>3. SubSeq(chunk, pos + 1, end) \in Seq(Bytes)
  BY <1>2, ChunkPart DEF TextInv
<1> QED BY <1>1, <1>2, <1>3, TextTakeKeeps

\* The buffer keeps what is pending at its beginning, and has room after it.
LEMMA RoomType ==
    ASSUME TextTypes, NEW pending \in Seq(Bytes), Len(pending) <= Len(chunk)
    PROVE  /\ Text!Room(pending) \in Seq(Bytes)
           /\ Len(pending) < Len(Text!Room(pending))
           /\ \A i \in 1..Len(pending) : Text!Room(pending)[i] = pending[i]
<1> DEFINE rest == SubSeq(chunk, Len(pending) + 1, Len(chunk))
           moved == pending \o rest
<1>1. Len(pending) \in Nat /\ Len(chunk) \in Nat /\ Len(chunk) > 0 /\ Len(pending) + 1 \in Int
  BY TextNumbers
<1>2. \A i \in (Len(pending) + 1)..Len(chunk) : chunk[i] \in Bytes
  BY <1>1 DEF TextTypes
<1>3. rest \in Seq(Bytes) /\ Len(rest) = Len(chunk) - Len(pending)
  <2>1. rest \in Seq(Bytes)
    BY <1>1, <1>2, SubSeqProperties
  <2>2. Len(rest) = IF Len(pending) + 1 <= Len(chunk)
                      THEN Len(chunk) - (Len(pending) + 1) + 1 ELSE 0
    BY <1>1, <1>2, SubSeqProperties
  <2> QED BY <1>1, <2>1, <2>2
<1> HIDE DEF rest
<1>4. /\ moved \in Seq(Bytes) /\ Len(moved) = Len(chunk)
      /\ \A i \in 1..Len(pending) : moved[i] = pending[i]
  <2>1. moved \in Seq(Bytes) /\ Len(moved) = Len(pending) + Len(rest)
    BY <1>3
  <2>2. \A i \in 1..Len(pending) : moved[i] = pending[i]
    BY <1>3
  <2> QED BY <1>1, <1>3, <2>1, <2>2
<1>5. Text!Room(pending) = IF Len(pending) = Len(chunk)
                             THEN moved \o Text!Blank(Len(chunk)) ELSE moved
  BY DEF Text!Room, rest
<1> HIDE DEF moved
<1>6. CASE Len(pending) # Len(chunk)
  BY <1>1, <1>4, <1>5, <1>6
<1>7. CASE Len(pending) = Len(chunk)
  <2> DEFINE blank == Text!Blank(Len(chunk))
  <2>1. blank \in Seq(Bytes) /\ Len(blank) = Len(chunk)
    BY <1>1, BlankType
  <2> HIDE DEF blank
  <2>2. moved \o blank \in Seq(Bytes) /\ Len(moved \o blank) = Len(moved) + Len(blank)
    BY <1>4, <2>1
  <2>3. \A i \in 1..Len(pending) : (moved \o blank)[i] = moved[i]
    BY <1>1, <1>4, <2>1
  <2>4. Text!Room(pending) = moved \o blank
    BY <1>5, <1>7 DEF blank
  <2> QED BY <1>1, <1>4, <2>1, <2>2, <2>3, <2>4
<1> QED BY <1>6, <1>7

\* What is left moves to the front, and the file fills the room behind it.
LEMMA TextRefillKeeps ==
    ASSUME TextInv, Text!Refill
    PROVE  TextInv'
<1> USE DEF TextInv
<1> DEFINE pending == SubSeq(chunk, pos + 1, end)
           room == Text!Room(pending)
           space == Len(room) - Len(pending)
           got == IF eof THEN 0 ELSE Text!Min({space, Len(file) - offset})
<1>1. /\ Text!Wants
      /\ chunk' = [i \in 1..Len(room) |->
                     IF i \in (Len(pending) + 1)..(Len(pending) + got)
                       THEN offset + i - Len(pending) ELSE room[i]]
      /\ pos' = 0 /\ end' = Len(pending) + got /\ offset' = offset + got
      /\ eof' = (eof \/ got < space) /\ exhausted' = Text!AtEnd(got)
      /\ UNCHANGED <<file, failed, reading, events, handed>>
  BY DEF Text!Refill
<1>2. /\ pending \in Seq(Bytes) /\ Len(pending) = end - pos
      /\ \A i \in 1..Len(pending) : pending[i] = chunk[pos + i]
  <2>1. end \in Int /\ end <= Len(chunk)
    BY TextNumbers
  <2>2. /\ pending \in Seq(Bytes)
        /\ Len(pending) = IF pos + 1 <= end THEN end - pos ELSE 0
        /\ \A i \in 1..(end - pos) : pending[i] = chunk[pos + i]
    BY <2>1, ChunkPart
  <2>3. Len(pending) = end - pos
    BY <2>2, TextNumbers
  <2> QED BY <2>2, <2>3
<1> HIDE DEF pending
<1>3. /\ room \in Seq(Bytes) /\ Len(pending) < Len(room)
      /\ \A i \in 1..Len(pending) : room[i] = pending[i]
  <2>1. Len(pending) <= Len(chunk)
    BY <1>2, TextNumbers
  <2> QED BY <1>2, <2>1, RoomType
<1> HIDE DEF room
<1>4. space \in Nat /\ Len(room) \in Nat /\ Len(pending) \in Nat /\ Len(file) - offset \in Nat
  BY <1>2, <1>3, TextNumbers
<1> HIDE DEF space
<1>5. got \in Nat /\ got <= space /\ got <= Len(file) - offset
  <2>1. Text!Min({space, Len(file) - offset}) =
          IF space <= Len(file) - offset THEN space ELSE Len(file) - offset
    BY <1>4 DEF Text!Min
  <2> QED BY <1>4, <2>1
<1> HIDE DEF got
<1>6. Len(pending) + got <= Len(room)
  BY <1>4, <1>5 DEF space
<1>7. chunk' \in Seq(Bytes) /\ Len(chunk') = Len(room)
  <2>1. ASSUME NEW i \in 1..Len(room)
        PROVE  (IF i \in (Len(pending) + 1)..(Len(pending) + got)
                  THEN offset + i - Len(pending) ELSE room[i]) \in Bytes
    <3>1. CASE i \in (Len(pending) + 1)..(Len(pending) + got)
      BY <1>4, <1>5, <3>1, TextNumbers DEF Bytes
    <3>2. CASE i \notin (Len(pending) + 1)..(Len(pending) + got)
      BY <1>3, <3>2
    <3> QED BY <3>1, <3>2
  <2> QED BY <1>1, <1>4, <2>1
<1>8. \A i \in 1..end' : chunk'[i] # 0
  <2> TAKE i \in 1..end'
  <2>1. i \in 1..Len(room) /\ i <= Len(pending) + got
    BY <1>1, <1>4, <1>5, <1>6
  <2>2. CASE i <= Len(pending)
    <3>1. i \in 1..Len(pending) /\ pos + i \in (pos + 1)..end
      BY <1>2, <1>4, <2>1, <2>2, TextNumbers
    <3>2. chunk'[i] = room[i]
      BY <1>1, <1>4, <2>1, <2>2
    <3>3. room[i] = chunk[pos + i]
      BY <1>2, <1>3, <3>1
    <3> QED BY <3>1, <3>2, <3>3 DEF TextTypes
  <2>3. CASE i > Len(pending)
    <3>1. chunk'[i] = offset + i - Len(pending)
      BY <1>1, <1>4, <1>5, <2>1, <2>3
    <3> QED BY <1>4, <2>1, <2>3, <3>1, TextNumbers
  <2> QED BY <1>4, <2>1, <2>2, <2>3
<1>9. TextTypes'
  <2>1. offset' \in 0..Len(file') /\ end' \in 0..Len(chunk') /\ pos' \in 0..end' /\ Len(chunk') > 0
    BY <1>1, <1>3, <1>4, <1>5, <1>6, <1>7, TextNumbers
  <2>2. eof' \in BOOLEAN /\ exhausted' \in BOOLEAN
    BY <1>1 DEF TextTypes, Text!AtEnd
  <2>3. \A i \in (pos' + 1)..end' : chunk'[i] # 0
    <3>1. pos' + 1 = 1
      BY <1>1
    <3> QED BY <1>8, <3>1
  <2> QED BY <1>1, <1>7, <2>1, <2>2, <2>3 DEF TextTypes, Bytes
<1>10. CountInv'
  <2>1. Len(handed) + Len(events) <= offset - (end - pos)
    BY DEF CountInv
  <2>2. offset' - (end' - pos') = offset - (end - pos)
    BY <1>1, <1>2, <1>4, <1>5, TextNumbers, SMTT(20)
  <2>3. UNCHANGED <<handed, events, reading>>
    BY <1>1
  <2> QED BY <2>1, <2>2, <2>3 DEF CountInv
<1> QED BY <1>9, <1>10

\* read_() returns with its block.
LEMMA TextReturnKeeps ==
    ASSUME TextInv, Text!Return
    PROVE  TextInv'
<1> USE DEF TextInv
<1>1. /\ reading' = FALSE /\ handed' = handed \o events /\ events' = <<>>
      /\ UNCHANGED <<file, offset, eof, chunk, pos, end, exhausted, failed>>
  BY DEF Text!Return, Text!buffer
<1>2. handed' \in Seq(Seq(Bytes)) /\ Len(handed') = Len(handed) + Len(events)
  <2>1. handed \in Seq(Seq(Bytes)) /\ events \in Seq(Seq(Bytes))
    BY DEF TextTypes
  <2> QED BY <1>1, <2>1
<1>3. events' \in Seq(Seq(Bytes)) /\ Len(events') = 0
  BY <1>1, TextNone, Zenon
<1>4. TextTypes'
  <2>1. Len(events') <= TextBlock
    BY <1>3, TextNumbers
  <2> QED BY <1>1, <1>2, <1>3, <2>1 DEF TextTypes, Bytes
<1>5. CountInv'
  BY <1>1, <1>2, <1>3, TextNumbers DEF CountInv
<1> QED BY <1>4, <1>5

\* read_() begins with an empty block.
LEMMA TextCallKeeps ==
    ASSUME TextInv, Text!Call
    PROVE  TextInv'
<1> USE DEF TextInv
<1>1. /\ ~reading /\ reading' = TRUE /\ events' = <<>>
      /\ UNCHANGED <<file, offset, eof, chunk, pos, end, exhausted, failed, handed>>
  BY DEF Text!Call, Text!buffer
<1>2. events = <<>>
  BY <1>1 DEF CountInv
<1>3. TextTypes' /\ CountInv'
  BY <1>1, <1>2 DEF TextTypes, CountInv, Bytes
<1> QED BY <1>3

\* reset_() goes back to the beginning, with an empty buffer.
LEMMA TextResetKeeps ==
    ASSUME TextInv, Text!Reset
    PROVE  TextInv'
<1> USE DEF TextInv
<1>1. /\ ~reading /\ offset' = 0 /\ eof' = FALSE /\ pos' = 0 /\ end' = 0
      /\ exhausted' = FALSE /\ failed' = FALSE /\ handed' = <<>>
      /\ UNCHANGED <<file, chunk, reading, events>>
  BY DEF Text!Reset
<1>2. handed' \in Seq(Seq(Bytes)) /\ Len(handed') = 0
  BY <1>1, TextNone, Zenon
<1>3. events = <<>> /\ Len(events) = 0
  <2>1. events = <<>>
    BY <1>1 DEF CountInv
  <2> QED BY <2>1, TextNone, Zenon
<1>4. TextTypes'
  <2>1. offset' \in 0..Len(file') /\ end' \in 0..Len(chunk') /\ pos' \in 0..end'
        /\ (pos' + 1)..end' = {}
    BY <1>1, TextNumbers
  <2> QED BY <1>1, <1>2, <2>1 DEF TextTypes, Bytes
<1>5. CountInv'
  <2>1. offset' = 0 /\ end' = 0 /\ pos' = 0 /\ UNCHANGED <<events, reading>>
    BY <1>1
  <2> QED BY <1>2, <1>3, <2>1 DEF CountInv
<1> QED BY <1>4, <1>5

\* Every step keeps the invariant of the text reader.
LEMMA TextNextKeeps == TextInv /\ Text!Next => TextInv'
BY TextCallKeeps, TextWholeLineKeeps, TextLastLineKeeps, TextRefillKeeps, TextReturnKeeps,
   TextResetKeeps DEF Text!Next, Text!Work

\* The types follow from the invariant.
LEMMA TextTypeOK == TextInv => Text!TypeOK
<1> SUFFICES ASSUME TextInv PROVE Text!TypeOK
  OBVIOUS
<1>1. \A i \in 1..Len(chunk) : chunk[i] \in 0..Len(file)
  BY DEF TextInv, TextTypes, Bytes
<1>2. Len(handed) <= Len(file)
  BY TextNumbers DEF TextInv, CountInv
<1>3. Len(chunk) \in Nat \ {0}
  BY TextNumbers DEF TextInv
<1> QED BY <1>1, <1>2, <1>3 DEF TextInv, TextTypes, Text!TypeOK

-------------------------------------------------------------------------------
(* The lines of the file, as the text reader finds them.                   *)

\* Cardinality is the same operator in both modules.
LEMMA TextCardinality == \A S : Text!Cardinality(S) = Cardinality(S)
BY DEF Text!Cardinality, Cardinality

\* Lines begin in the file, each at a place of its own.
LEMMA StartsType ==
    ASSUME file \in Seq({"digit", "junk", "newline"}), NEW S \in SUBSET Text!Starts
    PROVE  /\ Text!Starts \subseteq 0..Len(file) - 1
           /\ IsFiniteSet(S) /\ Cardinality(S) \in Nat
           /\ Text!Cardinality(S) = Cardinality(S)
<1>1. Text!Starts \subseteq 0..Len(file) - 1 /\ Len(file) \in Nat
  BY DEF Text!Starts, Text!Breaks
<1>2. IsFiniteSet(0..Len(file) - 1)
  BY <1>1, FS_Interval
<1>3. IsFiniteSet(S)
  BY <1>1, <1>2, FS_Subset
<1> QED BY <1>1, <1>3, FS_CardinalityType, TextCardinality

\* The lines do not change while the file does not.
LEMMA LinesKept ==
    ASSUME UNCHANGED file
    PROVE  /\ Text!Records' = Text!Records /\ Text!Good' = Text!Good
           /\ Text!Starts' = Text!Starts
           /\ \A b : Text!Parsed(Text!Line(b))' <=> Text!Parsed(Text!Line(b))
BY DEF Text!Records, Text!Good, Text!Starts, Text!Line, Text!Breaks, Text!Parsed, Text!Field

\* A line ends where the next place is at which one can.
LEMMA LineEnds ==
    ASSUME NEW p \in Int, NEW q \in Text!Breaks, q \in Int, p < q,
           \A c \in Text!Breaks : ~(p < c /\ c < q), Text!Breaks \subseteq Int
    PROVE  Text!Line(p) = [i \in 1..(q - p - 1) |-> p + i]
<1> DEFINE S == {c \in Text!Breaks : c > p}
<1>1. Text!Min(S) = q
  <2>1. q \in S /\ S \subseteq Int
    OBVIOUS
  <2>2. \A c \in S : q <= c
    OBVIOUS
  <2> HIDE DEF S
  <2>3. \A x \in S : (\A c \in S : x <= c) => x = q
    BY <2>1, <2>2
  <2> QED BY <2>1, <2>2, <2>3 DEF Text!Min
<1> QED BY <1>1 DEF Text!Line

\* With the line after p, one line more begins before q.
LEMMA LineMore ==
    ASSUME file \in Seq({"digit", "junk", "newline"}), NEW p \in Text!Starts, NEW q \in Int,
           p < q, \A c \in Text!Breaks : ~(p < c /\ c < q)
    PROVE  /\ \A b \in Text!Starts : b < q <=> b < p \/ b = p
           /\ Text!Cardinality({b \in Text!Starts : b < q}) =
                Text!Cardinality({b \in Text!Starts : b < p}) + 1
<1> DEFINE before == {b \in Text!Starts : b < p}
<1>1. before \subseteq Text!Starts /\ p \in Int /\ Text!Starts \subseteq Int
  BY StartsType
<1>2. \A b \in Text!Starts : b < q <=> b < p \/ b = p
  BY <1>1 DEF Text!Starts
<1>3. {b \in Text!Starts : b < q} = before \cup {p} /\ p \notin before
  <2>1. p \notin before
    BY <1>1
  <2>2. \A b : b \in {c \in Text!Starts : c < q} <=> b \in before \cup {p}
    BY <1>2
  <2> QED BY <2>1, <2>2, Zenon
<1>4. IsFiniteSet(before) /\ Text!Cardinality(before) = Cardinality(before)
  BY <1>1, StartsType
<1> HIDE DEF before
<1>5. Cardinality(before \cup {p}) = Cardinality(before) + 1
  BY <1>3, <1>4, FS_AddElement
<1>6. Text!Cardinality(before \cup {p}) = Cardinality(before \cup {p})
  BY TextCardinality
<1>7. Text!Cardinality({b \in Text!Starts : b < q}) = Text!Cardinality(before) + 1
  BY <1>3, <1>4, <1>5, <1>6
<1> QED BY <1>2, <1>7 DEF before

\* If the lines before p are all parsed, the next is a record or there is none.
LEMMA NextRecord ==
    ASSUME file \in Seq({"digit", "junk", "newline"}), NEW p \in Text!Starts, NEW n,
           \A b \in Text!Starts : b < p => Text!Parsed(Text!Line(b)),
           n = Text!Cardinality({b \in Text!Starts : b < p})
    PROVE  IF Text!Parsed(Text!Line(p))
             THEN n + 1 <= Text!Cardinality(Text!Good) /\ Text!Records[n + 1] = Text!Line(p)
             ELSE n = Text!Cardinality(Text!Good)
<1> DEFINE before == {b \in Text!Starts : b < p}
           upTo(b) == {c \in Text!Good : c <= b}
<1>1. Text!Starts \subseteq Int /\ Text!Good \subseteq Text!Starts
  BY StartsType DEF Text!Good
<1>2. \A b \in Text!Starts : b < p => b \in Text!Good
  BY <1>1 DEF Text!Good
<1>3. CASE ~Text!Parsed(Text!Line(p))
  <2>1. \A b \in Text!Good : b < p
    BY <1>1, <1>3 DEF Text!Good
  <2>2. Text!Good = before
    BY <1>1, <1>2, <2>1
  <2> QED BY <1>3, <2>2
<1>4. CASE Text!Parsed(Text!Line(p))
  <2>1. p \in Text!Good
    BY <1>1, <1>4 DEF Text!Good
  <2>2. upTo(p) = before \cup {p} /\ p \notin before
    <3>1. p \notin before
      BY <1>1
    <3>2. \A b \in Text!Good : b <= p <=> b < p \/ b = p
      BY <1>1
    <3>3. \A b : b \in upTo(p) <=> b \in before \cup {p}
      BY <1>1, <1>2, <2>1, <3>2
    <3> QED BY <3>1, <3>3, Zenon
  <2>3. \A b : /\ upTo(b) \subseteq Text!Starts
               /\ IsFiniteSet(upTo(b)) /\ Cardinality(upTo(b)) \in Nat
               /\ Text!Cardinality(upTo(b)) = Cardinality(upTo(b))
    <3> TAKE b
    <3>1. upTo(b) \subseteq Text!Starts
      BY <1>1
    <3> QED BY <3>1, StartsType
  <2>4. /\ IsFiniteSet(before) /\ n = Cardinality(before) /\ n \in Nat
        /\ IsFiniteSet(Text!Good) /\ Text!Cardinality(Text!Good) = Cardinality(Text!Good)
        /\ Cardinality(Text!Good) \in Nat
    <3>1. before \subseteq Text!Starts
      OBVIOUS
    <3> QED BY <1>1, <3>1, StartsType
  <2>5. Cardinality(upTo(p)) = n + 1
    BY <2>2, <2>4, FS_AddElement
  <2>6. ASSUME NEW b \in Text!Good, Cardinality(upTo(b)) = n + 1 PROVE b = p
    <3>1. upTo(b) \subseteq upTo(p) \/ upTo(p) \subseteq upTo(b)
      <4>1. b \in Int /\ p \in Int /\ \A c \in Text!Good : c \in Int
        BY <1>1, <2>1
      <4>2. CASE b <= p
        <5>1. \A c \in Text!Good : c <= b => c <= p
          BY <4>1, <4>2
        <5> QED BY <5>1
      <4>3. CASE p <= b
        <5>1. \A c \in Text!Good : c <= p => c <= b
          BY <4>1, <4>3
        <5> QED BY <5>1
      <4> QED BY <4>1, <4>2, <4>3
    <3>2. upTo(b) = upTo(p)
      BY <2>3, <2>5, <2>6, <3>1, FS_Subset
    <3>3. b \in upTo(p) /\ p \in upTo(b)
      BY <1>1, <2>1, <3>2
    <3> QED BY <1>1, <2>1, <3>3
  <2>7. n + 1 <= Cardinality(Text!Good)
    <3>1. upTo(p) \subseteq Text!Good
      OBVIOUS
    <3> QED BY <2>4, <2>5, <3>1, FS_Subset
  <2>8. (CHOOSE b \in Text!Good : Text!Cardinality(upTo(b)) = n + 1) = p
    BY <2>1, <2>3, <2>5, <2>6
  <2>9. Text!Records[n + 1] = Text!Line(CHOOSE b \in Text!Good : Text!Cardinality(upTo(b)) = n + 1)
    BY <2>4, <2>7 DEF Text!Records
  <2> QED BY <1>4, <2>4, <2>7, <2>8, <2>9
<1> QED BY <1>3, <1>4

\* If all lines are parsed, there are as many records.
LEMMA NoRecord ==
    ASSUME file \in Seq({"digit", "junk", "newline"}), NEW n,
           \A b \in Text!Starts : b < Len(file) => Text!Parsed(Text!Line(b)),
           n = Text!Cardinality({b \in Text!Starts : b < Len(file)})
    PROVE  n = Text!Cardinality(Text!Good)
<1>1. \A b \in Text!Starts : b < Len(file)
  BY DEF Text!Starts
<1>2. Text!Good = {b \in Text!Starts : b < Len(file)}
  BY <1>1 DEF Text!Good
<1> QED BY <1>2

-------------------------------------------------------------------------------
(* What the buffer and the block hold of them.                             *)

\* The byte of the file that is next: those before it have been searched for lines.
Place == offset - (end - pos)

\* How many lines have been returned.
Returned == Len(handed) + Len(events)

\* The bytes between pos_ and end_ are those of the file after that place, and the
\* end of the file is noticed only there.
BufferInv ==
    /\ \A i \in (pos + 1)..end : chunk[i] = Place + (i - pos)
    /\ eof \/ exhausted => offset = Len(file)

\* What was handed over, and then what the call has found, are the first records.
LinesInv ==
    /\ Returned <= Text!Cardinality(Text!Good)
    /\ \A k \in 1..Len(handed) : handed[k] = Text!Records[k]
    /\ \A k \in 1..Len(events) : events[k] = Text!Records[Len(handed) + k]

\* The next byte is the first of a line, or there is none; the lines before it
\* were parsed, and returned.  Once a line was not parsed, there are no more.
ScanInv ==
    IF failed THEN Returned = Text!Cardinality(Text!Good)
    ELSE /\ Place \in Text!Starts \cup {Len(file)}
         /\ \A b \in Text!Starts : b < Place => Text!Parsed(Text!Line(b))
         /\ Returned = Text!Cardinality({b \in Text!Starts : b < Place})

LinesKnown == TextInv /\ BufferInv /\ LinesInv /\ ScanInv

\* The place and the number of lines are numbers; the place is in the file.
LEMMA PlaceType ==
    ASSUME TextInv
    PROVE  /\ file \in Seq({"digit", "junk", "newline"}) /\ Len(file) \in Nat
           /\ Place \in 0..Len(file) /\ Place \in Int /\ Returned \in Nat
           /\ Text!Breaks \subseteq Int
<1>1. file \in Seq({"digit", "junk", "newline"}) /\ Len(file) \in Nat
  BY DEF TextInv, TextTypes
<1>2. Len(handed) + Len(events) <= offset - (end - pos)
  BY DEF TextInv, CountInv
<1>3. Place \in 0..Len(file) /\ Returned \in Nat
  BY <1>2, TextNumbers DEF TextInv, Place, Returned
<1> QED BY <1>1, <1>3 DEF Text!Breaks

\* Text!Min chooses the least.
LEMMA TextLeast ==
    ASSUME NEW S \in SUBSET Nat, S # {}
    PROVE  \A y \in S : Text!Min(S) <= y
<1>1. \E x \in S : \A y \in S : x <= y
  BY Least
<1> QED BY <1>1 DEF Text!Min

\* A break between two places of the buffer is a newline in it.
LEMMA BreaksFound ==
    ASSUME TextInv, BufferInv, NEW c \in Text!Breaks, NEW b \in pos..end,
           Place < c, c <= Place + (b - pos)
    PROVE  pos + (c - Place) \in Text!Newlines /\ pos + (c - Place) <= b
<1> DEFINE i == pos + (c - Place)
<1>1. c \in Int /\ Place \in 0..Len(file) /\ pos \in Nat /\ end \in Nat /\ b \in Nat
  BY PlaceType, TextNumbers DEF TextInv
<1>2. c <= Len(file)
  <2>1. Place + (b - pos) <= offset /\ offset <= Len(file)
    BY <1>1, TextNumbers DEF TextInv, Place
  <2> QED BY <1>1, <2>1, TextNumbers DEF TextInv
<1>3. c \in 1..Len(file) /\ file[c] = "newline"
  BY <1>1, <1>2 DEF Text!Breaks
<1>4. i \in (pos + 1)..end /\ i <= b
  BY <1>1
<1>5. chunk[i] = c
  <2>1. chunk[i] = Place + (i - pos)
    BY <1>4 DEF BufferInv
  <2> QED BY <1>1, <2>1
<1> QED BY <1>3, <1>4, <1>5 DEF Text!Newlines

\* What is in the buffer from pos_ on, while no line ends there, is the line.
LEMMA BufferLine ==
    ASSUME TextInv, BufferInv, NEW b \in pos..end
    PROVE  /\ SubSeq(chunk, pos + 1, b) \in Seq(Bytes)
           /\ SubSeq(chunk, pos + 1, b) = [i \in 1..(b - pos) |-> Place + i]
<1> DEFINE part == SubSeq(chunk, pos + 1, b)
<1>1. /\ b \in Int /\ b <= Len(chunk) /\ pos \in Nat /\ end \in Nat /\ b - pos \in Nat
      /\ Place \in Int
  BY PlaceType, TextNumbers DEF TextInv
<1>2. /\ part \in Seq(Bytes)
      /\ Len(part) = IF pos + 1 <= b THEN b - pos ELSE 0
      /\ \A i \in 1..(b - pos) : part[i] = chunk[pos + i]
  BY <1>1, ChunkPart DEF TextInv
<1>3. \A i \in 1..(b - pos) : chunk[pos + i] = Place + i
  <2> TAKE i \in 1..(b - pos)
  <2>1. pos + i \in (pos + 1)..end
    BY <1>1
  <2>2. chunk[pos + i] = Place + ((pos + i) - pos)
    BY <2>1 DEF BufferInv
  <2> QED BY <1>1, <2>2
<1> HIDE DEF part
<1>4. Len(part) = b - pos /\ part = [i \in 1..Len(part) |-> part[i]]
  BY <1>1, <1>2
<1>5. part = [i \in 1..(b - pos) |-> Place + i]
  BY <1>2, <1>3, <1>4
<1> QED BY <1>2, <1>5 DEF part

\* The line that begins at the place is taken, up to b in the buffer.
LEMMA TakeKnown ==
    ASSUME LinesKnown, Text!Wants, NEW b \in (pos + 1)..end, pos' = b,
           NEW line \in Seq(Bytes), Text!Take(line), Place \in Text!Starts,
           line = Text!Line(Place),
           \A c \in Text!Breaks : ~(Place < c /\ c < Place + (b - pos)),
           Place + (b - pos) \in Text!Starts \cup {Len(file)}
    PROVE  LinesKnown'
<1> DEFINE p == Place
           q == Place + (b - pos)
           n == Returned
<1>0. /\ events' = IF Text!Parsed(line) THEN Append(events, line) ELSE events
      /\ failed' = ~Text!Parsed(line) /\ failed = FALSE
      /\ UNCHANGED <<file, offset, eof, chunk, end, exhausted, reading, handed>>
  <2>1. failed \in BOOLEAN
    BY DEF LinesKnown, TextInv, TextTypes
  <2> QED BY <2>1 DEF Text!Take, Text!Wants
<1>1. TextInv'
  BY TextTakeKeeps DEF LinesKnown
<1>2. /\ p \in Int /\ q \in Int /\ p < q /\ n \in Nat /\ b \in Int /\ pos \in Int /\ end \in Int
      /\ Place' = q /\ events \in Seq(Seq(Bytes)) /\ Len(events) \in Nat /\ Len(handed) \in Nat
      /\ offset \in Int
  BY <1>0, PlaceType, TextNumbers DEF LinesKnown, TextInv, TextTypes, Place
<1>3. BufferInv'
  <2>1. ASSUME NEW i \in (b + 1)..end PROVE chunk[i] = q + (i - b)
    <3>1. i \in (pos + 1)..end
      BY <1>2
    <3>2. chunk[i] = p + (i - pos)
      BY <3>1 DEF LinesKnown, BufferInv
    <3> QED BY <1>2, <2>1, <3>2
  <2>2. eof' \/ exhausted' => offset' = Len(file')
    BY <1>0 DEF LinesKnown, BufferInv
  <2> QED BY <1>0, <1>2, <2>1, <2>2 DEF BufferInv
<1>4. /\ \A c \in Text!Starts : c < p => Text!Parsed(Text!Line(c))
      /\ n = Text!Cardinality({c \in Text!Starts : c < p})
  BY <1>0 DEF LinesKnown, ScanInv
<1>5. /\ \A c \in Text!Starts : c < q <=> c < p \/ c = p
      /\ Text!Cardinality({c \in Text!Starts : c < q}) = n + 1
  <2>1. /\ file \in Seq({"digit", "junk", "newline"}) /\ p \in Text!Starts
        /\ \A c \in Text!Breaks : ~(p < c /\ c < q)
    BY PlaceType DEF LinesKnown
  <2> HIDE DEF p, q
  <2>2. /\ \A c \in Text!Starts : c < q <=> c < p \/ c = p
        /\ Text!Cardinality({c \in Text!Starts : c < q}) =
             Text!Cardinality({c \in Text!Starts : c < p}) + 1
    <3>1. p \in Text!Starts /\ q \in Int /\ p < q
      BY <1>2, <2>1
    <3> QED BY ONLY <2>1, <3>1, LineMore
  <2> QED BY <1>4, <2>2
<1>6. IF Text!Parsed(line)
        THEN n + 1 <= Text!Cardinality(Text!Good) /\ Text!Records[n + 1] = line
        ELSE n = Text!Cardinality(Text!Good)
  BY <1>4, NextRecord, PlaceType DEF LinesKnown
<1>7. /\ Text!Records' = Text!Records /\ Text!Good' = Text!Good /\ Text!Starts' = Text!Starts
      /\ \A c : Text!Parsed(Text!Line(c))' <=> Text!Parsed(Text!Line(c))
  BY <1>0, LinesKept
<1>8. /\ n <= Text!Cardinality(Text!Good)
      /\ \A k \in 1..Len(handed) : handed[k] = Text!Records[k]
      /\ \A k \in 1..Len(events) : events[k] = Text!Records[Len(handed) + k]
      /\ n = Len(handed) + Len(events)
  BY DEF LinesKnown, LinesInv, Returned
<1>9. CASE Text!Parsed(line)
  <2>1. /\ Len(events') = Len(events) + 1 /\ Returned' = n + 1
        /\ \A k \in 1..Len(events) : events'[k] = events[k]
        /\ events'[Len(events) + 1] = line
    BY <1>0, <1>2, <1>8, <1>9 DEF Returned
  <2>2. LinesInv'
    <3>1. ASSUME NEW k \in 1..Len(events') PROVE events'[k] = Text!Records[Len(handed) + k]
      <4>1. CASE k \in 1..Len(events)
        BY <1>8, <2>1, <4>1
      <4>2. CASE k = Len(events) + 1
        <5>1. Len(handed) + k = n + 1
          BY <1>2, <1>8, <4>2
        <5> QED BY <1>6, <1>9, <2>1, <4>2, <5>1
      <4>3. k \in 1..Len(events) \/ k = Len(events) + 1
        BY <1>2, <2>1
      <4> QED BY <4>1, <4>2, <4>3
    <3> QED BY <1>0, <1>6, <1>7, <1>8, <1>9, <2>1, <3>1, TextCardinality DEF LinesInv
  <2>3. ScanInv'
    <3>1. failed' = FALSE
      BY <1>0, <1>9
    <3>2. \A c \in Text!Starts : c < q => Text!Parsed(Text!Line(c))
      BY <1>4, <1>5, <1>9
    <3>3. Len(file') = Len(file) /\ {c \in Text!Starts : c < q} = {c \in Text!Starts : c < Place'}
      BY <1>0, <1>2
    <3>4. Returned' = Text!Cardinality({c \in Text!Starts : c < Place'})
      BY <1>5, <2>1, <3>3
    <3> QED BY <1>2, <1>7, <3>1, <3>2, <3>3, <3>4, TextCardinality DEF ScanInv
  <2> QED BY <1>1, <1>3, <2>2, <2>3 DEF LinesKnown
<1>10. CASE ~Text!Parsed(line)
  <2>1. events' = events /\ Returned' = n /\ failed' = TRUE
    BY <1>0, <1>10 DEF Returned
  <2>2. LinesInv'
    BY <1>0, <1>7, <1>8, <2>1, TextCardinality DEF LinesInv
  <2>3. ScanInv'
    BY <1>6, <1>7, <1>10, <2>1, TextCardinality DEF ScanInv
  <2> QED BY <1>1, <1>3, <2>2, <2>3 DEF LinesKnown
<1> QED BY <1>9, <1>10

\* The place is one where a line begins as long as a byte is left.
LEMMA PlaceStarts ==
    ASSUME LinesKnown, Text!Wants, Place # Len(file)
    PROVE  Place \in Text!Starts /\ Place \in Text!Breaks
<1>1. failed = FALSE
  BY DEF LinesKnown, TextInv, TextTypes, Text!Wants
<1> QED BY <1>1 DEF LinesKnown, ScanInv, Text!Starts

\* A line that ends in the buffer is the one that begins at the place.
LEMMA WholeLineKnown ==
    ASSUME LinesKnown, Text!WholeLine
    PROVE  LinesKnown'
<1> DEFINE b == Text!Min(Text!Newlines)
           q == Place + (b - pos)
<1>1. /\ Text!Wants /\ Text!Newlines # {} /\ pos' = b
      /\ Text!Take(SubSeq(chunk, pos + 1, b - 1))
  BY DEF Text!WholeLine
<1>2. b \in Text!Newlines /\ \A c \in Text!Newlines : b <= c
  <2>1. Text!Newlines \subseteq (pos + 1)..end /\ (pos + 1)..end \subseteq Nat
    BY TextNumbers DEF Text!Newlines, LinesKnown, TextInv
  <2> QED BY <1>1, <2>1, TextMin, TextLeast
<1> HIDE DEF b
<1>3. /\ Place \in 0..Len(file) /\ Place \in Int /\ Text!Breaks \subseteq Int /\ Len(file) \in Nat
      /\ pos \in Nat /\ end \in Nat /\ b \in (pos + 1)..end /\ b \in Nat
      /\ pos < b /\ b <= end
  <2>1. b \in (pos + 1)..end
    BY <1>2 DEF Text!Newlines
  <2> QED BY <2>1, PlaceType, TextNumbers DEF LinesKnown, TextInv
<1>4. q \in 1..Len(file) /\ file[q] = "newline"
  <2>1. chunk[b] = q /\ chunk[b] \in 0..Len(file) /\ chunk[b] # 0
    <3>1. b \in 1..Len(chunk)
      BY <1>3, TextNumbers DEF LinesKnown, TextInv
    <3> QED BY <1>3, <3>1 DEF LinesKnown, TextInv, TextTypes, BufferInv, Bytes
  <2> QED BY <1>2, <1>3, <2>1 DEF Text!Newlines
<1>5. q \in Text!Breaks /\ q \in Text!Starts \cup {Len(file)} /\ q \in Int /\ Place < q
  BY <1>3, <1>4 DEF Text!Breaks, Text!Starts
<1>6. Place \in Text!Starts
  BY <1>1, <1>3, <1>4, <1>5, PlaceStarts
<1>7. \A c \in Text!Breaks : ~(Place < c /\ c < q)
  <2> SUFFICES ASSUME NEW c \in Text!Breaks, Place < c, c < q PROVE FALSE
    OBVIOUS
  <2>1. c <= Place + (b - pos) /\ b \in pos..end /\ c \in Int
    BY <1>3, <1>5
  <2>2. pos + (c - Place) \in Text!Newlines
    BY <2>1, BreaksFound DEF LinesKnown
  <2> QED BY <1>2, <1>3, <2>1, <2>2
<1>8. /\ SubSeq(chunk, pos + 1, b - 1) \in Seq(Bytes)
      /\ SubSeq(chunk, pos + 1, b - 1) = Text!Line(Place)
  <2>1. b - 1 \in pos..end /\ (b - 1) - pos = q - Place - 1
    BY <1>3
  <2>2. Text!Line(Place) = [i \in 1..(q - Place - 1) |-> Place + i]
    <3> HIDE DEF q
    <3> QED BY <1>3, <1>5, <1>7, LineEnds
  <2> QED BY <2>1, <2>2, BufferLine DEF LinesKnown
<1> QED BY <1>1, <1>3, <1>5, <1>6, <1>7, <1>8, TakeKnown

\* What is in the buffer at the end of the file is the last line.
LEMMA LastLineKnown ==
    ASSUME LinesKnown, Text!LastLine
    PROVE  LinesKnown'
<1>1. /\ Text!Wants /\ Text!Newlines = {} /\ exhausted /\ pos # end /\ pos' = end
      /\ Text!Take(SubSeq(chunk, pos + 1, end))
  BY DEF Text!LastLine
<1>2. /\ Place \in 0..Len(file) /\ Place \in Int /\ Text!Breaks \subseteq Int /\ Len(file) \in Nat
      /\ pos \in Nat /\ end \in Nat /\ pos < end /\ end \in (pos + 1)..end /\ end \in pos..end
      /\ Place + (end - pos) = Len(file)
  <2>1. offset = Len(file) /\ pos \in Nat /\ end \in Nat /\ pos <= end
    BY <1>1, TextNumbers DEF LinesKnown, BufferInv, TextInv
  <2> QED BY <1>1, <2>1, PlaceType DEF LinesKnown, Place
<1>3. Place \in Text!Starts
  BY <1>1, <1>2, PlaceStarts
<1>4. \A c \in Text!Breaks : ~(Place < c /\ c < Len(file) + 1)
  <2> SUFFICES ASSUME NEW c \in Text!Breaks, Place < c, c < Len(file) + 1 PROVE FALSE
    OBVIOUS
  <2>1. c <= Place + (end - pos)
    BY <1>2
  <2> QED BY <1>1, <1>2, <2>1, BreaksFound DEF LinesKnown
<1>5. SubSeq(chunk, pos + 1, end) \in Seq(Bytes) /\ SubSeq(chunk, pos + 1, end) = Text!Line(Place)
  <2>1. Len(file) + 1 \in Text!Breaks /\ Len(file) + 1 \in Int /\ Place < Len(file) + 1
    BY <1>2 DEF Text!Breaks
  <2>2. Text!Line(Place) = [i \in 1..((Len(file) + 1) - Place - 1) |-> Place + i]
    BY <1>2, <1>4, <2>1, LineEnds
  <2>3. (Len(file) + 1) - Place - 1 = end - pos
    BY <1>2
  <2> QED BY <1>2, <2>2, <2>3, BufferLine DEF LinesKnown
<1>6. \A c \in Text!Breaks : ~(Place < c /\ c < Place + (end - pos))
  BY <1>2, <1>4
<1> QED BY <1>1, <1>2, <1>3, <1>5, <1>6, TakeKnown

\* A refill moves the bytes, and neither the place nor the lines.
LEMMA RefillKnown ==
    ASSUME LinesKnown, Text!Refill
    PROVE  LinesKnown'
<1> DEFINE pending == SubSeq(chunk, pos + 1, end)
           room == Text!Room(pending)
           space == Len(room) - Len(pending)
           got == IF eof THEN 0 ELSE Text!Min({space, Len(file) - offset})
<1>1. /\ chunk' = [i \in 1..Len(room) |->
                     IF i \in (Len(pending) + 1)..(Len(pending) + got)
                       THEN offset + i - Len(pending) ELSE room[i]]
      /\ pos' = 0 /\ end' = Len(pending) + got /\ offset' = offset + got
      /\ eof' = (eof \/ got < space) /\ exhausted' = (got = 0) /\ ~exhausted
      /\ UNCHANGED <<file, failed, reading, events, handed>>
  BY DEF Text!Refill, Text!AtEnd
<1>2. TextInv'
  BY TextRefillKeeps DEF LinesKnown
<1>3. /\ pos \in Nat /\ end \in Nat /\ pos <= end /\ end <= Len(chunk) /\ Len(chunk) \in Nat
      /\ offset \in Nat /\ offset <= Len(file) /\ Len(file) \in Nat
  BY TextNumbers DEF LinesKnown, TextInv
<1>4. pending \in Seq(Bytes) /\ Len(pending) = end - pos /\ \A i \in 1..(end - pos) : pending[i] = Place + i
  <2>1. end \in pos..end /\ end - pos \in Nat
    BY <1>3
  <2>2. pending \in Seq(Bytes) /\ pending = [i \in 1..(end - pos) |-> Place + i]
    BY <2>1, BufferLine DEF LinesKnown
  <2> HIDE DEF pending
  <2> QED BY <2>1, <2>2
<1> HIDE DEF pending
<1>5. /\ room \in Seq(Bytes) /\ Len(pending) < Len(room)
      /\ \A i \in 1..Len(pending) : room[i] = pending[i]
  <2>1. Len(pending) <= Len(chunk)
    BY <1>3, <1>4
  <2> QED BY <1>4, <2>1, RoomType DEF LinesKnown, TextInv
<1> HIDE DEF room
<1>6. space \in Nat \ {0} /\ Len(room) \in Nat /\ Len(pending) \in Nat
  BY <1>3, <1>4, <1>5
<1> HIDE DEF space
<1>7. /\ got \in Nat /\ got <= space /\ got <= Len(file) - offset
      /\ ~eof => got = space \/ got = Len(file) - offset
  <2>1. Text!Min({space, Len(file) - offset}) =
          IF space <= Len(file) - offset THEN space ELSE Len(file) - offset
    BY <1>3, <1>6 DEF Text!Min
  <2> QED BY <1>3, <1>6, <2>1
<1>8. eof => got = 0 /\ offset = Len(file)
  BY DEF LinesKnown, BufferInv
<1> HIDE DEF got
<1>9. Place' = Place
  BY <1>1, <1>3, <1>4, <1>7 DEF Place
<1>10. BufferInv'
  <2>1. ASSUME NEW i \in 1..(Len(pending) + got) PROVE chunk'[i] = Place + i
    <3>1. i \in 1..Len(room)
      <4>1. space = Len(room) - Len(pending)
        BY DEF space
      <4> QED BY <1>6, <1>7, <4>1
    <3>2. CASE i <= Len(pending)
      <4>1. i \in 1..Len(pending) /\ i \in 1..(end - pos)
            /\ i \notin (Len(pending) + 1)..(Len(pending) + got)
        BY <1>4, <1>6, <3>2
      <4> QED BY <1>1, <1>4, <1>5, <3>1, <4>1
    <3>3. CASE i > Len(pending)
      <4>1. i \in (Len(pending) + 1)..(Len(pending) + got)
        BY <1>6, <1>7, <3>3
      <4>2. chunk'[i] = offset + i - Len(pending)
        BY <1>1, <3>1, <4>1
      <4> QED BY <1>3, <1>4, <4>2 DEF Place
    <3> QED BY <1>6, <1>7, <3>2, <3>3
  <2>2. \A i \in (pos' + 1)..end' : chunk'[i] = Place' + (i - pos')
    <3> TAKE i \in (pos' + 1)..end'
    <3>1. i \in 1..(Len(pending) + got) /\ i - pos' = i
      BY <1>1, <1>6, <1>7
    <3> QED BY <1>9, <2>1, <3>1
  <2>3. eof' \/ exhausted' => offset' = Len(file')
    <3>1. CASE eof
      BY <1>1, <1>3, <1>8, <3>1
    <3>2. CASE ~eof /\ (got < space \/ got = 0)
      <4>1. got = Len(file) - offset
        BY <1>6, <1>7, <3>2
      <4> QED BY <1>1, <1>3, <4>1
    <3> QED BY <1>1, <3>1, <3>2
  <2> QED BY <2>2, <2>3 DEF BufferInv
<1>11. /\ Text!Records' = Text!Records /\ Text!Good' = Text!Good /\ Text!Starts' = Text!Starts
       /\ \A c : Text!Parsed(Text!Line(c))' <=> Text!Parsed(Text!Line(c))
  BY <1>1, LinesKept
<1>12. Returned' = Returned
  BY <1>1 DEF Returned
<1>13. LinesInv'
  BY <1>1, <1>11, <1>12, TextCardinality DEF LinesKnown, LinesInv
<1>14. ScanInv'
  BY <1>1, <1>9, <1>11, <1>12, TextCardinality DEF LinesKnown, ScanInv
<1> QED BY <1>2, <1>10, <1>13, <1>14 DEF LinesKnown

\* No byte of the file has been read.
Unread ==
    /\ pos = 0 /\ end = 0 /\ offset = 0 /\ eof = FALSE /\ exhausted = FALSE
    /\ failed = FALSE /\ handed = <<>> /\ events = <<>>

\* Then no line has been found.
LEMMA AtBeginning == TextInv /\ Unread => LinesKnown
<1> SUFFICES ASSUME TextInv, Unread PROVE LinesKnown
  OBVIOUS
<1> USE DEF Unread
<1>1. /\ file \in Seq({"digit", "junk", "newline"}) /\ Len(file) \in Nat
      /\ Place = 0 /\ Returned = 0 /\ Len(handed) = 0 /\ Len(events) = 0
  BY PlaceType DEF Place, Returned
<1>2. /\ Text!Starts \subseteq 0..Len(file) - 1 /\ IsFiniteSet(Text!Good)
      /\ Text!Cardinality(Text!Good) \in Nat /\ Text!Cardinality({}) = 0
  <2>1. Text!Good \subseteq Text!Starts /\ {} \subseteq Text!Starts
    BY DEF Text!Good
  <2>2. Text!Cardinality({}) = 0
    BY TextCardinality, FS_EmptySet
  <2>3. IsFiniteSet(Text!Good) /\ Text!Cardinality(Text!Good) \in Nat
    BY <1>1, <2>1, StartsType
  <2> QED BY <1>1, <2>1, <2>2, <2>3, StartsType
<1>3. BufferInv /\ LinesInv
  BY <1>1, <1>2 DEF BufferInv, LinesInv
<1>4. \A b \in Text!Starts : ~(b < Place)
  BY <1>1, <1>2
<1>5. {b \in Text!Starts : b < Place} = {}
  BY <1>4
<1>6. Place \in Text!Starts \cup {Len(file)}
  BY <1>1 DEF Text!Starts, Text!Breaks
<1> QED BY <1>1, <1>2, <1>3, <1>4, <1>5, <1>6 DEF LinesKnown, ScanInv

\* The invariant holds at first.
LEMMA TextInitKnown == Text!Init => LinesKnown
BY TextInitHolds, AtBeginning DEF Text!Init, Unread

\* reset_() goes back to the beginning.
LEMMA ResetKnown ==
    ASSUME LinesKnown, Text!Reset
    PROVE  LinesKnown'
<1>1. TextInv'
  BY TextResetKeeps DEF LinesKnown
<1>2. /\ ~reading /\ offset' = 0 /\ eof' = FALSE /\ pos' = 0 /\ end' = 0
      /\ exhausted' = FALSE /\ failed' = FALSE /\ handed' = <<>> /\ events' = events
  BY DEF Text!Reset
<1>3. events' = <<>>
  BY <1>2 DEF LinesKnown, TextInv, CountInv
<1>4. Unread'
  BY <1>2, <1>3 DEF Unread
<1>5. (TextInv /\ Unread => LinesKnown)'
  BY AtBeginning, PTL
<1> QED BY <1>1, <1>4, <1>5

\* read_() begins with an empty block.
LEMMA CallKnown ==
    ASSUME LinesKnown, Text!Call
    PROVE  LinesKnown'
<1>1. TextInv'
  BY TextCallKeeps DEF LinesKnown
<1>2. /\ ~reading /\ events' = <<>>
      /\ UNCHANGED <<file, offset, eof, chunk, pos, end, exhausted, failed, handed>>
  BY DEF Text!Call, Text!buffer
<1>3. events' = events
  BY <1>2 DEF LinesKnown, TextInv, CountInv
<1>4. /\ Text!Records' = Text!Records /\ Text!Good' = Text!Good /\ Text!Starts' = Text!Starts
      /\ \A c : Text!Parsed(Text!Line(c))' <=> Text!Parsed(Text!Line(c))
  BY <1>2, LinesKept
<1>5. Place' = Place /\ Returned' = Returned
  BY <1>2, <1>3 DEF Place, Returned
<1>6. BufferInv' /\ LinesInv' /\ ScanInv'
  BY <1>2, <1>3, <1>4, <1>5, TextCardinality DEF LinesKnown, BufferInv, LinesInv, ScanInv
<1> QED BY <1>1, <1>6 DEF LinesKnown

\* read_() hands over what it has found.
LEMMA ReturnKnown ==
    ASSUME LinesKnown, Text!Return
    PROVE  LinesKnown'
<1>1. TextInv'
  BY TextReturnKeeps DEF LinesKnown
<1>2. /\ handed' = handed \o events /\ events' = <<>>
      /\ UNCHANGED <<file, offset, eof, chunk, pos, end, exhausted, failed>>
  BY DEF Text!Return, Text!buffer
<1>3. /\ Len(handed') = Len(handed) + Len(events) /\ Len(events') = 0
      /\ Len(handed) \in Nat /\ Len(events) \in Nat
      /\ \A k \in 1..Len(handed) : handed'[k] = handed[k]
      /\ \A k \in 1..Len(events) : handed'[Len(handed) + k] = events[k]
  <2>1. handed \in Seq(Seq(Bytes)) /\ events \in Seq(Seq(Bytes))
    BY DEF LinesKnown, TextInv, TextTypes
  <2> QED BY <1>2, <2>1
<1>4. /\ Text!Records' = Text!Records /\ Text!Good' = Text!Good /\ Text!Starts' = Text!Starts
      /\ \A c : Text!Parsed(Text!Line(c))' <=> Text!Parsed(Text!Line(c))
  BY <1>2, LinesKept
<1>5. Place' = Place /\ Returned' = Returned
  BY <1>2, <1>3 DEF Place, Returned
<1>6. BufferInv' /\ ScanInv'
  BY <1>2, <1>4, <1>5, TextCardinality DEF LinesKnown, BufferInv, ScanInv
<1>7. LinesInv'
  <2>1. ASSUME NEW k \in 1..Len(handed') PROVE handed'[k] = Text!Records[k]
    <3>1. CASE k <= Len(handed)
      BY <1>3, <3>1 DEF LinesKnown, LinesInv
    <3>2. CASE k > Len(handed)
      <4>1. k - Len(handed) \in 1..Len(events) /\ k = Len(handed) + (k - Len(handed))
        BY <1>3, <3>2
      <4> QED BY <1>3, <4>1 DEF LinesKnown, LinesInv
    <3> QED BY <1>3, <3>1, <3>2
  <2>2. Returned <= Text!Cardinality(Text!Good)
    BY DEF LinesKnown, LinesInv
  <2> QED BY <1>3, <1>4, <1>5, <2>1, <2>2, TextCardinality DEF LinesInv
<1> QED BY <1>1, <1>6, <1>7 DEF LinesKnown

\* Every step of the text reader keeps what it knows of the lines.
LEMMA TextNextKnown == LinesKnown /\ Text!Next => LinesKnown'
BY CallKnown, WholeLineKnown, LastLineKnown, RefillKnown, ReturnKnown, ResetKnown
   DEF Text!Next, Text!Work

\* What is known of the lines is about the variables of the reader.
LEMMA LinesStay ==
    ASSUME LinesKnown,
           UNCHANGED <<file, offset, eof, chunk, pos, end, exhausted, failed, reading, events, handed>>
    PROVE  LinesKnown'
<1>1. TextInv'
  BY DEF LinesKnown, TextInv, TextTypes, CountInv, Bytes
<1>2. /\ Text!Records' = Text!Records /\ Text!Good' = Text!Good /\ Text!Starts' = Text!Starts
      /\ \A c : Text!Parsed(Text!Line(c))' <=> Text!Parsed(Text!Line(c))
  BY LinesKept
<1>3. Place' = Place /\ Returned' = Returned
  BY DEF Place, Returned
<1> QED BY <1>1, <1>2, <1>3, TextCardinality DEF LinesKnown, BufferInv, LinesInv, ScanInv

-------------------------------------------------------------------------------
(* A behaviour reads one file in one format.                               *)

SourceInv ==
    \/ format = "text" /\ LinesKnown
    \/ format = "hdf5" /\ H5Inv

\* Both invariants hold at first.
LEMMA InitHolds == Init => SourceInv
BY TextInitKnown, H5InitHolds DEF Init, SourceInv

\* A step of one reader leaves the other alone.
LEMMA NextKeeps == SourceInv /\ [Next]_vars => SourceInv'
<1> SUFFICES ASSUME SourceInv, [Next]_vars PROVE SourceInv'
  OBVIOUS
<1>1. CASE format = "text" /\ Text!Next /\ UNCHANGED <<format, h5Vars>>
  BY <1>1, TextNextKnown DEF SourceInv
<1>2. CASE format = "hdf5" /\ HDF5!Next /\ UNCHANGED <<format, textVars>>
  BY <1>2, H5NextKeeps DEF SourceInv
<1>3. CASE UNCHANGED vars
  <2>1. LinesKnown => LinesKnown'
    BY <1>3, LinesStay DEF vars, textVars
  <2> QED BY <1>3, <2>1 DEF vars, textVars, h5Vars, SourceInv,
                            H5Inv, H5Types, ChunkInv, OrderInv, BlockInv, Consumed
<1> QED BY <1>1, <1>2, <1>3 DEF Next

\* Both invariants hold in every state.
LEMMA Invariant == FairSpec => []SourceInv
BY InitHolds, NextKeeps, PTL DEF FairSpec

\* Types: the bytes in the buffer between pos_ and end_ are bytes of the file, and no
\* call hands over more than a block, for every file and every size of a buffer.
THEOREM TypeCorrect == FairSpec => []TypeOK
<1>1. SourceInv => TypeOK
  BY TextTypeOK, H5TypeOK DEF SourceInv, LinesKnown, TypeOK
<1> QED BY <1>1, Invariant, PTL

-------------------------------------------------------------------------------
(* The steps of the readers are those of the source, or change nothing     *)
(* that it has.                                                            *)

\* A sequence that agrees with another as far as it goes is its beginning.
LEMMA Beginning ==
    ASSUME NEW T, NEW t \in Seq(T), NEW s, NEW m \in 0..Len(t), s = [i \in 1..m |-> s[i]],
           \A i \in 1..m : s[i] = t[i]
    PROVE  s = SubSeq(t, 1, m)
<1> DEFINE part == SubSeq(t, 1, m)
<1>1. \A i \in 1..m : t[i] \in T
  OBVIOUS
<1>2. 1 \in Int /\ m \in Int /\ m >= 0
  OBVIOUS
<1>3. /\ part \in Seq(T) /\ Len(part) = IF 1 <= m THEN m - 1 + 1 ELSE 0
      /\ \A i \in 1..(m - 1 + 1) : part[i] = t[1 + i - 1]
  BY <1>1, <1>2, SubSeqProperties
<1> HIDE DEF part
<1>4. Len(part) = m /\ part = [i \in 1..m |-> part[i]] /\ \A i \in 1..m : part[i] = s[i]
  BY <1>1, <1>2, <1>3
<1>5. s = part
  BY <1>4
<1> QED BY <1>5 DEF part

\* Two sequences of the first numbers are alike if they are as long.
LEMMA FirstEvents ==
    ASSUME NEW s \in Seq(Nat), NEW n \in Nat, NEW m \in 0..n, Len(s) = m,
           \A i \in 1..m : s[i] = i
    PROVE  s = SubSeq([i \in 1..n |-> i], 1, m)
<1>1. [i \in 1..n |-> i] \in Seq(Nat) /\ Len([i \in 1..n |-> i]) = n
  OBVIOUS
<1>2. s = [i \in 1..m |-> s[i]]
  OBVIOUS
<1> QED BY <1>1, <1>2, Beginning, SMTT(20)

\* What read_() returns is the next block of the source.
LEMMA H5ReturnGives ==
    ASSUME H5Inv, HDF5!Return, format = "hdf5", format' = "hdf5"
    PROVE  HDF5Source!Give
<1> DEFINE n == IF Len(handed) + H5Block <= total THEN Len(handed) + H5Block ELSE total
           all == [i \in 1..total |-> i]
<1>0. HDF5!Records = all /\ From("hdf5") = handed /\ From("hdf5")' = handed'
  BY DEF HDF5!Records, From
<1>1. H5Inv' /\ Len(handed') = n /\ total' = total
  BY H5ReturnKeeps DEF HDF5!Return
<1>2. /\ handed \in Seq(Nat) /\ handed' \in Seq(Nat) /\ total \in Nat
      /\ Len(handed) \in 0..total /\ n \in 0..total
      /\ \A i \in 1..Len(handed) : handed[i] = i
      /\ \A i \in 1..n : handed'[i] = i
  <2>1. Len(handed) <= total
    BY H5Numbers DEF H5Inv, OrderInv, Consumed
  <2> QED BY <1>1, <2>1, H5Numbers, H5Sizing DEF H5Inv, H5Types, OrderInv
<1>3. Len(all) = total
  BY <1>2
<1> HIDE DEF n
<1>4. handed = SubSeq(all, 1, Len(handed)) /\ handed' = SubSeq(all, 1, n)
  BY <1>1, <1>2, FirstEvents
<1>5. SubSeq(handed, 1, Len(handed)) = handed
  BY <1>2, SubSeqFull
<1> HIDE DEF all
<1>6. HDF5Source!IsPrefix(handed, all)
  BY <1>2, <1>3, <1>4, <1>5 DEF HDF5Source!IsPrefix
<1>7. HDF5!Records' = HDF5!Records
  BY <1>1 DEF HDF5!Records
<1>8. Runs("hdf5") /\ ~Runs("hdf5")' /\ faults' = faults
  BY DEF HDF5!Return, Runs
<1> QED BY <1>0, <1>3, <1>4, <1>6, <1>7, <1>8 DEF HDF5Source!Give, n

\* Every step of the HDF5 reader is one of the source, or none.
LEMMA H5Step ==
    ASSUME SourceInv, [Next]_vars
    PROVE  [HDF5Source!Next]_(HDF5Source!vars)
<1>1. CASE format = "text"
  <2>1. format' = "text" /\ total' = total /\ faults' = faults
    BY <1>1 DEF Next, vars, h5Vars
  <2>2. From("hdf5") = <<>> /\ From("hdf5")' = <<>> /\ UNCHANGED Runs("hdf5")
    BY <1>1, <2>1 DEF From, Runs
  <2>3. HDF5!Records' = HDF5!Records
    BY <2>1 DEF HDF5!Records
  <2> QED BY <2>1, <2>2, <2>3 DEF HDF5Source!vars
<1>2. CASE format = "hdf5" /\ H5Inv
  <2>1. format' = "hdf5"
    BY <1>2 DEF Next, vars
  <2>2. /\ From("hdf5") = handed /\ From("hdf5")' = handed'
        /\ Runs("hdf5") = (TRUE /\ reading) /\ Runs("hdf5")' = (TRUE /\ reading')
    BY <1>2, <2>1 DEF From, Runs
  <2>3. total' = total => HDF5!Records' = HDF5!Records
    BY DEF HDF5!Records
  <2>4. CASE HDF5!Return
    BY <1>2, <2>1, <2>4, H5ReturnGives DEF HDF5Source!Next
  <2>5. CASE HDF5!Reset
    <3>1. ~reading /\ handed' = <<>> /\ total' = total /\ reading' = reading /\ faults' = faults
      BY <2>5 DEF HDF5!Reset
    <3> QED BY <2>2, <2>3, <3>1 DEF HDF5Source!Next, HDF5Source!GoBack
  <2>6. CASE HDF5!Call
    <3>1. ~reading /\ reading' = TRUE /\ handed' = handed /\ total' = total /\ faults' = faults
      BY <2>6 DEF HDF5!Call
    <3> QED BY <2>2, <2>3, <3>1 DEF HDF5Source!Next, HDF5Source!Call
  <2>7. CASE HDF5!ReadThrows
    <3>1. /\ reading /\ reading' = FALSE /\ handed' = handed /\ total' = total
          /\ faults' = faults + 1
      BY <2>7 DEF HDF5!ReadThrows, HDF5!BufferUsed
    <3> QED BY <2>2, <2>3, <3>1 DEF HDF5Source!Next, HDF5Source!Throw
  <2>8. CASE HDF5!ReadChunk \/ HDF5!Copy \/ UNCHANGED vars
    <3>1. handed' = handed /\ total' = total /\ reading' = reading /\ faults' = faults
      BY <2>8 DEF HDF5!ReadChunk, HDF5!Copy, vars, h5Vars
    <3> QED BY <2>2, <2>3, <3>1 DEF HDF5Source!vars
  <2> QED BY <1>2, <2>4, <2>5, <2>6, <2>7, <2>8 DEF Next, HDF5!Next, HDF5!Work
<1> QED BY <1>1, <1>2 DEF SourceInv

\* HDF5Reader::read_() and reset_() are those of a source of the events of the file, in
\* order and once, wherever reads of the datasets throw, and a call that returns gives
\* less than a block only at the end: for every file, and for all chunks that are made
\* of whole blocks.
THEOREM HDF5Refines == FairSpec => HDF5IsSource
<1>1. Init => HDF5Source!Init
  BY DEF Init, HDF5!Init, HDF5Source!Init, From, Runs
<1>2. SourceInv /\ [Next]_vars => [HDF5Source!Next]_(HDF5Source!vars)
  BY H5Step
<1> QED BY <1>1, <1>2, Invariant, PTL DEF FairSpec, HDF5IsSource, HDF5Source!Spec

\* What read_() returns is the next block of the source.
LEMMA TextReturnGives ==
    ASSUME LinesKnown, Text!Return, format = "text", format' = "text"
    PROVE  TextSource!Give
<1> DEFINE R == Text!Records
           m == Text!Cardinality(Text!Good)
           n == IF Len(handed) + TextBlock <= m THEN Len(handed) + TextBlock ELSE m
<1>0. From("text") = handed /\ From("text")' = handed'
  BY DEF From
<1>1. /\ reading /\ (~Text!Wants \/ Text!NoLine)
      /\ file' = file
  BY DEF Text!Return
<1>2. LinesKnown'
  BY ReturnKnown
<1>3. /\ Text!Records' = R /\ m' = m /\ m \in Nat
      /\ R = [k \in 1..m |-> R[k]]
  <2>1. Text!Good \subseteq Text!Starts
    BY DEF Text!Good
  <2> QED BY <1>1, <2>1, LinesKept, StartsType, TextCardinality, PlaceType
          DEF LinesKnown, Text!Records
<1>4. /\ Len(handed') = Len(handed) + Len(events)
      /\ Len(handed) \in Nat /\ Len(events) \in Nat /\ Len(events) <= TextBlock
      /\ TextBlock \in Nat \ {0}
      /\ handed = [k \in 1..Len(handed) |-> handed[k]]
      /\ handed' = [k \in 1..Len(handed') |-> handed'[k]]
  <2>1. /\ handed \in Seq(Seq(Bytes)) /\ events \in Seq(Seq(Bytes))
        /\ handed' = handed \o events
    BY DEF LinesKnown, TextInv, TextTypes, Text!Return
  <2>2. handed \o events \in Seq(Seq(Bytes)) /\ Len(handed \o events) = Len(handed) + Len(events)
    BY <2>1
  <2>3. \A s \in Seq(Seq(Bytes)) : s = [k \in 1..Len(s) |-> s[k]]
    OBVIOUS
  <2>4. /\ Len(handed) \in Nat /\ Len(events) \in Nat /\ Len(events) <= TextBlock
        /\ TextBlock \in Nat \ {0}
    BY TextNumbers DEF LinesKnown, TextInv
  <2>5. /\ handed = [k \in 1..Len(handed) |-> handed[k]]
        /\ handed' = [k \in 1..Len(handed') |-> handed'[k]]
    BY ONLY <2>1, <2>2, <2>3
  <2> QED BY <2>1, <2>2, <2>4, <2>5
<1>5. /\ Returned = Len(handed) + Len(events) /\ Returned <= m
      /\ \A k \in 1..Len(handed) : handed[k] = R[k]
      /\ \A k \in 1..Len(handed') : handed'[k] = R[k]
  BY <1>2, <1>3 DEF LinesKnown, LinesInv, Returned
<1>6. Len(handed') = n
  <2>1. CASE Len(events) >= TextBlock
    BY <1>3, <1>4, <1>5, <2>1
  <2>2. CASE failed
    <3>1. Returned = m
      BY <2>2 DEF LinesKnown, ScanInv
    <3> QED BY <1>3, <1>4, <1>5, <3>1
  <2>3. CASE Text!NoLine /\ ~failed
    <3>1. offset = Len(file) /\ pos = end
      BY <2>3 DEF Text!NoLine, LinesKnown, BufferInv
    <3>2. Place = Len(file)
      BY <3>1, TextNumbers DEF Place, LinesKnown, TextInv
    <3>3. Returned = m
      BY <2>3, <3>2, NoRecord, PlaceType DEF LinesKnown, ScanInv
    <3> QED BY <1>3, <1>4, <1>5, <3>3
  <2> QED BY <1>1, <1>4, <2>1, <2>2, <2>3 DEF Text!Wants
<1> DEFINE T == {R[k] : k \in 1..m}
<1>7. R \in Seq(T) /\ Len(R) = m
  <2> HIDE DEF R, m
  <2>1. \A k \in 1..m : R[k] \in T
    OBVIOUS
  <2> HIDE DEF T
  <2>2. [k \in 1..m |-> R[k]] \in Seq(T) /\ Len([k \in 1..m |-> R[k]]) = m
    BY <1>3, <2>1
  <2> QED BY <1>3, <2>2
<1> HIDE DEF R, m, T
<1>8. Len(handed) \in 0..Len(R) /\ n \in 0..Len(R)
  BY <1>3, <1>4, <1>5, <1>6, <1>7
<1>9. handed = SubSeq(R, 1, Len(handed)) /\ handed' = SubSeq(R, 1, n)
  <2>1. handed = SubSeq(R, 1, Len(handed))
    BY <1>4, <1>5, <1>7, <1>8, Beginning
  <2>2. handed' = [k \in 1..n |-> handed'[k]] /\ \A k \in 1..n : handed'[k] = R[k]
    BY <1>4, <1>5, <1>6
  <2>3. handed' = SubSeq(R, 1, n)
    BY ONLY <1>7, <1>8, <2>2, Beginning
  <2> QED BY <2>1, <2>3
<1>10. SubSeq(handed, 1, Len(handed)) = handed
  <2>1. handed \in Seq(Seq(Bytes))
    BY DEF LinesKnown, TextInv, TextTypes
  <2> QED BY <2>1, SubSeqFull
<1>11. TextSource!IsPrefix(handed, R)
  BY <1>4, <1>7, <1>8, <1>9, <1>10 DEF TextSource!IsPrefix
<1>12. UNCHANGED R
  BY <1>3 DEF R
<1>13. Runs("text") /\ ~Runs("text")' /\ UNCHANGED 0
  BY DEF Text!Return, Runs
<1> QED BY <1>0, <1>3, <1>7, <1>9, <1>11, <1>12, <1>13 DEF TextSource!Give, R, n

\* Every step of the text reader is one of the source, or none.
LEMMA TextStep ==
    ASSUME SourceInv, [Next]_vars
    PROVE  [TextSource!Next]_(TextSource!vars)
<1>1. CASE format = "hdf5"
  <2>1. format' = "hdf5" /\ file' = file
    BY <1>1 DEF Next, vars, textVars
  <2>2. From("text") = <<>> /\ From("text")' = <<>> /\ UNCHANGED Runs("text")
    BY <1>1, <2>1 DEF From, Runs
  <2> QED BY <2>1, <2>2, LinesKept DEF TextSource!vars
<1>2. CASE format = "text" /\ LinesKnown
  <2>1. format' = "text"
    BY <1>2 DEF Next, vars
  <2>2. /\ From("text") = handed /\ From("text")' = handed'
        /\ Runs("text") = (TRUE /\ reading) /\ Runs("text")' = (TRUE /\ reading')
    BY <1>2, <2>1 DEF From, Runs
  <2>3. file' = file => Text!Records' = Text!Records
    BY LinesKept
  <2>4. CASE Text!Return
    BY <1>2, <2>1, <2>4, TextReturnGives DEF TextSource!Next
  <2>5. CASE Text!Reset
    <3>1. ~reading /\ handed' = <<>> /\ file' = file /\ reading' = reading
      BY <2>5 DEF Text!Reset
    <3> QED BY <2>2, <2>3, <3>1 DEF TextSource!Next, TextSource!GoBack
  <2>6. CASE Text!Call
    <3>1. ~reading /\ reading' = TRUE /\ handed' = handed /\ file' = file
      BY <2>6 DEF Text!Call
    <3> QED BY <2>2, <2>3, <3>1 DEF TextSource!Next, TextSource!Call
  <2>7. CASE Text!WholeLine \/ Text!LastLine \/ Text!Refill \/ UNCHANGED vars
    <3>1. handed' = handed /\ file' = file /\ reading' = reading
      BY <2>7 DEF Text!WholeLine, Text!LastLine, Text!Take, Text!Refill, vars, textVars
    <3> QED BY <2>2, <2>3, <3>1 DEF TextSource!vars
  <2> QED BY <1>2, <2>4, <2>5, <2>6, <2>7 DEF Next, Text!Next, Text!Work
<1> QED BY <1>1, <1>2 DEF SourceInv

\* PlainTextReader::read_() and reset_() are those of a source of the lines of the file,
\* up to the first that is not parsed: each whole, in order and once, however the reads
\* of the file cut them, and a call gives less than a block, or nothing, only when there
\* are no more of them since the last reset_(), for every file, buffer and block.
THEOREM TextRefines == FairSpec => TextIsSource
<1>1. Init => TextSource!Init
  BY DEF Init, Text!Init, TextSource!Init, From, Runs
<1>2. SourceInv /\ [Next]_vars => [TextSource!Next]_(TextSource!vars)
  BY TextStep
<1> QED BY <1>1, <1>2, Invariant, PTL DEF FairSpec, TextIsSource, TextSource!Spec
===============================================================================
