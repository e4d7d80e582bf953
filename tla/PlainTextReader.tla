---------------------------- MODULE PlainTextReader ----------------------------
(***************************************************************************)
(* The text format: lines found in a buffer of bytes that is moved, grown  *)
(* and refilled, one event for each line up to the first that cannot be    *)
(* parsed.                                                                 *)
(*                                                                         *)
(* A byte is its position in the file, so that an event is the positions   *)
(* of its line and no two are alike; Files gives the kind of each byte.  A *)
(* line is parsed if it has a byte and none is junk: the start of a line   *)
(* that is parsed is then parsed too, as the start of a number is.         *)
(***************************************************************************)
EXTENDS Naturals, Sequences, SequencesExt, FiniteSetsExt

CONSTANTS
    Files,           \* files: sequences of "digit", "junk" and "newline"
    Chunk,           \* CHUNK: the size of the buffer at first
    Block            \* BLOCK: the events a call of read_() asks for

VARIABLES
    file,            \* the file being read
    offset,          \* where file_ is
    eof,             \* file_ has found the end: it reads nothing until clear()
    chunk,           \* chunk_, what was left in it from before included
    pos, end,        \* pos_ and end_: the bytes of chunk_ not used yet
    exhausted, failed,
    reading,         \* read_() is running
    events,          \* what it has found
    handed           \* what the calls before have handed over

buffer == <<chunk, pos, end>>
vars == <<file, offset, eof, buffer, exhausted, failed, reading, events, handed>>

\* field(): a number is found where there is a digit, up to what is none.
Field(bytes) == bytes # <<>> /\ \A i \in 1..Len(bytes) : file[bytes[i]] = "digit"

\* The fields of a line are all found, or it is not parsed.
Parsed(line) == Field(line)

\* Where lines end.  A line begins after each of these places that has a byte after
\* it: the end of the file ends a line that has one.
Breaks == {0, Len(file) + 1} \cup {i \in 1..Len(file) : file[i] = "newline"}
Starts == {b \in Breaks : b < Len(file)}

Line(b) ==
    LET stop == Min({c \in Breaks : c > b})
    IN  [i \in 1..(stop - b - 1) |-> b + i]

\* The events of the file: its lines up to the first that is not parsed.
Good == {b \in Starts : \A c \in Starts : c <= b => Parsed(Line(c))}

Records ==
    [k \in 1..Cardinality(Good) |->
       Line(CHOOSE b \in Good : Cardinality({c \in Good : c <= b}) = k)]

\* chunk_ is created full of zeros, which are no byte of the file.
Blank(n) == [i \in 1..n |-> 0]

TypeOK ==
    /\ offset \in 0..Len(file)
    /\ Len(chunk) \in Nat \ {0}
    /\ \A i \in 1..Len(chunk) : chunk[i] \in 0..Len(file)
    /\ pos \in 0..end /\ end \in 0..Len(chunk)
    /\ \A i \in (pos + 1)..end : chunk[i] # 0
    /\ eof \in BOOLEAN /\ exhausted \in BOOLEAN /\ failed \in BOOLEAN
    /\ reading \in BOOLEAN
    /\ Len(events) <= Block
    /\ Len(handed) <= Len(file)

Init ==
    /\ file \in Files
    /\ offset = 0 /\ eof = FALSE
    /\ chunk = Blank(Chunk) /\ pos = 0 /\ end = 0
    /\ exhausted = FALSE /\ failed = FALSE
    /\ reading = FALSE /\ events = <<>> /\ handed = <<>>

Call ==
    /\ ~reading
    /\ reading' = TRUE
    /\ events' = <<>>
    /\ UNCHANGED <<file, offset, eof, buffer, exhausted, failed, handed>>

Wants == reading /\ Len(events) < Block /\ ~failed

\* Mutant: the whole of chunk_ is searched, what was left in it included.
NewlinesAnywhere ==
    {i \in (pos + 1)..Len(chunk) : chunk[i] # 0 /\ file[chunk[i]] = "newline"}

Newlines == {i \in (pos + 1)..end : file[chunk[i]] = "newline"}

Take(line) ==
    /\ events' = IF Parsed(line) THEN Append(events, line) ELSE events
    /\ failed' = ~Parsed(line)
    /\ UNCHANGED <<file, offset, eof, chunk, end, exhausted, reading, handed>>

WholeLine ==
    /\ Wants
    /\ Newlines # {}
    /\ pos' = Min(Newlines)
    /\ Take(SubSeq(chunk, pos + 1, Min(Newlines) - 1))

LastLine ==
    /\ Wants
    /\ Newlines = {} /\ exhausted /\ pos # end
    /\ pos' = end
    /\ Take(SubSeq(chunk, pos + 1, end))

\* chunk_ with what is pending at its beginning, twice as large if that fills it.
Room(pending) ==
    LET moved == pending \o SubSeq(chunk, Len(pending) + 1, Len(chunk))
    IN  IF Len(pending) = Len(chunk) THEN moved \o Blank(Len(chunk)) ELSE moved

\* Mutant: the end of the file is never noticed.
NothingGot(got) == got < 0

\* A read that gives nothing is the end of the file; a short one is not.
AtEnd(got) == got = 0

Refill ==
    LET pending == SubSeq(chunk, pos + 1, end)
        space   == Len(Room(pending)) - Len(pending)
        got     == IF eof THEN 0 ELSE Min({space, Len(file) - offset})
    IN  /\ Wants
        /\ Newlines = {} /\ ~exhausted
        /\ chunk' = [i \in 1..Len(Room(pending)) |->
                       IF i \in (Len(pending) + 1)..(Len(pending) + got)
                         THEN offset + i - Len(pending) ELSE Room(pending)[i]]
        /\ pos' = 0
        /\ end' = Len(pending) + got
        /\ offset' = offset + got
        /\ eof' = (eof \/ got < space)
        /\ exhausted' = AtEnd(got)
        /\ UNCHANGED <<file, failed, reading, events, handed>>

NoLine == Newlines = {} /\ exhausted /\ pos = end

Return ==
    /\ reading
    /\ ~Wants \/ NoLine
    /\ reading' = FALSE
    /\ handed' = handed \o events
    /\ events' = <<>>
    /\ UNCHANGED <<file, offset, eof, buffer, exhausted, failed>>

\* Mutant: clear() of the stream is forgotten, which then reads nothing.
ResetAtEnd ==
    /\ ~reading
    /\ offset' = 0
    /\ pos' = 0 /\ end' = 0
    /\ exhausted' = FALSE /\ failed' = FALSE
    /\ handed' = <<>>
    /\ UNCHANGED <<file, eof, chunk, reading, events>>

Reset ==
    /\ ~reading
    /\ offset' = 0 /\ eof' = FALSE
    /\ pos' = 0 /\ end' = 0
    /\ exhausted' = FALSE /\ failed' = FALSE
    /\ handed' = <<>>
    /\ UNCHANGED <<file, chunk, reading, events>>

Work == WholeLine \/ LastLine \/ Refill \/ Return

Next == Call \/ Work \/ Reset

Spec == Init /\ [][Next]_vars
================================================================================
