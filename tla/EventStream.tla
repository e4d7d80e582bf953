----------------------------- MODULE EventStream -----------------------------
(***************************************************************************)
(* What a reader promises to the thread that uses it, with no queue, block *)
(* or background thread: the events of the file are read one after the     *)
(* other, each is kept or left out by the region of interest in force when *)
(* it is read, carries the time transform in force at that moment, and is  *)
(* taken in the order of the file.  reset() goes back to the beginning.    *)
(***************************************************************************)
EXTENDS Recording

VARIABLES
    cursor,       \* events of the file read so far
    pending,      \* events read and not taken yet
    delivered,    \* events taken since the beginning of the file
    roi,          \* roi_
    transform     \* timeOffset_ and timeScale_

streamVars == <<cursor, pending, delivered, roi, transform>>

\* The type of each variable; the stream reads no further than the file.
StreamTypeOK ==
    /\ cursor \in 0..FileLen
    /\ pending \in Seq(Event)
    /\ delivered \in Seq(Event)
    /\ roi \in SUBSET (1..FileLen)
    /\ transform \in Transforms

Init ==
    /\ cursor = 0
    /\ pending = <<>>
    /\ delivered = <<>>
    /\ roi = 1..FileLen
    /\ transform = Identity

\* The file has another event.
More == cursor < FileLen

\* The next event is inside the region of interest.
Kept == cursor + 1 \in roi

\* One more event of the file, kept only inside the region of interest.
Read ==
    /\ More
    /\ cursor' = cursor + 1
    /\ pending' = IF Kept
                    THEN Append(pending, [id |-> cursor + 1, by |-> transform])
                    ELSE pending
    /\ UNCHANGED <<delivered, roi, transform>>

Take ==
    /\ pending # <<>>
    /\ delivered' = Append(delivered, Head(pending))
    /\ pending' = Tail(pending)
    /\ UNCHANGED <<cursor, roi, transform>>

Rewind ==
    /\ cursor' = 0
    /\ pending' = <<>>
    /\ delivered' = <<>>
    /\ UNCHANGED <<roi, transform>>

ChooseRoi(r) ==
    /\ roi' = r
    /\ UNCHANGED <<cursor, pending, delivered, transform>>

ChooseTransform(x) ==
    /\ transform' = x
    /\ UNCHANGED <<cursor, pending, delivered, roi>>

Next ==
    \/ Read
    \/ Take
    \/ Rewind
    \/ \E r \in Rois : ChooseRoi(r)
    \/ \E x \in Transforms : ChooseTransform(x)

Spec == Init /\ [][Next]_streamVars

-------------------------------------------------------------------------------
(* What the stream means to its user.                                      *)

Known == delivered \o pending

\* What has been read, taken or not, is in the order of the file and holds no
\* event twice and none that has not been read, through any reset().
InFileOrder ==
    /\ \A i, j \in 1..Len(Known) : i < j => Known[i].id < Known[j].id
    /\ \A i \in 1..Len(Known) : Known[i].id <= cursor

\* An event that every region contains is never lost, however often the region
\* changes: once it is read, it has been taken or waits to be.
NothingLost ==
    \A e \in 1..cursor :
        (\A r \in Rois : e \in r) => \E i \in 1..Len(Known) : Known[i].id = e
===============================================================================
