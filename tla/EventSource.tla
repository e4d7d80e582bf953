------------------------------ MODULE EventSource ------------------------------
(***************************************************************************)
(* What AbstractReader needs of a read_() and a reset_(), whatever the     *)
(* format of the file: each call of read_() hands over the next Block      *)
(* events, fewer only when the file has no more of them, and reset_() goes *)
(* back to the first one.  A read_() that throws has handed over nothing,  *)
(* and the events it was about to are the next ones.                       *)
(*                                                                         *)
(* A call is in progress or not, and the throws are counted: a call that   *)
(* returns nothing is then a step of its own, neither a stutter nor a      *)
(* throw, and is a Give only when nothing is left.                         *)
(***************************************************************************)
EXTENDS Naturals, Sequences, SequencesExt

CONSTANT Block       \* BLOCK: the events a call asks for

VARIABLES
    records,         \* the events of the file, in order
    handed,          \* what read_() has handed over since the last reset_()
    reading,         \* read_() is running
    throws           \* calls that have thrown

Init == handed = <<>> /\ ~reading /\ throws = 0

Call == ~reading /\ reading' /\ UNCHANGED <<records, handed, throws>>

Give ==
    /\ reading /\ ~reading'
    /\ UNCHANGED <<records, throws>>
    /\ IsPrefix(handed, records)
    /\ handed' = SubSeq(records, 1,
                        IF Len(handed) + Block <= Len(records)
                          THEN Len(handed) + Block ELSE Len(records))

Throw ==
    /\ reading /\ ~reading'
    /\ throws' = throws + 1
    /\ UNCHANGED <<records, handed>>

GoBack == ~reading /\ handed' = <<>> /\ UNCHANGED <<records, reading, throws>>

Next == Call \/ Give \/ Throw \/ GoBack

vars == <<records, handed, reading, throws>>

Spec == Init /\ [][Next]_vars
================================================================================
