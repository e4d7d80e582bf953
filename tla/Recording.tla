------------------------------- MODULE Recording -------------------------------
(***************************************************************************)
(* The file a reader reads and the settings its user may choose.  Event i  *)
(* of the file is the number i.  A region of interest is the set of the    *)
(* events it contains; the empty cv::Rect, which filters nothing, is the   *)
(* set of all of them.                                                     *)
(***************************************************************************)
EXTENDS Naturals, Sequences

CONSTANTS
    FileLen,      \* number of events in the file
    Rois,         \* regions of interest the user may set
    Transforms,   \* time transforms the user may set
    Identity      \* the transform in force by default: offset 0, scale 1

ASSUME FileAssumption == FileLen \in Nat
ASSUME RoiAssumption == Rois \subseteq SUBSET (1..FileLen)
ASSUME TransformAssumption == Identity \in Transforms

\* An event as the user sees it: which one, and the transform its time went by.
Event == [id : 1..FileLen, by : Transforms]
===============================================================================
