--------------------------- MODULE MCAbstractReader ---------------------------
(***************************************************************************)
(* Instances of AbstractReader: a file of a few events, blocks of two, and *)
(* queues that start at two.                                               *)
(***************************************************************************)
EXTENDS AbstractReader

All == 1..FileLen
Ends == {1, FileLen}       \* a region that leaves whole blocks out
MCRois == {All, Ends}
OneRoi == {All}
===============================================================================
