------------------------------- MODULE MCCamera -------------------------------
(***************************************************************************)
(* Instances of Camera: a sensor of three pixels, regions that overlap and *)
(* one that leaves the sensor, more hot pixels than slots, and no hot pixel *)
(***************************************************************************)
EXTENDS Camera

MCRegions == {[from |-> 0, to |-> 1], [from |-> 1, to |-> 2], [from |-> 2, to |-> 3]}
MCHotLists == {<<1, 1>>, <<2, 7, 1, 0>>, <<7>>}
MCSaturated == {{1, 2, 9}, {0}}
===============================================================================
