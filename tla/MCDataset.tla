------------------------------- MODULE MCDataset -------------------------------
(***************************************************************************)
(* Instances of Dataset: archives with the events before, after and        *)
(* without the images, and with an entry that leaves the directory.        *)
(***************************************************************************)
EXTENDS Dataset

MCArchives ==
    {<<Events>>, <<Events, "images">>, <<"images", Events, "images/1">>,
     <<"images">>, <<Events, Unsafe>>}
===============================================================================
