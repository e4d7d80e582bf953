------------------------------- MODULE Dataset -------------------------------
(***************************************************************************)
(* ev::AbstractDataset and ev::EventCameraDataset: download() brings the   *)
(* archive of a sequence to the cache, extracts it and deletes it; a       *)
(* sequence is available if its directory has an events.txt; open() loads  *)
(* it.  Processes share the cache and may crash anywhere.                  *)
(*                                                                         *)
(* A file under a name is absent, partial or whole.  Whoever opens it for  *)
(* writing truncates it, and only what that process writes afterwards      *)
(* makes it whole again; a process whose file was truncated or unlinked    *)
(* meanwhile writes on to no effect.  One sequence: the paths of two have  *)
(* nothing in common.                                                      *)
(***************************************************************************)
EXTENDS Naturals, Sequences

CONSTANTS
    Processes,
    Names,          \* files of a sequence
    Events,         \* events.txt
    Unsafe,         \* an entry whose path leaves the directory
    Zip,            \* the archive, next to the directory
    Archives,       \* what the server may publish: sequences of entries
    MaxCrashes,     \* bound: how many processes die in the middle of a call
    CloseMayFail,   \* TRUE if what an ofstream holds back may be lost at its end
    NamesMayFail    \* TRUE if libzip may not know the name of an entry

ASSUME NamesAssumption == Events \in Names /\ {Unsafe, Zip} \cap Names = {}
ASSUME ArchivesAssumption == Archives \subseteq Seq(Names \cup {Unsafe})
ASSUME BoundAssumption == MaxCrashes \in Nat
ASSUME FaultsAssumption == CloseMayFail \in BOOLEAN /\ NamesMayFail \in BOOLEAN

VARIABLES
    archive,    \* what the server publishes
    file,       \* the state of the file under each name
    writer,     \* the processes that truncated it last, if still writing
    pc,         \* where each process is
    next,       \* i in extract()
    failed,     \* error_ is not empty
    todo,       \* files remove_all() has found
    opening,    \* the call is open()
    opened,     \* what open() has loaded
    crashes     \* processes that have died so far

disk == <<file, writer>>
vars == <<archive, disk, pc, next, failed, todo, opening, opened, crashes>>

Places == {"idle", "fetch", "fetching", "unzip", "entry", "write", "remove",
           "check", "clean", "load"}

\* The type of each variable; a process works on an entry of the archive.
TypeOK ==
    /\ archive \in Archives
    /\ file \in [Names \cup {Zip} -> {"absent", "partial", "whole"}]
    /\ writer \in [Names \cup {Zip} -> SUBSET Processes]
    /\ pc \in [Processes -> Places]
    /\ next \in [Processes -> Nat]
    /\ \A p \in Processes : next[p] \in 1..(Len(archive) + 1)
    /\ failed \in [Processes -> BOOLEAN]
    /\ todo \in [Processes -> SUBSET Names]
    /\ opening \in [Processes -> BOOLEAN]
    /\ opened \in [Processes -> {"closed", "cut", "whole"}]
    /\ crashes \in 0..MaxCrashes

Init ==
    /\ archive \in Archives
    /\ file = [f \in Names \cup {Zip} |-> "absent"]
    /\ writer = [f \in Names \cup {Zip} |-> {}]
    /\ pc = [p \in Processes |-> "idle"]
    /\ next = [p \in Processes |-> 1]
    /\ failed = [p \in Processes |-> FALSE]
    /\ todo = [p \in Processes |-> {}]
    /\ opening = [p \in Processes |-> FALSE]
    /\ opened = [p \in Processes |-> "closed"]
    /\ crashes = 0

\* isComplete_().
Complete == file[Events] # "absent"

\* Mutant: download() does not look at what there is.
AvailableNever == FALSE

\* isAvailable().
Available == Complete

\* Every file of the archive is there, whole.
Ready == \A i \in 1..Len(archive) :
             archive[i] \in Names => file[archive[i]] = "whole"

-------------------------------------------------------------------------------
(* The file system (external).                                             *)

\* Mutant: a file that is there is not written again.
CreateNew(f, p) ==
    /\ file' = [file EXCEPT ![f] = IF @ = "absent" THEN "partial" ELSE @]
    /\ writer' = [writer EXCEPT ![f] = IF file[f] = "absent" THEN {p} ELSE @]

\* Open a file for writing, truncated.
Create(f, p) ==
    /\ file' = [file EXCEPT ![f] = "partial"]
    /\ writer' = [writer EXCEPT ![f] = {p}]

\* Write the rest of it and close it.
Finish(f, p) ==
    /\ file' = [file EXCEPT ![f] = IF p \in writer[f] THEN "whole" ELSE @]
    /\ writer' = [writer EXCEPT ![f] = @ \ {p}]

Unlink(f) ==
    /\ file' = [file EXCEPT ![f] = "absent"]
    /\ writer' = [writer EXCEPT ![f] = {}]

-------------------------------------------------------------------------------
Goes(p, from, to) ==
    /\ pc[p] = from
    /\ pc' = [pc EXCEPT ![p] = to]

Fails(p) == failed' = [failed EXCEPT ![p] = TRUE]

\* download() or open(), which closes what is open first.  An available
\* sequence is not downloaded; otherwise its directory is made, if it can be.
Call(p, open) ==
    /\ pc[p] = "idle"
    /\ opening' = [opening EXCEPT ![p] = open]
    /\ opened' = IF open THEN [opened EXCEPT ![p] = "closed"] ELSE opened
    /\ next' = [next EXCEPT ![p] = 1]
    /\ \/ /\ Available
          /\ Goes(p, "idle", IF open THEN "load" ELSE "idle")
          /\ failed' = [failed EXCEPT ![p] = FALSE]
       \/ /\ ~Available
          /\ Goes(p, "idle", "fetch")
          /\ failed' = [failed EXCEPT ![p] = FALSE]
       \/ /\ ~Available
          /\ Fails(p)
          /\ UNCHANGED pc
    /\ UNCHANGED <<archive, disk, todo, crashes>>

\* fetch(): the file is opened, or cannot be.
FetchBegins(p) ==
    /\ \/ Goes(p, "fetch", "fetching") /\ Create(Zip, p) /\ UNCHANGED failed
       \/ Goes(p, "fetch", "remove") /\ Fails(p) /\ UNCHANGED disk
    /\ UNCHANGED <<archive, next, todo, opening, opened, crashes>>

\* The transfer ends, well or not.
FetchEnds(p) ==
    /\ \/ Goes(p, "fetching", "unzip") /\ Finish(Zip, p) /\ UNCHANGED failed
       \/ Goes(p, "fetching", "remove") /\ Fails(p) /\ UNCHANGED disk
    /\ UNCHANGED <<archive, next, todo, opening, opened, crashes>>

\* extract(): the archive is opened, if it is one.
Unzip(p) ==
    /\ \/ /\ file[Zip] = "whole"
          /\ Goes(p, "unzip", "entry")
          /\ UNCHANGED failed
       \/ /\ Goes(p, "unzip", "remove")
          /\ Fails(p)
    /\ UNCHANGED <<archive, disk, next, todo, opening, opened, crashes>>

\* Mutant: the entry after a file is taken for its directory.
EntrySkipped(i) == i + 2

EntryAfter(i) == i + 1

Safe(p) == archive[next[p]] # Unsafe

\* The file of the next entry is opened; it may be even if the entry cannot.
EntryBegins(p) ==
    /\ next[p] <= Len(archive)
    /\ \/ /\ Safe(p)
          /\ Create(archive[next[p]], p)
          /\ \/ Goes(p, "entry", "write") /\ UNCHANGED failed
             \/ Goes(p, "entry", "remove") /\ Fails(p)
       \/ /\ Goes(p, "entry", "remove")
          /\ Fails(p)
          /\ UNCHANGED disk
    /\ UNCHANGED <<archive, next, todo, opening, opened, crashes>>

\* An entry whose name cannot be had is passed over, which tells nobody.
EntryUnnamed(p) ==
    /\ NamesMayFail
    /\ next[p] <= Len(archive)
    /\ Goes(p, "entry", "entry")
    /\ next' = [next EXCEPT ![p] = EntryAfter(@)]
    /\ UNCHANGED <<archive, disk, failed, todo, opening, opened, crashes>>

\* Its contents are written and the ofstream is destroyed, which tells nobody
\* whether the last of them reached the disk.
EntryEnds(p) ==
    /\ \/ /\ Goes(p, "write", "entry")
          /\ next' = [next EXCEPT ![p] = EntryAfter(@)]
          /\ Finish(archive[next[p]], p) \/ (CloseMayFail /\ UNCHANGED disk)
          /\ UNCHANGED failed
       \/ /\ Goes(p, "write", "remove")
          /\ Fails(p)
          /\ UNCHANGED <<disk, next>>
    /\ UNCHANGED <<archive, todo, opening, opened, crashes>>

Extracted(p) ==
    /\ next[p] > Len(archive)
    /\ Goes(p, "entry", "remove")
    /\ UNCHANGED <<archive, disk, next, failed, todo, opening, opened, crashes>>

\* Mutant: the archive is only deleted if all went well.
RemoveZipOnSuccess(p) ==
    /\ Goes(p, "remove", "check")
    /\ IF failed[p] THEN UNCHANGED disk ELSE Unlink(Zip)
    /\ UNCHANGED <<archive, next, failed, todo, opening, opened, crashes>>

\* The archive is deleted, whether or not something failed.
RemoveZip(p) ==
    /\ Goes(p, "remove", "check")
    /\ Unlink(Zip)
    /\ UNCHANGED <<archive, next, failed, todo, opening, opened, crashes>>

\* Where a call goes when download() returns true.
Downloaded(p) == IF opening[p] THEN "load" ELSE "idle"

\* Mutant: only the file that tells whether the sequence is complete is removed.
FoundEvents(f) == f = Events /\ file[f] # "absent"

\* Mutant: what is incomplete is kept, to be resumed.
FoundWhole(f) == file[f] = "whole"

\* remove_all() finds the file.
Found(f) == file[f] # "absent"

\* The sequence must be complete now, or remove_all() looks for what there is.
Check(p) ==
    /\ failed' = [failed EXCEPT ![p] = @ \/ ~Complete]
    /\ IF failed'[p]
         THEN /\ Goes(p, "check", "clean")
              /\ todo' = [todo EXCEPT ![p] = {f \in Names : Found(f)}]
         ELSE Goes(p, "check", Downloaded(p)) /\ UNCHANGED todo
    /\ UNCHANGED <<archive, disk, next, opening, opened, crashes>>

Clean(p, f) ==
    /\ pc[p] = "clean"
    /\ f \in todo[p]
    /\ todo' = [todo EXCEPT ![p] = @ \ {f}]
    /\ Unlink(f)
    /\ UNCHANGED <<archive, pc, next, failed, opening, opened, crashes>>

Cleaned(p) ==
    /\ todo[p] = {}
    /\ Goes(p, "clean", "idle")
    /\ UNCHANGED <<archive, disk, next, failed, todo, opening, opened, crashes>>

\* assign_(): the events that are there, whole or cut, with frames and measurements.
Assigned == IF Ready THEN "whole" ELSE "cut"

\* The end of open(): what load_() has not opened is closed.
Opened(p) == opened' = [opened EXCEPT ![p] = IF Complete THEN Assigned ELSE "closed"]

\* load_(): the reader throws if there is no events.txt; otherwise what is there
\* is what is opened.
Load(p) ==
    /\ Goes(p, "load", "idle")
    /\ Opened(p)
    /\ UNCHANGED <<archive, disk, next, failed, todo, opening, crashes>>

Close(p) ==
    /\ pc[p] = "idle"
    /\ opened' = [opened EXCEPT ![p] = "closed"]
    /\ UNCHANGED <<archive, disk, pc, next, failed, todo, opening, crashes>>

\* The process ends in the middle of a call and another takes its place.
Crash(p) ==
    /\ crashes < MaxCrashes
    /\ crashes' = crashes + 1
    /\ pc[p] # "idle"
    /\ pc' = [pc EXCEPT ![p] = "idle"]
    /\ next' = [next EXCEPT ![p] = 1]
    /\ failed' = [failed EXCEPT ![p] = FALSE]
    /\ todo' = [todo EXCEPT ![p] = {}]
    /\ opening' = [opening EXCEPT ![p] = FALSE]
    /\ opened' = [opened EXCEPT ![p] = "closed"]
    /\ writer' = [f \in DOMAIN writer |-> writer[f] \ {p}]
    /\ UNCHANGED <<archive, file>>

Next ==
    \E p \in Processes :
        \/ \E open \in BOOLEAN : Call(p, open)
        \/ FetchBegins(p)
        \/ FetchEnds(p)
        \/ Unzip(p)
        \/ EntryBegins(p)
        \/ EntryUnnamed(p)
        \/ EntryEnds(p)
        \/ Extracted(p)
        \/ RemoveZip(p)
        \/ Check(p)
        \/ \E f \in Names : Clean(p, f)
        \/ Cleaned(p)
        \/ Load(p)
        \/ Close(p)
        \/ Crash(p)

Spec == Init /\ [][Next]_vars

-------------------------------------------------------------------------------
(* Safety.                                                                 *)

Idle == \A p \in Processes : pc[p] = "idle"

\* An available sequence is ready to be read: a process that asks isAvailable()
\* between two calls, or open(), takes events.txt for the whole of it.
AvailableIsReady ==
    (\E p \in Processes : pc[p] = "idle") /\ Complete => Ready

\* As long as nobody has died in a call, what is available is whole, and so is
\* what open() has loaded, whichever steps of the calls before have failed: those
\* that the code can see fail (CloseMayFail and NamesMayFail are the others).
WholeUnlessCrashed ==
    crashes = 0 => AvailableIsReady /\ \A p \in Processes : opened[p] # "cut"

\* A whole sequence stays whole through any number of calls, the ones that would
\* fail included, and of crashes: nobody downloads it again.
ReadyForGood == [](Idle /\ Complete /\ Ready => []Ready)

\* A call that fails after it has begun to fetch leaves neither the archive nor
\* any part of the sequence, its own or of a process that died.
FailureLeavesNothing ==
    [][ \A p \in Processes :
          pc[p] = "clean" /\ pc'[p] = "idle" /\ crashes' = crashes
             => \A f \in Names \cup {Zip} : file'[f] = "absent" ]_vars

\* Whatever a process that died left on the disk, a download that fetches the
\* sequence again and returns true leaves it whole, if every entry has a name and
\* the closes of its files do not fail.
FetchedIsReady ==
    [][ \A p \in Processes :
          pc[p] = "check" /\ pc'[p] # "check" /\ ~failed'[p] /\ crashes' = crashes
             => Ready' ]_vars

\* No archive is left behind when nobody is downloading, whoever failed.
NoArchiveLeft == Idle => file[Zip] = "absent"
===============================================================================
