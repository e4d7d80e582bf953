---------------------------- MODULE DatasetProofs ----------------------------
(***************************************************************************)
(* Theorems about Dataset, for every archive, and for any number of        *)
(* processes or for one, whose calls then follow one another.              *)
(***************************************************************************)
EXTENDS Dataset, TLAPS

\* An entry that is written is one of the archive, and its path is safe.
Writes == \A p \in Processes :
    pc[p] = "write" => next[p] <= Len(archive) /\ archive[next[p]] \in Names

TypeInv == TypeOK /\ Writes

\* The archive as a sequence, and its names.
LEMMA ArchiveType ==
    TypeOK => /\ archive \in Seq(Names \cup {Unsafe})
              /\ Len(archive) \in Nat
              /\ \A i \in 1..Len(archive) : archive[i] \in Names \cup {Unsafe}
BY ArchivesAssumption DEF TypeOK

\* The types hold at first.
LEMMA TypeInit == Init => TypeInv
<1> SUFFICES ASSUME Init PROVE TypeInv
  OBVIOUS
<1>1. archive \in Seq(Names \cup {Unsafe}) /\ Len(archive) \in Nat
  BY ArchivesAssumption DEF Init
<1> QED BY <1>1, BoundAssumption DEF Init, TypeInv, TypeOK, Writes, Places

\* A call that goes on to a place other than "write" stays typed.
LEMMA GoesType ==
    ASSUME TypeInv, NEW p \in Processes, NEW from, NEW to \in Places \ {"write"},
           Goes(p, from, to), archive' = archive, next' = next
    PROVE  pc' \in [Processes -> Places] /\ Writes'
BY DEF TypeInv, TypeOK, Writes, Goes

\* The types after a call has failed.
LEMMA FailsType ==
    ASSUME TypeOK, NEW p \in Processes, Fails(p) \/ failed' = failed
    PROVE  failed' \in [Processes -> BOOLEAN]
BY DEF TypeOK, Fails

\* The disk is of its type after a file of it has changed.
LEMMA DiskType ==
    ASSUME TypeOK, NEW p \in Processes, NEW f \in Names \cup {Zip},
           Create(f, p) \/ Finish(f, p) \/ Unlink(f) \/ UNCHANGED disk
    PROVE  /\ file' \in [Names \cup {Zip} -> {"absent", "partial", "whole"}]
           /\ writer' \in [Names \cup {Zip} -> SUBSET Processes]
<1>1. CASE Create(f, p)
  BY <1>1 DEF TypeOK, Create
<1>2. CASE Finish(f, p)
  BY <1>2 DEF TypeOK, Finish
<1>3. CASE Unlink(f)
  BY <1>3 DEF TypeOK, Unlink
<1>4. CASE UNCHANGED disk
  BY <1>4 DEF TypeOK, disk
<1> QED BY <1>1, <1>2, <1>3, <1>4

\* Every step keeps the types.
LEMMA TypeNext == TypeInv /\ [Next]_vars => TypeInv'
<1> SUFFICES ASSUME TypeInv, [Next]_vars PROVE TypeInv'
  OBVIOUS
<1>1. /\ archive \in Seq(Names \cup {Unsafe}) /\ Len(archive) \in Nat
      /\ \A i \in 1..Len(archive) : archive[i] \in Names \cup {Unsafe}
  BY ArchiveType DEF TypeInv
<1>2. CASE UNCHANGED vars
  BY <1>2 DEF TypeInv, TypeOK, Writes, vars, disk
<1>3. ASSUME NEW p \in Processes, NEW open \in BOOLEAN, Call(p, open)
      PROVE  TypeInv'
  <2>1. /\ opening' \in [Processes -> BOOLEAN]
        /\ opened' \in [Processes -> {"closed", "cut", "whole"}]
        /\ next' \in [Processes -> Nat]
        /\ \A q \in Processes : next'[q] \in 1..(Len(archive) + 1)
    BY <1>1, <1>3 DEF TypeInv, TypeOK, Call
  <2>2. failed' \in [Processes -> BOOLEAN]
    BY <1>3 DEF TypeInv, TypeOK, Call, Fails
  <2>3. /\ pc' \in [Processes -> Places] /\ pc'[p] # "write"
        /\ \A q \in Processes \ {p} : pc'[q] = pc[q] /\ next'[q] = next[q]
    BY <1>3 DEF TypeInv, TypeOK, Call, Goes, Places
  <2>4. Writes'
    BY <1>3, <2>3 DEF TypeInv, Writes, Call
  <2> QED BY <1>3, <2>1, <2>2, <2>3, <2>4 DEF TypeInv, TypeOK, Call, disk
<1>4. ASSUME NEW p \in Processes, FetchBegins(p) PROVE TypeInv'
  <2>1. pc' \in [Processes -> Places] /\ Writes'
    BY <1>4, GoesType DEF FetchBegins, Places
  <2>2. failed' \in [Processes -> BOOLEAN]
    BY <1>4, FailsType DEF FetchBegins, TypeInv
  <2>3. /\ file' \in [Names \cup {Zip} -> {"absent", "partial", "whole"}]
        /\ writer' \in [Names \cup {Zip} -> SUBSET Processes]
    BY <1>4, DiskType DEF FetchBegins, TypeInv
  <2> QED BY <1>4, <2>1, <2>2, <2>3 DEF TypeInv, TypeOK, FetchBegins
<1>5. ASSUME NEW p \in Processes, FetchEnds(p) PROVE TypeInv'
  <2>1. pc' \in [Processes -> Places] /\ Writes'
    BY <1>5, GoesType DEF FetchEnds, Places
  <2>2. failed' \in [Processes -> BOOLEAN]
    BY <1>5, FailsType DEF FetchEnds, TypeInv
  <2>3. /\ file' \in [Names \cup {Zip} -> {"absent", "partial", "whole"}]
        /\ writer' \in [Names \cup {Zip} -> SUBSET Processes]
    BY <1>5, DiskType DEF FetchEnds, TypeInv
  <2> QED BY <1>5, <2>1, <2>2, <2>3 DEF TypeInv, TypeOK, FetchEnds
<1>6. ASSUME NEW p \in Processes, Unzip(p) PROVE TypeInv'
  <2>1. pc' \in [Processes -> Places] /\ Writes'
    BY <1>6, GoesType DEF Unzip, Places
  <2>2. failed' \in [Processes -> BOOLEAN]
    BY <1>6, FailsType DEF Unzip, TypeInv
  <2> QED BY <1>6, <2>1, <2>2 DEF TypeInv, TypeOK, Unzip, disk
<1>7. ASSUME NEW p \in Processes, EntryBegins(p) PROVE TypeInv'
  <2>1. next[p] \in 1..Len(archive)
    BY <1>1, <1>7 DEF EntryBegins, TypeInv, TypeOK
  <2>2. archive[next[p]] \in Names \/ ~Safe(p)
    BY <1>1, <2>1 DEF Safe
  <2>3. /\ file' \in [Names \cup {Zip} -> {"absent", "partial", "whole"}]
        /\ writer' \in [Names \cup {Zip} -> SUBSET Processes]
    BY <1>7, <2>2, DiskType DEF EntryBegins, TypeInv
  <2>4. failed' \in [Processes -> BOOLEAN]
    BY <1>7, FailsType DEF EntryBegins, TypeInv
  <2>5. pc' \in [Processes -> Places] /\ Writes'
    <3>1. CASE Goes(p, "entry", "write") /\ Safe(p)
      BY <1>7, <2>1, <2>2, <3>1 DEF Goes, Places, EntryBegins, TypeInv, TypeOK, Writes
    <3>2. CASE Goes(p, "entry", "remove")
      BY <1>7, <3>2, GoesType DEF EntryBegins, Places
    <3> QED BY <1>7, <3>1, <3>2 DEF EntryBegins
  <2> QED BY <1>7, <2>3, <2>4, <2>5 DEF TypeInv, TypeOK, EntryBegins
<1>8. ASSUME NEW p \in Processes, EntryEnds(p) PROVE TypeInv'
  <2>1. next[p] \in 1..Len(archive) /\ archive[next[p]] \in Names
    BY <1>1, <1>8 DEF EntryEnds, Goes, TypeInv, TypeOK, Writes
  <2>2. /\ file' \in [Names \cup {Zip} -> {"absent", "partial", "whole"}]
        /\ writer' \in [Names \cup {Zip} -> SUBSET Processes]
    BY <1>8, <2>1, DiskType DEF EntryEnds, TypeInv
  <2>3. failed' \in [Processes -> BOOLEAN]
    BY <1>8, FailsType DEF EntryEnds, TypeInv
  <2>4. CASE Goes(p, "write", "entry") /\ next' = [next EXCEPT ![p] = EntryAfter(@)]
    <3>1. /\ next' \in [Processes -> Nat]
          /\ \A q \in Processes : next'[q] \in 1..(Len(archive) + 1)
      BY <1>1, <2>1, <2>4 DEF TypeInv, TypeOK, EntryAfter
    <3>2. /\ pc' \in [Processes -> Places] /\ pc'[p] # "write"
          /\ \A q \in Processes \ {p} : pc'[q] = pc[q] /\ next'[q] = next[q]
      BY <2>4 DEF TypeInv, TypeOK, Goes, Places
    <3>3. Writes'
      BY <1>8, <3>2 DEF TypeInv, Writes, EntryEnds
    <3> QED BY <1>8, <2>2, <2>3, <3>1, <3>2, <3>3 DEF TypeInv, TypeOK, EntryEnds
  <2>5. CASE Goes(p, "write", "remove") /\ UNCHANGED next
    <3>1. pc' \in [Processes -> Places] /\ Writes'
      BY <1>8, <2>5, GoesType DEF EntryEnds, Places
    <3> QED BY <1>8, <2>2, <2>3, <2>5, <3>1 DEF TypeInv, TypeOK, EntryEnds
  <2> QED BY <1>8, <2>4, <2>5 DEF EntryEnds
<1>9. ASSUME NEW p \in Processes, Extracted(p) PROVE TypeInv'
  BY <1>1, <1>9 DEF TypeInv, TypeOK, Writes, Extracted, Goes, Places, disk
<1>10. ASSUME NEW p \in Processes, RemoveZip(p) PROVE TypeInv'
  BY <1>1, <1>10 DEF TypeInv, TypeOK, Writes, RemoveZip, Goes, Unlink, Places, disk
<1>11. ASSUME NEW p \in Processes, Check(p) PROVE TypeInv'
  <2>1. pc' \in [Processes -> Places] /\ Writes'
    BY <1>11, GoesType DEF Check, Downloaded, Places
  <2>2. failed' \in [Processes -> BOOLEAN]
    BY <1>11 DEF TypeInv, TypeOK, Check, Complete
  <2>3. todo' \in [Processes -> SUBSET Names]
    BY <1>11 DEF TypeInv, TypeOK, Check
  <2> QED BY <1>11, <2>1, <2>2, <2>3 DEF TypeInv, TypeOK, Check, disk
<1>12. ASSUME NEW p \in Processes, NEW f \in Names, Clean(p, f) PROVE TypeInv'
  BY <1>1, <1>12 DEF TypeInv, TypeOK, Writes, Clean, Unlink, Places, disk
<1>13. ASSUME NEW p \in Processes, Cleaned(p) PROVE TypeInv'
  BY <1>1, <1>13 DEF TypeInv, TypeOK, Writes, Cleaned, Goes, Places, disk
<1>14. ASSUME NEW p \in Processes, Load(p) PROVE TypeInv'
  BY <1>1, <1>14 DEF TypeInv, TypeOK, Writes, Load, Opened, Assigned, Goes, Places, disk
<1>15. ASSUME NEW p \in Processes, Close(p) PROVE TypeInv'
  BY <1>1, <1>15 DEF TypeInv, TypeOK, Writes, Close, Places, disk
<1>16. ASSUME NEW p \in Processes, Crash(p) PROVE TypeInv'
  BY <1>1, <1>16, BoundAssumption DEF TypeInv, TypeOK, Writes, Crash, Places, disk
<1>17. ASSUME NEW p \in Processes, EntryUnnamed(p) PROVE TypeInv'
  <2>1. /\ next' \in [Processes -> Nat]
        /\ \A q \in Processes : next'[q] \in 1..(Len(archive) + 1)
    BY <1>1, <1>17 DEF TypeInv, TypeOK, EntryUnnamed, EntryAfter
  <2>2. /\ pc' \in [Processes -> Places] /\ pc'[p] # "write"
        /\ \A q \in Processes \ {p} : pc'[q] = pc[q] /\ next'[q] = next[q]
    BY <1>17 DEF TypeInv, TypeOK, EntryUnnamed, Goes, Places
  <2>3. Writes'
    BY <1>17, <2>2 DEF TypeInv, Writes, EntryUnnamed
  <2> QED BY <1>17, <2>1, <2>2, <2>3 DEF TypeInv, TypeOK, EntryUnnamed, disk
<1> QED BY <1>2, <1>3, <1>4, <1>5, <1>6, <1>7, <1>8, <1>9, <1>10, <1>11, <1>12,
           <1>13, <1>14, <1>15, <1>16, <1>17 DEF Next

\* Every variable keeps its type, and the entry a process is writing is a file of
\* the archive: extract() of the code writes no entry whose path is not safe.
THEOREM TypeCorrect == Spec => []TypeInv
BY TypeInit, TypeNext, PTL DEF Spec

\* Every variable keeps its type, whatever fails and whoever dies.
THEOREM TypeCorrectOK == Spec => []TypeOK
<1>1. TypeInv => TypeOK
  BY DEF TypeInv
<1> QED BY <1>1, TypeCorrect, PTL

-------------------------------------------------------------------------------
(* The archive.                                                            *)

\* A file with the name of the archive is held by a call that will remove it.
Holders == {"fetching", "unzip", "entry", "write", "remove"}
ZipHeld == file[Zip] # "absent" => \E p \in Processes : pc[p] \in Holders

\* A step of a call that stays among the holders, or becomes one, holds the archive.
LEMMA HolderGoes ==
    ASSUME TypeInv, NEW p \in Processes, NEW from, NEW to \in Holders,
           Goes(p, from, to)
    PROVE  ZipHeld'
BY DEF TypeInv, TypeOK, Goes, ZipHeld

\* A step that leaves the archive and the holders alone.
LEMMA OthersGo ==
    ASSUME TypeInv, ZipHeld, NEW p \in Processes, pc[p] \notin Holders,
           \A q \in Processes \ {p} : pc'[q] = pc[q],
           file'[Zip] = file[Zip] \/ file'[Zip] = "absent"
    PROVE  ZipHeld'
BY DEF ZipHeld

\* Every step of one that does not die keeps the archive held.
LEMMA ZipHeldNext ==
    ASSUME MaxCrashes = 0, TypeInv, ZipHeld, [Next]_vars
    PROVE  ZipHeld'
<1>1. CASE UNCHANGED vars
  BY <1>1 DEF ZipHeld, vars, disk
<1>2. ASSUME NEW p \in Processes, NEW open \in BOOLEAN, Call(p, open)
      PROVE  ZipHeld'
  BY <1>2, OthersGo DEF Call, Goes, Fails, TypeInv, TypeOK, disk, Holders
<1>3. ASSUME NEW p \in Processes, FetchBegins(p) PROVE ZipHeld'
  BY <1>3, HolderGoes DEF FetchBegins, Holders
<1>4. ASSUME NEW p \in Processes, FetchEnds(p) PROVE ZipHeld'
  BY <1>4, HolderGoes DEF FetchEnds, Holders
<1>5. ASSUME NEW p \in Processes, Unzip(p) PROVE ZipHeld'
  BY <1>5, HolderGoes DEF Unzip, Holders
<1>6. ASSUME NEW p \in Processes, EntryBegins(p) PROVE ZipHeld'
  BY <1>6, HolderGoes DEF EntryBegins, Holders
<1>7. ASSUME NEW p \in Processes, EntryEnds(p) PROVE ZipHeld'
  BY <1>7, HolderGoes DEF EntryEnds, Holders
<1>8. ASSUME NEW p \in Processes, Extracted(p) PROVE ZipHeld'
  BY <1>8, HolderGoes DEF Extracted, Holders
<1>9. ASSUME NEW p \in Processes, RemoveZip(p) PROVE ZipHeld'
  BY <1>9 DEF RemoveZip, Unlink, ZipHeld, TypeInv, TypeOK
<1>10. ASSUME NEW p \in Processes, Check(p) PROVE ZipHeld'
  BY <1>10, OthersGo DEF Check, Goes, TypeInv, TypeOK, disk, Holders
<1>11. ASSUME NEW p \in Processes, NEW f \in Names, Clean(p, f) PROVE ZipHeld'
  BY <1>11, NamesAssumption DEF Clean, Unlink, ZipHeld, TypeInv, TypeOK
<1>12. ASSUME NEW p \in Processes, Cleaned(p) PROVE ZipHeld'
  BY <1>12, OthersGo DEF Cleaned, Goes, TypeInv, TypeOK, disk, Holders
<1>13. ASSUME NEW p \in Processes, Load(p) PROVE ZipHeld'
  BY <1>13, OthersGo DEF Load, Goes, TypeInv, TypeOK, disk, Holders
<1>14. ASSUME NEW p \in Processes, Close(p) PROVE ZipHeld'
  BY <1>14 DEF Close, ZipHeld, disk
<1>15. ASSUME NEW p \in Processes, Crash(p) PROVE FALSE
  BY <1>15 DEF Crash, TypeInv, TypeOK
<1>16. ASSUME NEW p \in Processes, EntryUnnamed(p) PROVE ZipHeld'
  BY <1>16, HolderGoes DEF EntryUnnamed, Holders
<1> QED BY <1>1, <1>2, <1>3, <1>4, <1>5, <1>6, <1>7, <1>8, <1>9, <1>10, <1>11,
           <1>12, <1>13, <1>14, <1>15, <1>16 DEF Next

\* As long as no process dies, no archive is left behind when nobody is in a
\* call, for any number of processes over the cache and whichever of them fail.
THEOREM NoArchiveStays ==
    ASSUME MaxCrashes = 0
    PROVE  Spec => []NoArchiveLeft
<1>1. Init => ZipHeld
  BY DEF Init, ZipHeld
<1>2. TypeInv /\ ZipHeld /\ [Next]_vars => ZipHeld'
  BY ZipHeldNext
<1>3. TypeInv /\ ZipHeld => NoArchiveLeft
  BY DEF ZipHeld, NoArchiveLeft, Idle, Holders
<1> QED BY <1>1, <1>2, <1>3, TypeCorrect, PTL DEF Spec

-------------------------------------------------------------------------------
(* A whole sequence.                                                       *)

\* The sequence is whole and nobody is in a call that writes.
Kept == Complete /\ Ready /\ \A p \in Processes : pc[p] \in {"idle", "load"}

\* Nobody begins to write while events.txt is there.
LEMMA KeptNext ==
    ASSUME TypeInv, Kept, [Next]_vars
    PROVE  Kept'
<1>1. CASE UNCHANGED vars
  BY <1>1 DEF Kept, Complete, Ready, vars, disk
<1>2. ASSUME NEW p \in Processes, NEW open \in BOOLEAN, Call(p, open)
      PROVE  Kept'
  <2>1. UNCHANGED <<archive, file>> /\ pc' = [pc EXCEPT ![p] = pc'[p]]
        /\ pc'[p] \in {"idle", "load"}
    BY <1>2 DEF Call, Goes, Available, Kept, TypeInv, TypeOK, disk
  <2> QED BY <2>1 DEF Kept, Complete, Ready, TypeInv, TypeOK
<1>3. ASSUME NEW p \in Processes, Load(p) PROVE Kept'
  BY <1>3 DEF Load, Goes, Kept, Complete, Ready, TypeInv, TypeOK, disk
<1>4. ASSUME NEW p \in Processes, Close(p) PROVE Kept'
  BY <1>4 DEF Close, Kept, Complete, Ready, disk
<1>5. ASSUME NEW p \in Processes, Crash(p) PROVE Kept'
  BY <1>5 DEF Crash, Kept, Complete, Ready, TypeInv, TypeOK
<1>6. ASSUME NEW p \in Processes,
             \/ FetchBegins(p) \/ FetchEnds(p) \/ Unzip(p) \/ EntryBegins(p)
             \/ EntryUnnamed(p) \/ EntryEnds(p) \/ Extracted(p) \/ RemoveZip(p)
             \/ Check(p) \/ (\E f \in Names : Clean(p, f)) \/ Cleaned(p)
      PROVE  FALSE
  BY <1>6 DEF Kept, Goes, FetchBegins, FetchEnds, Unzip, EntryBegins, EntryUnnamed, EntryEnds,
              Extracted, RemoveZip, Check, Clean, Cleaned
<1> QED BY <1>1, <1>2, <1>3, <1>4, <1>5, <1>6 DEF Next

\* A sequence that is whole when nobody is in a call stays so for ever, for every
\* archive and any number of processes, whatever fails and whoever dies.
THEOREM WholeForGood == Spec => ReadyForGood
<1>1. Idle /\ Complete /\ Ready => Kept
  BY DEF Idle, Kept
<1>2. TypeInv /\ Kept /\ [Next]_vars => Kept'
  BY KeptNext
<1>3. Kept => Ready
  BY DEF Kept
<1> QED BY <1>1, <1>2, <1>3, TypeCorrect, PTL DEF Spec, ReadyForGood

-------------------------------------------------------------------------------
(* One process at a time.                                                  *)

\* There is one process, no ofstream loses what it holds back, and every entry has
\* a name.
Lone == (\A p, q \in Processes : p = q) /\ ~CloseMayFail /\ ~NamesMayFail

\* What a call knows of the disk at each place, whatever a process that died
\* left there before.
Began(p) == pc[p] \in {"fetch", "fetching", "unzip"} => next[p] = 1

Written(p) == pc[p] = "entry" =>
    \A i \in 1..Len(archive) :
      i < next[p] /\ archive[i] \in Names => file[archive[i]] = "whole"

Writing(p) == pc[p] = "write" =>
    /\ p \in writer[archive[next[p]]]
    /\ \A i \in 1..Len(archive) :
         i < next[p] /\ archive[i] \in Names /\ archive[i] # archive[next[p]]
           => file[archive[i]] = "whole"

Extraction(p) == pc[p] \in {"remove", "check"} /\ ~failed[p] => Ready

Cleaning(p) ==
    /\ pc[p] \in {"check", "clean"} => file[Zip] = "absent"
    /\ pc[p] = "clean" => \A f \in Names : file[f] # "absent" => f \in todo[p]

Between(p) == crashes = 0 =>
    /\ pc[p] \in {"idle", "load"} /\ Complete => Ready
    /\ opened[p] # "cut"

CallOK(p) == Began(p) /\ Written(p) /\ Writing(p) /\ Extraction(p) /\ Cleaning(p)
             /\ Between(p)

Calls == \A p \in Processes : CallOK(p)

\* What the steps of the only process have to show.
LEMMA OnlyOne ==
    ASSUME Lone, NEW p \in Processes, CallOK(p)'
    PROVE  Calls'
BY DEF Lone, Calls

\* Nobody has called at first.
LEMMA CallsInit == Init => Calls
BY NamesAssumption
   DEF Init, Calls, CallOK, Began, Written, Writing, Extraction, Cleaning, Between, Complete

\* Every step keeps what the calls know of the disk.
LEMMA CallsNext ==
    ASSUME Lone, TypeInv, Calls, [Next]_vars
    PROVE  Calls'
<1> USE DEF CallOK
<1>1. /\ archive \in Seq(Names \cup {Unsafe}) /\ Len(archive) \in Nat
      /\ \A i \in 1..Len(archive) : archive[i] \in Names \cup {Unsafe}
  BY ArchiveType DEF TypeInv
<1>2. CASE UNCHANGED vars
  BY <1>2 DEF Calls, Began, Written, Writing, Extraction, Cleaning, Between, Complete,
              Ready, vars, disk
<1>3. ASSUME NEW p \in Processes, NEW open \in BOOLEAN, Call(p, open)
      PROVE  Calls'
  <2>1. /\ pc[p] = "idle" /\ CallOK(p) /\ next'[p] = 1
        /\ opened'[p] \in {opened[p], "closed"}
        /\ UNCHANGED <<archive, file, writer, crashes>>
    BY <1>3 DEF Call, Calls, TypeInv, TypeOK, disk
  <2>2. /\ pc'[p] \in {"idle", "load", "fetch"}
    BY <1>3 DEF Call, Goes, TypeInv, TypeOK
  <2>3. CallOK(p)'
    BY <2>1, <2>2 DEF Began, Written, Writing, Extraction, Cleaning, Between, Complete, Ready
  <2> QED BY <2>3, OnlyOne
<1>4. ASSUME NEW p \in Processes, FetchBegins(p) PROVE Calls'
  <2>1. /\ pc[p] = "fetch" /\ CallOK(p) /\ UNCHANGED <<next, opened, crashes>>
        /\ pc'[p] = "fetching" \/ (pc'[p] = "remove" /\ failed'[p])
    BY <1>4 DEF FetchBegins, Calls, Goes, Fails, TypeInv, TypeOK
  <2>2. CallOK(p)'
    BY <2>1 DEF Began, Written, Writing, Extraction, Cleaning, Between
  <2> QED BY <2>2, OnlyOne
<1>5. ASSUME NEW p \in Processes, FetchEnds(p) PROVE Calls'
  <2>1. /\ pc[p] = "fetching" /\ CallOK(p) /\ UNCHANGED <<next, opened, crashes>>
        /\ pc'[p] = "unzip" \/ (pc'[p] = "remove" /\ failed'[p])
    BY <1>5 DEF FetchEnds, Calls, Goes, Fails, TypeInv, TypeOK
  <2>2. CallOK(p)'
    BY <2>1 DEF Began, Written, Writing, Extraction, Cleaning, Between
  <2> QED BY <2>2, OnlyOne
<1>6. ASSUME NEW p \in Processes, Unzip(p) PROVE Calls'
  <2>1. /\ pc[p] = "unzip" /\ CallOK(p) /\ UNCHANGED <<next, opened, crashes>>
        /\ pc'[p] = "entry" \/ (pc'[p] = "remove" /\ failed'[p])
    BY <1>6 DEF Unzip, Calls, Goes, Fails, TypeInv, TypeOK
  <2>2. CallOK(p)'
    BY <1>1, <2>1 DEF Began, Written, Writing, Extraction, Cleaning, Between
  <2> QED BY <2>2, OnlyOne
<1>7. ASSUME NEW p \in Processes, EntryBegins(p) PROVE Calls'
  <2>1. /\ pc[p] = "entry" /\ CallOK(p) /\ UNCHANGED <<archive, next, opened, crashes>>
        /\ next[p] \in 1..Len(archive)
    BY <1>1, <1>7 DEF EntryBegins, Calls, Goes, TypeInv, TypeOK
  <2>2. CASE pc'[p] = "remove" /\ failed'[p]
    <3>1. CallOK(p)'
      BY <2>1, <2>2 DEF Began, Written, Writing, Extraction, Cleaning, Between
    <3> QED BY <3>1, OnlyOne
  <2>3. CASE Safe(p) /\ Create(archive[next[p]], p) /\ pc'[p] = "write"
    <3> DEFINE f == archive[next[p]]
    <3>1. f \in Names
      BY <1>1, <2>1, <2>3 DEF Safe
    <3>2. writer'[f] = {p} /\ \A g \in Names : g # f => file'[g] = file[g]
      BY <2>3, <3>1 DEF Create, TypeInv, TypeOK
    <3>3. Writing(p)'
      BY <2>1, <2>3, <3>2 DEF Writing, Written
    <3>4. CallOK(p)'
      BY <2>1, <2>3, <3>3 DEF Began, Written, Extraction, Cleaning, Between
    <3> QED BY <3>4, OnlyOne
  <2>4. \/ pc'[p] = "remove" /\ failed'[p]
        \/ Safe(p) /\ Create(archive[next[p]], p) /\ pc'[p] = "write"
    BY <1>7 DEF EntryBegins, Goes, Fails, TypeInv, TypeOK
  <2> QED BY <2>2, <2>3, <2>4
<1>8. ASSUME NEW p \in Processes, EntryEnds(p) PROVE Calls'
  <2>1. /\ pc[p] = "write" /\ CallOK(p) /\ UNCHANGED <<archive, opened, crashes>>
        /\ next[p] \in 1..Len(archive) /\ archive[next[p]] \in Names
    BY <1>1, <1>8 DEF EntryEnds, Calls, Goes, TypeInv, TypeOK, Writes
  <2>2. CASE pc'[p] = "remove" /\ failed'[p]
    <3>1. CallOK(p)'
      BY <2>1, <2>2 DEF Began, Written, Writing, Extraction, Cleaning, Between
    <3> QED BY <3>1, OnlyOne
  <2>3. CASE pc'[p] = "entry" /\ next'[p] = next[p] + 1 /\ Finish(archive[next[p]], p)
    <3> DEFINE f == archive[next[p]]
    <3>1. file'[f] = "whole" /\ \A g \in Names : g # f => file'[g] = file[g]
      BY <2>1, <2>3 DEF Finish, Writing, TypeInv, TypeOK
    <3>2. ASSUME NEW i \in 1..Len(archive), i < next[p] + 1, archive[i] \in Names
          PROVE  file'[archive[i]] = "whole"
      <4>1. CASE archive[i] = f
        BY <3>1, <4>1
      <4>2. CASE archive[i] # f
        <5>1. i < next[p]
          BY <2>1, <3>2, <4>2
        <5> QED BY <2>1, <3>1, <3>2, <4>2, <5>1 DEF Writing
      <4> QED BY <4>1, <4>2
    <3>3. Written(p)'
      BY <2>1, <2>3, <3>2 DEF Written
    <3>4. CallOK(p)'
      BY <2>1, <2>3, <3>3 DEF Began, Writing, Extraction, Cleaning, Between
    <3> QED BY <3>4, OnlyOne
  <2>4. \/ pc'[p] = "remove" /\ failed'[p]
        \/ pc'[p] = "entry" /\ next'[p] = next[p] + 1 /\ Finish(archive[next[p]], p)
    BY <1>8 DEF EntryEnds, EntryAfter, Goes, Fails, Lone, TypeInv, TypeOK
  <2> QED BY <2>2, <2>3, <2>4
<1>9. ASSUME NEW p \in Processes, Extracted(p) PROVE Calls'
  <2>1. /\ pc[p] = "entry" /\ pc'[p] = "remove" /\ CallOK(p)
        /\ next[p] > Len(archive)
        /\ UNCHANGED <<archive, file, opened, crashes>>
    BY <1>9 DEF Extracted, Calls, Goes, TypeInv, TypeOK, disk
  <2>2. Ready'
    BY <1>1, <2>1 DEF Written, Ready, TypeInv, TypeOK
  <2>3. CallOK(p)'
    BY <2>1, <2>2 DEF Began, Written, Writing, Extraction, Cleaning, Between
  <2> QED BY <2>3, OnlyOne
<1>10. ASSUME NEW p \in Processes, RemoveZip(p) PROVE Calls'
  <2>1. /\ pc[p] = "remove" /\ pc'[p] = "check" /\ CallOK(p)
        /\ file'[Zip] = "absent" /\ \A f \in Names : file'[f] = file[f]
        /\ UNCHANGED <<archive, failed, opened, crashes>>
    BY <1>10, NamesAssumption DEF RemoveZip, Unlink, Calls, Goes, TypeInv, TypeOK
  <2>2. Ready => Ready'
    BY <2>1 DEF Ready
  <2>3. CallOK(p)'
    BY <2>1, <2>2 DEF Began, Written, Writing, Extraction, Cleaning, Between
  <2> QED BY <2>3, OnlyOne
<1>11. ASSUME NEW p \in Processes, Check(p) PROVE Calls'
  <2>1. /\ pc[p] = "check" /\ CallOK(p) /\ UNCHANGED <<archive, file, opened, crashes>>
    BY <1>11 DEF Check, Calls, Goes, disk
  <2>2. CASE failed'[p]
    <3>1. pc'[p] = "clean" /\ todo'[p] = {f \in Names : file[f] # "absent"}
      BY <1>11, <2>2 DEF Check, Goes, Found, TypeInv, TypeOK
    <3>2. CallOK(p)'
      BY <2>1, <3>1 DEF Began, Written, Writing, Extraction, Cleaning, Between
    <3> QED BY <3>2, OnlyOne
  <2>3. CASE ~failed'[p]
    <3>1. pc'[p] \in {"idle", "load"} /\ ~failed[p]
      BY <1>11, <2>3 DEF Check, Goes, Downloaded, TypeInv, TypeOK
    <3>2. Ready'
      BY <2>1, <3>1 DEF Extraction, Ready
    <3>3. CallOK(p)'
      BY <2>1, <3>1, <3>2 DEF Began, Written, Writing, Extraction, Cleaning, Between
    <3> QED BY <3>3, OnlyOne
  <2> QED BY <2>2, <2>3
<1>12. ASSUME NEW p \in Processes, NEW f \in Names, Clean(p, f) PROVE Calls'
  <2>1. /\ pc[p] = "clean" /\ pc'[p] = "clean" /\ CallOK(p)
        /\ file' = [file EXCEPT ![f] = "absent"]
        /\ todo'[p] = todo[p] \ {f}
        /\ UNCHANGED <<opened, crashes>>
    BY <1>12 DEF Clean, Unlink, Calls, TypeInv, TypeOK
  <2>2. Cleaning(p)'
    BY <2>1, NamesAssumption DEF Cleaning, TypeInv, TypeOK
  <2>3. CallOK(p)'
    BY <2>1, <2>2 DEF Began, Written, Writing, Extraction, Between
  <2> QED BY <2>3, OnlyOne
<1>13. ASSUME NEW p \in Processes, Cleaned(p) PROVE Calls'
  <2>1. /\ pc[p] = "clean" /\ pc'[p] = "idle" /\ CallOK(p) /\ todo[p] = {}
        /\ UNCHANGED <<file, opened, crashes>>
    BY <1>13 DEF Cleaned, Calls, Goes, TypeInv, TypeOK, disk
  <2>2. ~Complete'
    BY <2>1, NamesAssumption DEF Complete, Cleaning
  <2>3. CallOK(p)'
    BY <2>1, <2>2 DEF Began, Written, Writing, Extraction, Cleaning, Between
  <2> QED BY <2>3, OnlyOne
<1>14. ASSUME NEW p \in Processes, Load(p) PROVE Calls'
  <2>1. /\ pc[p] = "load" /\ pc'[p] = "idle" /\ CallOK(p)
        /\ opened'[p] = IF Complete THEN Assigned ELSE "closed"
        /\ UNCHANGED <<archive, file, crashes>>
    BY <1>14 DEF Load, Opened, Calls, Goes, TypeInv, TypeOK, disk
  <2>2. CallOK(p)'
    BY <2>1 DEF Assigned, Complete, Ready, Began, Written, Writing, Extraction, Cleaning,
                Between
  <2> QED BY <2>2, OnlyOne
<1>15. ASSUME NEW p \in Processes, Close(p) PROVE Calls'
  <2>1. /\ pc[p] = "idle" /\ pc'[p] = "idle" /\ CallOK(p) /\ opened'[p] = "closed"
        /\ UNCHANGED <<archive, file, crashes>>
    BY <1>15 DEF Close, Calls, TypeInv, TypeOK, disk
  <2>2. CallOK(p)'
    BY <2>1 DEF Complete, Ready, Began, Written, Writing, Extraction, Cleaning, Between
  <2> QED BY <2>2, OnlyOne
<1>16. ASSUME NEW p \in Processes, Crash(p) PROVE Calls'
  <2>1. pc'[p] = "idle" /\ crashes' # 0
    BY <1>16 DEF Crash, TypeInv, TypeOK
  <2>2. CallOK(p)'
    BY <2>1 DEF Began, Written, Writing, Extraction, Cleaning, Between
  <2> QED BY <2>2, OnlyOne
<1>17. ASSUME NEW p \in Processes, EntryUnnamed(p) PROVE FALSE
  BY <1>17 DEF EntryUnnamed, Lone
<1> QED BY <1>2, <1>3, <1>4, <1>5, <1>6, <1>7, <1>8, <1>9, <1>10, <1>11, <1>12,
           <1>13, <1>14, <1>15, <1>16, <1>17 DEF Next

\* The calls of the only process, one after another and some cut short by its
\* death, know of the disk at each place of download() and open() what Calls says.
THEOREM OneAtATime ==
    ASSUME Lone
    PROVE  Spec => [](TypeInv /\ Calls)
BY TypeInit, TypeNext, CallsInit, CallsNext, PTL DEF Spec

\* With one process, what is available is whole as long as nobody has died in a
\* call, for every archive and whichever steps have failed, and so is what is open.
THEOREM AvailableIsWhole ==
    ASSUME Lone
    PROVE  Spec => []WholeUnlessCrashed
<1>1. Calls => WholeUnlessCrashed
  BY DEF Calls, CallOK, Between, WholeUnlessCrashed, AvailableIsReady
<1> QED BY <1>1, OneAtATime, PTL

\* With one process, a call that fails leaves nothing, of it or of one that died.
THEOREM FailureCleans ==
    ASSUME Lone
    PROVE  Spec => FailureLeavesNothing
<1>1. ASSUME TypeInv, Calls, [Next]_vars, NEW p \in Processes,
             pc[p] = "clean", pc'[p] = "idle", crashes' = crashes
      PROVE  \A f \in Names \cup {Zip} : file'[f] = "absent"
  <2>1. Cleaned(p)
    <3>1. \A q \in Processes : q = p
      BY DEF Lone
    <3> QED BY <1>1, <3>1 DEF Next, vars, Call, FetchBegins, FetchEnds, Unzip, EntryBegins,
          EntryUnnamed, EntryEnds, Extracted, RemoveZip, Check, Clean, Load, Close, Crash, Goes,
          TypeInv, TypeOK
  <2>2. todo[p] = {} /\ file' = file
    BY <2>1 DEF Cleaned, disk
  <2> QED BY <1>1, <2>2 DEF Calls, CallOK, Cleaning
<1>2. TypeInv /\ Calls /\ [Next]_vars =>
        [\A p \in Processes :
           pc[p] = "clean" /\ pc'[p] = "idle" /\ crashes' = crashes
             => \A f \in Names \cup {Zip} : file'[f] = "absent"]_vars
  BY <1>1
<1> QED BY <1>2, OneAtATime, PTL DEF Spec, FailureLeavesNothing

\* With one process, a download that fetches the sequence again leaves it whole,
\* whatever one that died left on the disk.
THEOREM FetchMends ==
    ASSUME Lone
    PROVE  Spec => FetchedIsReady
<1>1. ASSUME TypeInv, Calls, [Next]_vars, NEW p \in Processes,
             pc[p] = "check", pc'[p] # "check", ~failed'[p], crashes' = crashes
      PROVE  Ready'
  <2>1. Check(p)
    <3>1. \A q \in Processes : q = p
      BY DEF Lone
    <3> QED BY <1>1, <3>1 DEF Next, vars, Call, FetchBegins, FetchEnds, Unzip, EntryBegins,
          EntryUnnamed, EntryEnds, Extracted, RemoveZip, Clean, Cleaned, Load, Close, Crash, Goes,
          TypeInv, TypeOK
  <2>2. ~failed[p] /\ file' = file /\ archive' = archive
    BY <1>1, <2>1 DEF Check, disk, TypeInv, TypeOK
  <2> QED BY <1>1, <2>2 DEF Calls, CallOK, Extraction, Ready
<1>2. TypeInv /\ Calls /\ [Next]_vars =>
        [\A p \in Processes :
           pc[p] = "check" /\ pc'[p] # "check" /\ ~failed'[p] /\ crashes' = crashes
             => Ready']_vars
  BY <1>1
<1> QED BY <1>2, OneAtATime, PTL DEF Spec, FetchedIsReady
===============================================================================
