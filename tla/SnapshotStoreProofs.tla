------------------------ MODULE SnapshotStoreProofs ------------------------
(***************************************************************************)
(* What CURRENT names is complete and never changes, and a restart finds   *)
(* in it all that a stop() which returned true had in memory: for every    *)
(* finite set of partitions and every number of rows, generations and      *)
(* crashes.                                                                *)
(*                                                                         *)
(* CurrentReady is not inductive.  A failed snapshot removes a directory,  *)
(* and the cleanup several: that neither is the published one follows from *)
(* the generation in work being newer than CURRENT until it is published   *)
(* (InWork), having its manifest by then (Complete), and being CURRENT     *)
(* itself when the cleanup runs (Published).                               *)
(***************************************************************************)
EXTENDS SnapshotStore, FiniteSetTheorems, SequenceTheorems, TLAPS

USE SMTT(20), ZenonT(20)

Rows == 1..MaxRows
Files == [Parts -> Seq(Rows)]
Generation == [dir : BOOLEAN, file : Files,
               manifest : [parts : Nat, rows : Nat, written : BOOLEAN]]
Publishing == {"current", "finalCurrent"}
Cleaning == {"clean", "finalClean"}
Steps == {"idle", "write", "current", "clean", "end",
          "finalWrite", "finalCurrent", "finalClean", "finalEnd"}

(* The types of what is on disk and of the snapshot being taken.           *)
DiskTypes ==
    /\ gens \in [Gens -> Generation]
    /\ current \in Gens \cup {NoGen} /\ prev \in Gens \cup {NoGen} /\ sgen \in Gens \cup {NoGen}
    /\ spc \in Steps /\ sok \in BOOLEAN
    /\ stodo \subseteq Parts
    /\ scount \in [parts : Nat, rows : Nat]

(* The types of what the process holds in memory.                          *)
MemoryTypes ==
    /\ phase \in {"down", "recover", "up", "stopping"}
    /\ refused \in BOOLEAN
    /\ next_row \in Nat \ {0}
    /\ queue \subseteq Rows \X Parts
    /\ mem \in Files
    /\ rtodo \subseteq Parts

InWork == spc \in Writing \cup Publishing => sgen \in Gens /\ sgen > current /\ gens[sgen].dir
Complete == spc \in Publishing => gens[sgen].manifest.written
Published == spc \in Cleaning => sgen = current /\ current \in Gens
(* Recovery reads a generation that exists.                                *)
Recovering == phase = "recover" => current \in Gens
Ready == current # NoGen => gens[current].dir /\ gens[current].manifest.written

DiskInv == DiskTypes /\ InWork /\ Complete /\ Published /\ Ready
SnapshotInv == DiskInv /\ MemoryTypes /\ Recovering

-----------------------------------------------------------------------------
LEMMA GenIsNat == /\ Gens \subseteq Nat \ {0}
                  /\ NoGen \notin Gens
                  /\ Gens \cup {NoGen} \subseteq Nat
BY SnapshotAssumption DEF Gens, NoGen

LEMMA EmptyTypes == /\ Empty \in Files
                    /\ NoDir \in Generation
                    /\ Zero \in [parts : Nat, rows : Nat]
<1>1. <<>> \in Seq(Rows) OBVIOUS
<1>2. Empty \in Files BY <1>1 DEF Empty, Files
<1> QED BY <1>2 DEF NoDir, NoManifest, Generation, Zero

(* To names the step that follows, in the flush thread's call or in stop's. *)
LEMMA ToStep ==
    /\ To("current") => spc' \in Publishing
    /\ To("clean") => spc' \in Cleaning
    /\ To("end") => spc' \in {"end", "finalEnd"}
BY DEF To, Publishing, Cleaning

LEMMA InitSnapshot == Init => SnapshotInv
<1> SUFFICES ASSUME Init PROVE SnapshotInv OBVIOUS
<1>1. gens \in [Gens -> Generation] BY EmptyTypes DEF Init
<1>2. DiskInv
  BY <1>1, EmptyTypes, Zenon DEF Init, DiskInv, DiskTypes, InWork, Complete, Published, Ready, Writing,
     Publishing, Cleaning, Steps
<1>3. queue \subseteq Rows \X Parts /\ rtodo \subseteq Parts BY Zenon DEF Init
<1>4. MemoryTypes /\ Recovering BY <1>3, EmptyTypes, 1 \in Nat \ {0}, Zenon DEF Init, MemoryTypes, Recovering
<1> QED BY <1>2, <1>4 DEF SnapshotInv

-----------------------------------------------------------------------------
(* The steps of do_snapshot, on disk.                                      *)

LEMMA BeginDisk == ASSUME DiskInv, BeginSnapshot PROVE DiskInv' /\ (current # NoGen => gens'[current] = gens[current])
<1>1. PICK g \in Gens, S \in SUBSET Parts :
         /\ ~gens[g].dir
         /\ g > current
         /\ gens' = [gens EXCEPT ![g].dir = TRUE]
         /\ sgen' = g /\ stodo' = S
  BY Zenon DEF BeginSnapshot
<1>2. /\ gens' \in [Gens -> Generation]
      /\ gens'[g].dir
      /\ \A h \in Gens : h # g => gens'[h] = gens[h]
  BY <1>1, Zenon DEF DiskInv, DiskTypes, Generation
<1>3. current \in Nat /\ g # current /\ spc' \in Writing /\ current' = current /\ prev' = prev
  BY <1>1, GenIsNat DEF BeginSnapshot, Writing, DiskInv, DiskTypes
<1>4. DiskTypes' BY <1>1, <1>2, <1>3, EmptyTypes, Zenon DEF BeginSnapshot, DiskInv, DiskTypes, Writing, Steps
<1>5. InWork' /\ Complete' /\ Published'
  BY <1>1, <1>2, <1>3 DEF InWork, Complete, Published, Writing, Publishing, Cleaning
<1>6. current # NoGen => gens'[current] = gens[current] BY <1>2, <1>3 DEF DiskInv, DiskTypes
<1>7. Ready' BY <1>3, <1>6 DEF DiskInv, Ready
<1> QED BY <1>4, <1>5, <1>6, <1>7 DEF DiskInv

LEMMA PartitionDisk ==
    ASSUME DiskInv, MemoryTypes, NEW p \in Parts, SnapPartition(p)
    PROVE  DiskInv' /\ (current # NoGen => gens'[current] = gens[current])
<1>1. sgen \in Gens /\ sgen > current /\ sgen # current /\ gens[sgen].dir
  BY GenIsNat DEF DiskInv, DiskTypes, InWork, SnapPartition
<1>2. mem[p] \in Seq(Rows) BY DEF MemoryTypes, Files
<1>3. /\ gens' \in [Gens -> Generation]
      /\ gens'[sgen].dir
      /\ \A h \in Gens : h # sgen => gens'[h] = gens[h]
  <2>1. gens \in [Gens -> Generation] BY DEF DiskInv, DiskTypes
  <2>2. [gens[sgen].file EXCEPT ![p] = mem[p]] \in Files BY <1>1, <1>2, <2>1 DEF Generation, Files
  <2>3. [gens[sgen] EXCEPT !.file = [gens[sgen].file EXCEPT ![p] = mem[p]]] \in Generation
    BY <1>1, <2>1, <2>2 DEF Generation
  <2>4. gens' = [gens EXCEPT ![sgen] = [gens[sgen] EXCEPT !.file = [gens[sgen].file EXCEPT ![p] = mem[p]]]]
    BY <1>1, <2>1 DEF SnapPartition
  <2> QED BY <1>1, <2>1, <2>3, <2>4 DEF Generation
<1>4. scount' \in [parts : Nat, rows : Nat]
  <2>1. Len(mem[p]) \in Nat BY <1>2
  <2> QED BY <2>1 DEF SnapPartition, DiskInv, DiskTypes
<1>5. DiskTypes' BY <1>3, <1>4 DEF SnapPartition, DiskInv, DiskTypes
<1>6. InWork' /\ Complete' /\ Published'
  BY <1>1, <1>3 DEF SnapPartition, InWork, Complete, Published, Writing, Publishing, Cleaning
<1>7. current # NoGen => gens'[current] = gens[current] BY <1>1, <1>3 DEF DiskInv, DiskTypes
<1>8. Ready' BY <1>7 DEF SnapPartition, DiskInv, Ready
<1> QED BY <1>5, <1>6, <1>7, <1>8 DEF DiskInv

LEMMA CompleteDisk == ASSUME DiskInv, WriteComplete PROVE DiskInv' /\ (current # NoGen => gens'[current] = gens[current])
<1>1. sgen \in Gens /\ sgen > current /\ sgen # current /\ gens[sgen].dir
  BY GenIsNat DEF DiskInv, DiskTypes, InWork, WriteComplete
<1>2. /\ gens' \in [Gens -> Generation]
      /\ gens'[sgen].dir /\ gens'[sgen].manifest.written
      /\ \A h \in Gens : h # sgen => gens'[h] = gens[h]
  <2>1. gens \in [Gens -> Generation] /\ scount \in [parts : Nat, rows : Nat] BY DEF DiskInv, DiskTypes
  <2> DEFINE m == [parts |-> scount.parts, rows |-> scount.rows, written |-> TRUE]
  <2>2. m \in [parts : Nat, rows : Nat, written : BOOLEAN] /\ m.written BY <2>1
  <2>3. gens' = [gens EXCEPT ![sgen] = [gens[sgen] EXCEPT !.manifest = m]] BY <1>1, <2>1 DEF WriteComplete
  <2>4. [gens[sgen] EXCEPT !.manifest = m] \in Generation BY <1>1, <2>1, <2>2, Zenon DEF Generation
  <2> HIDE DEF m
  <2> QED BY <1>1, <2>1, <2>2, <2>3, <2>4 DEF Generation
<1>3. spc' \in Publishing BY ToStep DEF WriteComplete
<1>4. DiskTypes' BY <1>2, <1>3 DEF WriteComplete, DiskInv, DiskTypes, Publishing, Steps
<1>5. InWork' /\ Complete' /\ Published'
  BY <1>1, <1>2, <1>3 DEF WriteComplete, InWork, Complete, Published, Writing, Publishing, Cleaning
<1>6. current # NoGen => gens'[current] = gens[current] BY <1>1, <1>2 DEF DiskInv, DiskTypes
<1>7. Ready' BY <1>6 DEF WriteComplete, DiskInv, Ready
<1> QED BY <1>4, <1>5, <1>6, <1>7 DEF DiskInv

(* A failed snapshot removes the generation in work, never the published one. *)
LEMMA FailDisk == ASSUME DiskInv, SnapFail PROVE DiskInv' /\ (current # NoGen => gens'[current] = gens[current])
<1>1. sgen \in Gens /\ sgen > current /\ sgen # current
  BY GenIsNat DEF DiskInv, DiskTypes, InWork, SnapFail, Publishing
<1>2. /\ gens' \in [Gens -> Generation]
      /\ \A h \in Gens : h # sgen => gens'[h] = gens[h]
  BY <1>1, EmptyTypes DEF DiskInv, DiskTypes, SnapFail
<1>3. spc' \in {"end", "finalEnd"} BY ToStep DEF SnapFail
<1>4. DiskTypes' BY <1>2, <1>3 DEF SnapFail, DiskInv, DiskTypes, Steps
<1>5. InWork' /\ Complete' /\ Published'
  BY <1>3 DEF InWork, Complete, Published, Writing, Publishing, Cleaning
<1>6. current # NoGen => gens'[current] = gens[current] BY <1>1, <1>2 DEF DiskInv, DiskTypes
<1>7. Ready' BY <1>6 DEF SnapFail, DiskInv, Ready
<1> QED BY <1>4, <1>5, <1>6, <1>7 DEF DiskInv

LEMMA PublishDisk == ASSUME DiskInv, PublishCurrent PROVE DiskInv' /\ gens' = gens
<1>1. sgen \in Gens /\ gens[sgen].dir /\ gens[sgen].manifest.written
  BY DEF DiskInv, InWork, Complete, PublishCurrent, Publishing
<1>2. spc' \in Cleaning BY ToStep DEF PublishCurrent
<1>3. DiskTypes' BY <1>1, <1>2 DEF PublishCurrent, DiskInv, DiskTypes, Cleaning, Steps
<1>4. InWork' /\ Complete' /\ Published' /\ Ready'
  BY <1>1, <1>2 DEF PublishCurrent, InWork, Complete, Published, Ready, Writing, Publishing, Cleaning
<1> QED BY <1>3, <1>4 DEF DiskInv, PublishCurrent

(* The cleanup keeps the current generation, whichever other one it keeps. *)
LEMMA CleanupDisk == ASSUME DiskInv, Cleanup PROVE DiskInv' /\ (current # NoGen => gens'[current] = gens[current])
<1> DEFINE others == {g \in Gens : gens[g].dir} \ {sgen}
           keep == IF others = {} THEN {} ELSE {Max(others)}
<1>1. sgen = current /\ current \in Gens BY DEF DiskInv, Published, Cleanup, Cleaning
<1>2. gens' = [g \in Gens |-> IF g \in others \ keep THEN NoDir ELSE gens[g]] BY DEF Cleanup
<1>3. current \notin others BY <1>1
<1> HIDE DEF others, keep
<1>4. gens' \in [Gens -> Generation] BY <1>2, EmptyTypes DEF DiskInv, DiskTypes
<1>5. gens'[current] = gens[current] BY <1>1, <1>2, <1>3
<1>6. spc' \in {"end", "finalEnd"} BY ToStep DEF Cleanup
<1>7. DiskTypes' BY <1>4, <1>6 DEF Cleanup, DiskInv, DiskTypes, Steps
<1>8. InWork' /\ Complete' /\ Published'
  BY <1>6 DEF InWork, Complete, Published, Writing, Publishing, Cleaning
<1>9. Ready' BY <1>5 DEF Cleanup, DiskInv, Ready
<1> QED BY <1>5, <1>7, <1>8, <1>9 DEF DiskInv

(* The end of a snapshot, of stop() and a crash leave the disk alone.      *)
LEMMA EndDisk ==
    ASSUME DiskInv, UNCHANGED <<gens, current, prev>>,
           sgen' \in {sgen, NoGen}, stodo' \in {stodo, {}}, scount' \in {scount, Zero}, sok' \in {sok, FALSE},
           spc' = "idle"
    PROVE  DiskInv'
BY EmptyTypes, Zenon DEF DiskInv, DiskTypes, InWork, Complete, Published, Ready, Writing, Publishing, Cleaning, Steps

LEMMA SameDisk == ASSUME DiskInv, UNCHANGED <<snapVars, diskVars>> PROVE DiskInv'
BY DEF snapVars, diskVars, DiskInv, DiskTypes, InWork, Complete, Published, Ready

(* Every step, on disk: the published generation keeps its contents as long *)
(* as CURRENT names it.                                                     *)
LEMMA NextDisk ==
    ASSUME SnapshotInv, [Next]_vars
    PROVE  DiskInv' /\ ((current # NoGen /\ current' = current) => gens'[current] = gens[current])
<1> USE DEF SnapshotInv
<1>1. CASE Start BY <1>1, SameDisk DEF Start, diskVars
<1>2. CASE \E p \in Parts : RecoverPartition(p) BY <1>2, SameDisk DEF RecoverPartition, diskVars
<1>3. CASE RecoverDone BY <1>3, SameDisk DEF RecoverDone, diskVars
<1>4. CASE RecoverError BY <1>4, SameDisk DEF RecoverError, diskVars
<1>5. CASE \E p \in Parts : Ingest(p) BY <1>5, SameDisk DEF Ingest, diskVars
<1>6. CASE Drain BY <1>6, SameDisk DEF Drain, diskVars
<1>7. CASE Stop BY <1>7, SameDisk DEF Stop, diskVars
<1>8. CASE SnapshotNext
  <2>1. CASE BeginSnapshot BY <2>1, BeginDisk
  <2>2. CASE \E p \in Parts : SnapPartition(p) BY <2>2, PartitionDisk
  <2>3. CASE WriteComplete BY <2>3, CompleteDisk
  <2>4. CASE SnapFail BY <2>4, FailDisk
  <2>5. CASE PublishCurrent BY <2>5, PublishDisk
  <2>6. CASE Cleanup BY <2>6, CleanupDisk
  <2>7. CASE SnapEnd BY <2>7, EndDisk DEF SnapEnd, diskVars
  <2>8. CASE StopReturn BY <2>8, EndDisk DEF StopReturn, diskVars
  <2>9. CASE StopReturnFailed BY <2>9, SameDisk DEF StopReturnFailed, diskVars
  <2> QED BY <1>8, <2>1, <2>2, <2>3, <2>4, <2>5, <2>6, <2>7, <2>8, <2>9 DEF SnapshotNext
<1>9. CASE Crash BY <1>9, EndDisk, Zenon DEF Crash, diskVars
<1>10. CASE UNCHANGED vars BY <1>10, SameDisk DEF vars, diskVars
<1> QED BY <1>1, <1>2, <1>3, <1>4, <1>5, <1>6, <1>7, <1>8, <1>9, <1>10 DEF Next

-----------------------------------------------------------------------------
(* Every step, in memory.                                                  *)
LEMMA NextMemory == ASSUME SnapshotInv, [Next]_vars PROVE MemoryTypes' /\ Recovering'
<1> USE DEF SnapshotInv
<1>1. CASE Start
  <2>1. phase' \in {"down", "recover", "up"} /\ (phase' = "recover" => Resolve = "Ready") BY <1>1 DEF Start, Resolve
  <2>2. current' = current /\ (Resolve = "Ready" => current # NoGen) BY <1>1 DEF Start, diskVars, Resolve
  <2>3. refused' \in BOOLEAN BY <1>1 DEF Start
  <2>4. mem' \in Files BY <1>1, EmptyTypes DEF Start
  <2>5. rtodo' \subseteq Parts BY <1>1 DEF Start
  <2>6. UNCHANGED <<queue, next_row>> BY <1>1 DEF Start
  <2> QED BY <2>1, <2>2, <2>3, <2>4, <2>5, <2>6 DEF MemoryTypes, Recovering, DiskInv, DiskTypes
<1>2. CASE \E p \in Parts : RecoverPartition(p)
  <2>1. PICK p \in Parts : RecoverPartition(p) BY <1>2
  <2>2. current \in Gens /\ gens[current].file[p] \in Seq(Rows)
    BY <2>1 DEF RecoverPartition, Recovering, DiskInv, DiskTypes, Generation, Files
  <2>3. mem[p] \in Seq(Rows) BY DEF MemoryTypes, Files
  <2>4. mem[p] \o gens[current].file[p] \in Seq(Rows) BY <2>2, <2>3
  <2>5. mem' \in Files BY <2>1, <2>4 DEF RecoverPartition, MemoryTypes, Files
  <2> QED BY <2>1, <2>5 DEF RecoverPartition, MemoryTypes, Recovering, diskVars
<1>3. CASE RecoverDone
  <2>1. phase' \in {"up", "down"} /\ refused' \in BOOLEAN BY <1>3 DEF RecoverDone
  <2> QED BY <1>3, <2>1 DEF RecoverDone, MemoryTypes, Recovering, recVars
<1>4. CASE RecoverError BY <1>4 DEF RecoverError, MemoryTypes, Recovering, recVars
<1>5. CASE \E p \in Parts : Ingest(p)
  <2>1. PICK p \in Parts : Ingest(p) BY <1>5
  <2>2. <<next_row, p>> \in Rows \X Parts BY <2>1, SnapshotAssumption DEF Ingest, MemoryTypes, Rows
  <2>3. queue' \subseteq Rows \X Parts BY <2>1, <2>2 DEF Ingest, MemoryTypes
  <2>4. next_row' \in Nat \ {0} BY <2>1 DEF Ingest, MemoryTypes
  <2> QED BY <2>1, <2>3, <2>4 DEF Ingest, MemoryTypes, Recovering, recVars, diskVars
<1>6. CASE Drain
  <2>1. PICK t \in queue : queue' = queue \ {t} /\ mem' = [mem EXCEPT ![t[2]] = Append(@, t[1])] BY <1>6, Zenon DEF Drain
  <2>2. t[1] \in Rows /\ t[2] \in Parts BY <2>1 DEF MemoryTypes
  <2>3. mem[t[2]] \in Seq(Rows) BY <2>2 DEF MemoryTypes, Files
  <2>4. Append(mem[t[2]], t[1]) \in Seq(Rows) BY <2>2, <2>3
  <2>5. mem' \in Files BY <2>1, <2>2, <2>4 DEF MemoryTypes, Files
  <2>6. queue' \subseteq Rows \X Parts BY <2>1 DEF MemoryTypes
  <2> QED BY <1>6, <2>5, <2>6 DEF Drain, MemoryTypes, Recovering, recVars, diskVars
<1>7. CASE Stop BY <1>7 DEF Stop, MemoryTypes, Recovering, recVars
<1>8. CASE SnapshotNext
  <2>2. CASE phase' = "down" /\ mem' = Empty /\ UNCHANGED <<refused, queue, next_row, rtodo>>
    BY <2>2, EmptyTypes DEF MemoryTypes, Recovering
  <2>3. CASE UNCHANGED <<procVars, recVars>> /\ (current' = current \/ current' \in Gens)
    BY <2>3 DEF MemoryTypes, Recovering, procVars, recVars
  <2>4. CASE BeginSnapshot BY <2>3, <2>4 DEF BeginSnapshot
  <2>5. CASE \E p \in Parts : SnapPartition(p) BY <2>3, <2>5 DEF SnapPartition
  <2>6. CASE WriteComplete \/ SnapFail \/ Cleanup \/ SnapEnd
    BY <2>3, <2>6 DEF WriteComplete, SnapFail, Cleanup, SnapEnd, diskVars
  <2>7. CASE PublishCurrent BY <2>3, <2>7 DEF PublishCurrent, DiskInv, InWork, Publishing
  <2>8. CASE StopReturn BY <2>2, <2>8 DEF StopReturn, recVars
  <2>9. CASE StopReturnFailed BY <2>2, <2>9 DEF StopReturnFailed, recVars
  <2> QED BY <1>8, <2>4, <2>5, <2>6, <2>7, <2>8, <2>9 DEF SnapshotNext
<1>9. CASE Crash
  <2>1. queue' \subseteq Rows \X Parts BY <1>9 DEF Crash
  <2> QED BY <1>9, <2>1, EmptyTypes DEF Crash, MemoryTypes, Recovering
<1>10. CASE UNCHANGED vars BY <1>10 DEF vars, procVars, recVars, diskVars, MemoryTypes, Recovering
<1> QED BY <1>1, <1>2, <1>3, <1>4, <1>5, <1>6, <1>7, <1>8, <1>9, <1>10 DEF Next

(* The inductive invariant of the snapshot store.                          *)
THEOREM SnapshotInvariant == Spec => []SnapshotInv
<1>1. SnapshotInv /\ [Next]_vars => SnapshotInv' BY NextDisk, NextMemory DEF SnapshotInv
<1> QED BY InitSnapshot, <1>1, PTL DEF Spec

(* Every variable of the snapshot store keeps its type.                    *)
THEOREM SnapshotTypes == Spec => []TypeOK
<1>1. SnapshotInv => TypeOK
  <2> SUFFICES ASSUME SnapshotInv PROVE TypeOK OBVIOUS
  <2>1. queue \subseteq Nat \X Parts BY DEF SnapshotInv, MemoryTypes, Rows
  <2>2. \A g \in Gens : gens[g].file \in Files BY DEF SnapshotInv, DiskInv, DiskTypes, Generation
  <2> QED BY <2>1, <2>2 DEF SnapshotInv, DiskInv, DiskTypes, MemoryTypes, TypeOK, Files, Rows, Steps
<1> QED BY SnapshotInvariant, <1>1, PTL

(* Once CURRENT names a generation, resolve_snapshot finds it complete in   *)
(* every later state, whatever snapshot fails and wherever the process dies. *)
THEOREM PublishedIsReady == Spec => []CurrentReady
<1>1. SnapshotInv => CurrentReady BY DEF SnapshotInv, DiskInv, Ready, CurrentReady, Resolve
<1> QED BY SnapshotInvariant, <1>1, PTL

(* do_snapshot, its failure path and cleanup_old_generations never touch    *)
(* the generation that CURRENT names.                                       *)
THEOREM PublishedNeverChanges == Spec => PublishedImmutable
<1>1. SnapshotInv /\ [Next]_vars
        => [(current # NoGen /\ current' = current) => gens'[current] = gens[current]]_vars
  BY NextDisk
<1> QED BY SnapshotInvariant, <1>1, PTL DEF Spec, PublishedImmutable

-----------------------------------------------------------------------------
(* What a restart finds.                                                   *)
(*                                                                         *)
(* RecoveryAccepts compares two totals that are counted at different times *)
(* in different orders.  Each is the number of partitions with rows and    *)
(* the number of cells <<partition, position>> (Tallied): the snapshot     *)
(* counts the file it has written so far, the recovery the memory it has   *)
(* refilled so far, and at the end both are the published file.            *)

Filled(f) == {p \in Parts : f[p] # <<>>}
Cells(f) == UNION {{p} \X (1..Len(f[p])) : p \in Parts}
Tallied(c, f) ==
    /\ IsFiniteSet(Cells(f))
    /\ c.parts = Cardinality(Filled(f)) /\ c.rows = Cardinality(Cells(f))

Ended == {"end", "finalEnd"}
(* A snapshot goes on only while the process is up or stopping.            *)
Busy == spc # "idle" => phase \in {"up", "stopping"} /\ sgen \in Gens
(* The final one has nothing more to wait for.                             *)
Quiet == Final => phase = "stopping" /\ queue = {}
(* Outside a directory there are no files.                                 *)
Bare == \A g \in Gens : ~gens[g].dir => gens[g] = NoDir
(* What the snapshot has not come to is not in its directory.              *)
Fresh == spc \in Writing => /\ ~gens[sgen].manifest.written
                            /\ \A p \in stodo : gens[sgen].file[p] = <<>>
                            /\ Tallied(scount, gens[sgen].file)
(* A snapshot that goes past its partitions has written all of them.       *)
Through == spc \in Publishing \cup Cleaning \/ (spc \in Ended /\ sok) => stodo = {}
Outcome == /\ spc \in Writing \cup Publishing => ~sok
           /\ spc \in Ended /\ sok => sgen = current
(* What the final snapshot has come to is what memory holds.               *)
Mirrored == Final /\ (spc = "finalEnd" => sok) =>
              \A p \in Parts \ stodo : gens[sgen].file[p] = mem[p]
(* A manifest gives the totals of its directory.                           *)
Manifests == \A g \in Gens : gens[g].manifest.written => Tallied(gens[g].manifest, gens[g].file)
(* Recovery has refilled the partitions it has come to, and counted them.  *)
Refilled ==
    phase = "recover" =>
      /\ rtodo \subseteq Filled(gens[current].file)
      /\ \A p \in Parts : mem[p] = IF p \in rtodo THEN <<>> ELSE gens[current].file[p]
      /\ Tallied(rcount, mem)
Accepted == (phase # "down" \/ current # NoGen) => ~refused
(* The image of a graceful stop() is on disk, then in memory.              *)
Imaged ==
    image # NoImage =>
      /\ queue = {}
      /\ phase \in {"up", "stopping"} => mem = image
      /\ phase \in {"down", "recover"} => current \in Gens /\ gens[current].file = image

WorkInv == Busy /\ Quiet /\ Bare /\ Fresh /\ Through /\ Outcome /\ Mirrored /\ Manifests
RestartInv == WorkInv /\ PrefixConsistent /\ Refilled /\ Accepted /\ Imaged

-----------------------------------------------------------------------------
LEMMA TallyEmpty == Tallied(Zero, Empty)
<1>1. Filled(Empty) = {} BY DEF Filled, Empty
<1>2. \A p \in Parts : {p} \X (1..Len(Empty[p])) = {}
  <2>1. \A p \in Parts : Len(Empty[p]) = 0 BY DEF Empty
  <2>2. 1..0 = {} OBVIOUS
  <2> QED BY <2>1, <2>2
<1>3. Cells(Empty) = {} BY <1>2 DEF Cells
<1> QED BY <1>1, <1>3, FS_EmptySet DEF Tallied, Zero

LEMMA RowCells ==
    ASSUME NEW p, NEW n \in Nat
    PROVE  IsFiniteSet({p} \X (1..n)) /\ Cardinality({p} \X (1..n)) = n
<1>1. IsFiniteSet(1..n) /\ Cardinality(1..n) = n BY FS_Interval
<1>2. IsFiniteSet({p}) /\ Cardinality({p}) = 1 BY FS_Singleton, Zenon
<1> DEFINE S == {p}
           T == 1..n
<1> HIDE DEF S, T
<1>3. IsFiniteSet(S) /\ IsFiniteSet(T) /\ Cardinality(S) = 1 /\ Cardinality(T) = n BY <1>1, <1>2 DEF S, T
<1>4. IsFiniteSet(S \X T) /\ Cardinality(S \X T) = Cardinality(S) * Cardinality(T) BY <1>3, FS_Product, Zenon
<1>5. IsFiniteSet(S \X T) /\ Cardinality(S \X T) = n BY <1>3, <1>4
<1> QED BY <1>5 DEF S, T

LEMMA DisjointCells ==
    ASSUME NEW S, NEW T, IsFiniteSet(S), IsFiniteSet(T), S \cap T = {}
    PROVE  IsFiniteSet(S \cup T) /\ Cardinality(S \cup T) = Cardinality(S) + Cardinality(T)
<1>1. Cardinality(S) \in Nat /\ Cardinality(T) \in Nat BY FS_CardinalityType
<1>2. /\ IsFiniteSet(S \cup T)
      /\ Cardinality(S \cup T) = Cardinality(S) + Cardinality(T) - Cardinality(S \cap T) BY FS_Union, Zenon
<1>3. Cardinality(S \cap T) = 0 BY FS_EmptySet, Zenon
<1> QED BY <1>1, <1>2, <1>3

(* One more partition with rows adds one to the partitions, its length to  *)
(* the rows.                                                               *)
LEMMA TallyAdd ==
    ASSUME NEW f \in Files, NEW p \in Parts, NEW s \in Seq(Rows), NEW c, Tallied(c, f), f[p] = <<>>, s # <<>>
    PROVE  Tallied([parts |-> c.parts + 1, rows |-> c.rows + Len(s)], [f EXCEPT ![p] = s])
<1> DEFINE g == [f EXCEPT ![p] = s]
           new == {p} \X (1..Len(s))
<1>1. \A q \in Parts : g[q] = IF q = p THEN s ELSE f[q] BY DEF Files
<1>2. Filled(g) = Filled(f) \cup {p} /\ p \notin Filled(f) BY <1>1 DEF Filled
<1>3. IsFiniteSet(Filled(f)) BY FS_Subset, SnapshotAssumption DEF Filled
<1>4. Cardinality(Filled(g)) = Cardinality(Filled(f)) + 1
  <2> HIDE DEF g
  <2> DEFINE F == Filled(f)
  <2>1. Cardinality(F \cup {p}) = IF p \in F THEN Cardinality(F) ELSE Cardinality(F) + 1
    BY <1>3, FS_AddElement, Zenon
  <2> QED BY <1>2, <2>1
<1>5. Len(s) \in Nat /\ Len(f[p]) = 0 OBVIOUS
<1>6. IsFiniteSet(new) /\ Cardinality(new) = Len(s) BY <1>5, RowCells, Zenon
<1>7. Cells(f) \cap new = {}
  <2>1. \A q \in Parts : ({q} \X (1..Len(f[q]))) \cap new = {}
    <3> TAKE q \in Parts
    <3>1. CASE q = p
      <4>1. 1..Len(f[p]) = {} BY <1>5
      <4> QED BY <3>1, <4>1
    <3>2. CASE q # p BY <3>2
    <3> QED BY <3>1, <3>2
  <2> HIDE DEF new
  <2> QED BY <2>1, Zenon DEF Cells
<1>8. Cells(g) = Cells(f) \cup new
  <2>1. {p} \X (1..Len(f[p])) = {} BY <1>5
  <2>2. {p} \X (1..Len(g[p])) = new BY <1>1
  <2>3. \A q \in Parts \ {p} : {q} \X (1..Len(g[q])) = {q} \X (1..Len(f[q])) BY <1>1
  <2> HIDE DEF g, new
  <2>4. Cells(g) \subseteq Cells(f) \cup new
    <3> SUFFICES ASSUME NEW q \in Parts, NEW e \in {q} \X (1..Len(g[q])) PROVE e \in Cells(f) \cup new
      BY Zenon DEF Cells
    <3>1. CASE q = p BY <3>1, <2>2
    <3>2. CASE q # p
      <4>1. e \in {q} \X (1..Len(f[q])) BY <3>2, <2>3
      <4> QED BY <4>1, Zenon DEF Cells
    <3> QED BY <3>1, <3>2
  <2>5. new \subseteq Cells(g) BY <2>2, Zenon DEF Cells
  <2>6. Cells(f) \subseteq Cells(g)
    <3> SUFFICES ASSUME NEW q \in Parts, NEW e \in {q} \X (1..Len(f[q])) PROVE e \in Cells(g)
      BY Zenon DEF Cells
    <3>1. q # p BY <2>1
    <3>2. e \in {q} \X (1..Len(g[q])) BY <3>1, <2>3
    <3> QED BY <3>2, Zenon DEF Cells
  <2> QED BY <2>4, <2>5, <2>6
<1>9. IsFiniteSet(Cells(g)) /\ Cardinality(Cells(g)) = Cardinality(Cells(f)) + Len(s)
  <2> HIDE DEF g, new
  <2>1. IsFiniteSet(Cells(f)) BY DEF Tallied
  <2>2. /\ IsFiniteSet(Cells(f) \cup new)
        /\ Cardinality(Cells(f) \cup new) = Cardinality(Cells(f)) + Cardinality(new)
    BY <1>6, <1>7, <2>1, DisjointCells, Zenon
  <2> QED BY <1>6, <1>8, <2>2
<1> HIDE DEF g, new
<1>10. Tallied([parts |-> c.parts + 1, rows |-> c.rows + Len(s)], g) BY <1>4, <1>9 DEF Tallied
<1> QED BY <1>10 DEF g

(* A file stays a prefix of a partition that grows.                        *)
LEMMA PrefixFacts ==
    ASSUME NEW t \in Seq(Rows)
    PROVE  /\ IsPrefix(<<>>, t)
           /\ IsPrefix(t, t)
           /\ \A s \in Seq(Rows), x \in Rows : IsPrefix(s, t) => IsPrefix(s, Append(t, x))
<1>1. IsPrefix(<<>>, t)
  <2>1. Len(<<>>) = 0 /\ Len(t) \in Nat OBVIOUS
  <2>2. SubSeq(<<>>, 1, 0) = <<>> /\ SubSeq(t, 1, 0) = <<>> BY DEF SubSeq
  <2> QED BY <2>1, <2>2 DEF IsPrefix
<1>2. IsPrefix(t, t) BY DEF IsPrefix
<1>3. ASSUME NEW s \in Seq(Rows), NEW x \in Rows, IsPrefix(s, t) PROVE IsPrefix(s, Append(t, x))
  <2>1. Len(s) \in Nat /\ Len(t) \in Nat /\ Len(s) <= Len(t) BY <1>3 DEF IsPrefix
  <2>2. Len(Append(t, x)) = Len(t) + 1 /\ Append(t, x) \in Seq(Rows) OBVIOUS
  <2>3. \A i \in 1..Len(s) : Append(t, x)[i] = t[i] BY <2>1
  <2>4. SubSeq(Append(t, x), 1, Len(s)) = SubSeq(t, 1, Len(s))
    <3> DEFINE u == SubSeq(Append(t, x), 1, Len(s))
               v == SubSeq(t, 1, Len(s))
    <3>1. u \in Seq(Rows) /\ Len(u) = Len(s) /\ \A i \in 1..Len(s) : u[i] = Append(t, x)[i] BY <2>1, <2>2
    <3>2. v \in Seq(Rows) /\ Len(v) = Len(s) /\ \A i \in 1..Len(s) : v[i] = t[i] BY <2>1
    <3> HIDE DEF u, v
    <3>3. Len(u) = Len(v) /\ Len(u) = Len(s) BY <3>1, <3>2, Zenon
    <3>4. \A i \in 1..Len(s) : u[i] = v[i] BY <3>1, <3>2, <2>3, Zenon
    <3>5. \A i \in 1..Len(u) : u[i] = v[i] BY <3>3, <3>4, Zenon
    <3>6. u = v BY <3>1, <3>2, <3>3, <3>5, SeqEqual, Zenon
    <3> QED BY <3>6, Zenon DEF u, v
  <2> QED BY <1>3, <2>1, <2>2, <2>4 DEF IsPrefix
<1> QED BY <1>1, <1>2, <1>3

-----------------------------------------------------------------------------
LEMMA InitRestart == Init => RestartInv
<1> SUFFICES ASSUME Init PROVE RestartInv OBVIOUS
<1>1. Bare /\ Manifests BY DEF Init, Bare, Manifests, NoDir, NoManifest
<1>2. Busy /\ Quiet /\ Fresh /\ Through /\ Outcome /\ Mirrored /\ PrefixConsistent
  BY DEF Init, Busy, Quiet, Final, Fresh, Writing, Through, Publishing, Cleaning, Ended, Outcome, Mirrored,
     PrefixConsistent
<1>3. Refilled /\ Accepted /\ Imaged BY DEF Init, Refilled, Accepted, Imaged
<1> QED BY <1>1, <1>2, <1>3 DEF RestartInv, WorkInv

(* A step that leaves no snapshot in progress.                             *)
LEMMA IdleWork == ASSUME RestartInv, spc' = "idle", gens' = gens PROVE WorkInv' /\ PrefixConsistent'
<1>1. Bare' /\ Manifests' BY DEF RestartInv, WorkInv, Bare, Manifests
<1>2. Busy' /\ Quiet' /\ Fresh' /\ Through' /\ Outcome' /\ Mirrored' /\ PrefixConsistent'
  BY DEF Busy, Quiet, Final, Fresh, Writing, Through, Publishing, Cleaning, Ended, Outcome, Mirrored,
     PrefixConsistent
<1> QED BY <1>1, <1>2 DEF WorkInv

(* A step of do_snapshot changes nothing that recovery or the image is about. *)
LEMMA SnapshotFrame ==
    ASSUME RestartInv, phase \in {"up", "stopping"}, UNCHANGED <<procVars, recVars>>
    PROVE  Refilled' /\ Accepted' /\ Imaged'
BY DEF RestartInv, Refilled, Accepted, Imaged, procVars, recVars

LEMMA StartRestart == ASSUME SnapshotInv, RestartInv, Start PROVE RestartInv'
<1>1. phase = "down" /\ spc = "idle" BY DEF Start, RestartInv, WorkInv, Busy
<1>2. WorkInv' /\ PrefixConsistent' BY <1>1, IdleWork DEF Start, snapVars, diskVars
<1>3. UNCHANGED <<gens, current, image, queue>> BY DEF Start, diskVars
<1>4. CASE current = NoGen
  <2>2. image = NoImage BY <1>1, <1>4, GenIsNat DEF RestartInv, Imaged
  <2>3. /\ phase' = CASE Resolve = "Missing" -> "up" [] Resolve = "Ready" -> "recover" [] OTHER -> "down"
        /\ refused' = (Resolve = "Invalid")
    BY DEF Start
  <2>4. Resolve \in {"Missing", "Invalid"} BY <1>4 DEF Resolve
  <2>5. CASE Resolve = "Missing"
    <3>1. ~refused' BY <2>3, <2>5, "Missing" # "Invalid", Zenon
    <3>2. phase' = "up" BY <2>3, <2>5
    <3> QED BY <1>2, <1>3, <1>4, <2>2, <3>1, <3>2 DEF RestartInv, Refilled, Accepted, Imaged
  <2>6. CASE Resolve = "Invalid"
    <3>1. phase' = "down" BY <2>3, <2>6
    <3> QED BY <1>2, <1>3, <1>4, <2>2, <3>1 DEF RestartInv, Refilled, Accepted, Imaged
  <2> QED BY <2>4, <2>5, <2>6
<1>5. CASE current # NoGen
  <2>1. Resolve = "Ready" /\ current \in Gens
    BY <1>5 DEF SnapshotInv, DiskInv, Ready, Resolve, DiskTypes
  <2>2. /\ phase' = "recover" /\ ~refused' /\ mem' = Empty /\ rcount' = Zero
        /\ rtodo' = Filled(gens[current].file)
    <3>1. /\ phase' = CASE Resolve = "Missing" -> "up" [] Resolve = "Ready" -> "recover" [] OTHER -> "down"
          /\ refused' = (Resolve = "Invalid")
          /\ mem' = Empty /\ rcount' = Zero
          /\ rtodo' = IF Resolve = "Ready" THEN Filled(gens[current].file) ELSE {}
      BY DEF Start, Filled
    <3>2. ~refused' BY <2>1, <3>1, "Ready" # "Invalid", Zenon
    <3>3. phase' = "recover" BY <2>1, <3>1
    <3> QED BY <2>1, <3>1, <3>2, <3>3
  <2>3. Tallied(rcount', mem') BY <2>2, TallyEmpty
  <2>4. \A p \in Parts : mem'[p] = IF p \in rtodo' THEN <<>> ELSE gens[current].file[p]
    BY <2>2 DEF Empty, Filled
  <2>5. Refilled' BY <1>3, <2>2, <2>3, <2>4 DEF Refilled
  <2>6. Accepted' /\ Imaged' BY <1>1, <1>3, <2>1, <2>2 DEF RestartInv, Accepted, Imaged
  <2> QED BY <1>2, <2>5, <2>6 DEF RestartInv
<1> QED BY <1>4, <1>5

LEMMA RefillRestart ==
    ASSUME SnapshotInv, RestartInv, NEW p \in Parts, RecoverPartition(p)
    PROVE  RestartInv'
<1>1. phase = "recover" /\ spc = "idle" /\ current \in Gens
  BY DEF RecoverPartition, RestartInv, WorkInv, Busy, SnapshotInv, Recovering
<1>2. WorkInv' /\ PrefixConsistent' BY <1>1, IdleWork DEF RecoverPartition, snapVars, diskVars
<1>3. UNCHANGED <<gens, current, image, queue, phase, refused>> BY DEF RecoverPartition, diskVars
<1> DEFINE f == gens[current].file
<1>4. f \in Files /\ f[p] \in Seq(Rows) /\ mem \in Files
  BY <1>1 DEF SnapshotInv, DiskInv, DiskTypes, Generation, Files, MemoryTypes
<1>5. /\ p \in rtodo /\ rtodo \subseteq Filled(f) /\ Tallied(rcount, mem)
      /\ \A q \in Parts : mem[q] = IF q \in rtodo THEN <<>> ELSE f[q]
  BY <1>1 DEF RecoverPartition, RestartInv, Refilled
<1>6. mem[p] = <<>> /\ f[p] # <<>> BY <1>5 DEF Filled
<1>7. mem' = [mem EXCEPT ![p] = f[p]]
  <2>1. mem' = [mem EXCEPT ![p] = mem[p] \o f[p]] BY DEF RecoverPartition
  <2>2. <<>> \o f[p] = f[p] BY <1>4
  <2> QED BY <1>6, <2>1, <2>2
<1>8. rcount' = [parts |-> rcount.parts + 1, rows |-> rcount.rows + Len(f[p])] /\ rtodo' = rtodo \ {p}
  BY DEF RecoverPartition
<1> HIDE DEF f
<1>9. Tallied(rcount', mem') BY <1>4, <1>5, <1>6, <1>7, <1>8, TallyAdd, Zenon
<1>10. \A q \in Parts : mem'[q] = IF q \in rtodo' THEN <<>> ELSE f[q] BY <1>4, <1>5, <1>7, <1>8 DEF Files
<1>11. rtodo' \subseteq Filled(f) BY <1>5, <1>8
<1>12. f = gens'[current'].file BY <1>3 DEF f
<1>13. Refilled' BY <1>9, <1>10, <1>11, <1>12 DEF Refilled
<1>14. Accepted' /\ Imaged' BY <1>1, <1>3 DEF RestartInv, Accepted, Imaged
<1> QED BY <1>2, <1>13, <1>14 DEF RestartInv

(* The recovery has the totals of the manifest: it counted the same file.  *)
LEMMA DoneRestart == ASSUME SnapshotInv, RestartInv, RecoverDone PROVE RestartInv'
<1>1. phase = "recover" /\ spc = "idle" /\ current \in Gens /\ rtodo = {}
  BY DEF RecoverDone, RestartInv, WorkInv, Busy, SnapshotInv, Recovering
<1>2. WorkInv' /\ PrefixConsistent' BY <1>1, IdleWork DEF RecoverDone, snapVars, diskVars
<1>3. UNCHANGED <<gens, current, image, queue, mem>> BY DEF RecoverDone, diskVars
<1>4. mem = gens[current].file
  <2>1. \A p \in Parts : mem[p] = gens[current].file[p] BY <1>1 DEF RestartInv, Refilled
  <2>2. mem \in Files /\ gens[current].file \in Files
    BY <1>1 DEF SnapshotInv, DiskInv, DiskTypes, Generation, MemoryTypes
  <2> QED BY <2>1, <2>2 DEF Files
<1>5. Tallied(rcount, mem) /\ Tallied(gens[current].manifest, gens[current].file)
  <2>1. gens[current].manifest.written BY <1>1, GenIsNat DEF SnapshotInv, DiskInv, Ready
  <2> QED BY <1>1, <2>1 DEF RestartInv, WorkInv, Refilled, Manifests
<1>6. rcount.parts = gens[current].manifest.parts /\ rcount.rows = gens[current].manifest.rows
  BY <1>4, <1>5 DEF Tallied
<1>7. phase' = "up" /\ ~refused'
  <2> DEFINE match == rcount.parts = gens[current].manifest.parts /\ rcount.rows = gens[current].manifest.rows
  <2>1. (phase' = IF match THEN "up" ELSE "down") /\ refused' = ~match BY DEF RecoverDone
  <2>2. match BY <1>6
  <2> HIDE DEF match
  <2>3. ~refused' BY <2>1, <2>2, Zenon
  <2> QED BY <2>1, <2>2, <2>3
<1>8. Refilled' /\ Accepted' BY <1>7 DEF Refilled, Accepted
<1>9. Imaged' BY <1>1, <1>3, <1>4, <1>7 DEF RestartInv, Imaged
<1> QED BY <1>2, <1>8, <1>9 DEF RestartInv

LEMMA ErrorRestart == ASSUME SnapshotInv, RestartInv, RecoverError PROVE RestartInv'
<1>1. phase = "recover" /\ spc = "idle" BY DEF RecoverError, RestartInv, WorkInv, Busy
<1>2. WorkInv' /\ PrefixConsistent' BY <1>1, IdleWork DEF RecoverError, snapVars, diskVars
<1>3. UNCHANGED <<gens, current, image, queue, refused>> /\ phase' = "down" BY DEF RecoverError, diskVars
<1> QED BY <1>1, <1>2, <1>3 DEF RestartInv, Refilled, Accepted, Imaged

LEMMA IngestRestart == ASSUME SnapshotInv, RestartInv, NEW p \in Parts, Ingest(p) PROVE RestartInv'
<1>1. phase = "up" /\ ~Final BY DEF Ingest, RestartInv, WorkInv, Quiet
<1>2. UNCHANGED <<phase, refused, mem, spc, sgen, stodo, scount, sok, gens, current>> /\ image' = NoImage
  BY DEF Ingest, snapVars, diskVars
<1>3. ~Final' BY <1>1, <1>2 DEF Final
<1>4. Quiet' /\ Mirrored' BY <1>3 DEF Quiet, Mirrored
<1>5. Busy' /\ Bare' /\ Through' /\ Outcome' BY <1>2 DEF RestartInv, WorkInv, Busy, Bare, Through, Outcome
<1>6. Fresh' /\ Manifests' /\ PrefixConsistent'
  BY <1>2 DEF RestartInv, WorkInv, Fresh, Manifests, PrefixConsistent
<1>7. Refilled' /\ Accepted' /\ Imaged' BY <1>1, <1>2 DEF RestartInv, Refilled, Accepted, Imaged
<1> QED BY <1>4, <1>5, <1>6, <1>7 DEF RestartInv, WorkInv

(* A row is appended behind what the snapshot in progress has copied.      *)
LEMMA DrainRestart == ASSUME SnapshotInv, RestartInv, Drain PROVE RestartInv'
<1>1. PICK t \in queue : queue' = queue \ {t} /\ mem' = [mem EXCEPT ![t[2]] = Append(@, t[1])]
  BY Zenon DEF Drain
<1>2. phase \in {"up", "stopping"} /\ queue # {}
  <2>1. queue # {} BY <1>1, Zenon
  <2> QED BY <2>1 DEF Drain
<1>3. ~Final /\ image = NoImage BY <1>2 DEF RestartInv, WorkInv, Quiet, Imaged
<1>4. UNCHANGED <<phase, refused, image, spc, sgen, stodo, scount, sok, gens, current>>
  BY DEF Drain, snapVars, diskVars
<1>5. ~Final' BY <1>3, <1>4 DEF Final
<1>6. Quiet' /\ Mirrored' BY <1>5 DEF Quiet, Mirrored
<1>7. Busy' /\ Bare' /\ Through' /\ Outcome' BY <1>4 DEF RestartInv, WorkInv, Busy, Bare, Through, Outcome
<1>8. Fresh' /\ Manifests' BY <1>4 DEF RestartInv, WorkInv, Fresh, Manifests
<1>9. ASSUME spc # "idle", NEW p \in Parts PROVE IsPrefix(gens[sgen].file[p], mem'[p])
  <2>1. sgen \in Gens /\ IsPrefix(gens[sgen].file[p], mem[p])
    BY <1>9 DEF RestartInv, WorkInv, Busy, PrefixConsistent
  <2>2. gens[sgen].file[p] \in Seq(Rows) BY <2>1 DEF SnapshotInv, DiskInv, DiskTypes, Generation, Files
  <2>3. mem \in Files /\ mem[p] \in Seq(Rows) BY DEF SnapshotInv, MemoryTypes, Files
  <2>4. t[1] \in Rows /\ t[2] \in Parts BY DEF SnapshotInv, MemoryTypes
  <2>5. mem'[p] = IF p = t[2] THEN Append(mem[p], t[1]) ELSE mem[p] BY <1>1, <2>3 DEF Files
  <2>6. IsPrefix(gens[sgen].file[p], Append(mem[p], t[1])) BY <2>1, <2>2, <2>3, <2>4, PrefixFacts
  <2> QED BY <2>1, <2>5, <2>6
<1>10. PrefixConsistent' BY <1>4, <1>9 DEF PrefixConsistent
<1>11. Refilled' /\ Accepted' /\ Imaged' BY <1>2, <1>3, <1>4 DEF RestartInv, Refilled, Accepted, Imaged
<1> QED BY <1>6, <1>7, <1>8, <1>10, <1>11 DEF RestartInv, WorkInv

LEMMA StopRestart == ASSUME SnapshotInv, RestartInv, Stop PROVE RestartInv'
<1>1. phase = "up" /\ phase' = "stopping" /\ ~Final BY DEF Stop, RestartInv, WorkInv, Quiet
<1>2. UNCHANGED <<refused, queue, mem, image, spc, sgen, stodo, scount, sok, gens, current>>
  BY DEF Stop, snapVars, diskVars
<1>3. ~Final' BY <1>1, <1>2 DEF Final
<1>4. Quiet' /\ Mirrored' BY <1>3 DEF Quiet, Mirrored
<1>5. Busy' /\ Bare' /\ Through' /\ Outcome' BY <1>1, <1>2 DEF RestartInv, WorkInv, Busy, Bare, Through, Outcome
<1>6. Fresh' /\ Manifests' /\ PrefixConsistent'
  BY <1>2 DEF RestartInv, WorkInv, Fresh, Manifests, PrefixConsistent
<1>7. Refilled' /\ Accepted' /\ Imaged' BY <1>1, <1>2 DEF RestartInv, Refilled, Accepted, Imaged
<1> QED BY <1>4, <1>5, <1>6, <1>7 DEF RestartInv, WorkInv

LEMMA BeginRestart == ASSUME SnapshotInv, RestartInv, BeginSnapshot PROVE RestartInv'
<1>1. PICK g \in Gens, S \in SUBSET Parts :
         /\ ~gens[g].dir /\ \A h \in Gens : gens[h].dir => h < g
         /\ g > current
         /\ {p \in Parts : mem[p] # <<>>} \subseteq S
         /\ gens' = [gens EXCEPT ![g].dir = TRUE]
         /\ sgen' = g /\ stodo' = S
  BY Zenon DEF BeginSnapshot
<1>2. /\ spc' = (IF phase = "up" THEN "write" ELSE "finalWrite") /\ scount' = Zero /\ sok' = FALSE
      /\ phase = "up" \/ (phase = "stopping" /\ queue = {})
      /\ UNCHANGED <<procVars, recVars, current>>
  BY Zenon DEF BeginSnapshot
<1>3. gens \in [Gens -> Generation] BY DEF SnapshotInv, DiskInv, DiskTypes
<1>4. gens[g] = NoDir BY <1>1 DEF RestartInv, WorkInv, Bare
<1>5. /\ gens'[g].dir /\ gens'[g].file = Empty /\ gens'[g].manifest = NoManifest
      /\ \A h \in Gens : h # g => gens'[h] = gens[h]
  BY <1>1, <1>3, <1>4 DEF NoDir, Generation
<1>6. spc' \in Writing /\ spc' \notin Publishing \cup Cleaning \cup Ended /\ UNCHANGED <<phase, queue, mem>>
  BY <1>2 DEF Writing, Publishing, Cleaning, Ended, procVars
<1>7. Refilled' /\ Accepted' /\ Imaged' BY <1>2, SnapshotFrame
<1>8. Busy' /\ Quiet' BY <1>1, <1>2, <1>6 DEF Busy, Quiet, Final
<1>9. Bare' BY <1>5 DEF RestartInv, WorkInv, Bare
<1>10. Fresh'
  <2>1. Tallied(scount', gens'[sgen'].file) BY <1>1, <1>2, <1>5, TallyEmpty
  <2>2. \A p \in stodo' : gens'[sgen'].file[p] = <<>> BY <1>1, <1>5 DEF Empty
  <2>3. ~gens'[sgen'].manifest.written BY <1>1, <1>5 DEF NoManifest
  <2> QED BY <2>1, <2>2, <2>3 DEF Fresh
<1>11. Through' /\ Outcome' BY <1>2, <1>6 DEF Through, Outcome
<1>12. Mirrored'
  <2>1. \A p \in Parts \ stodo' : mem'[p] = <<>> /\ gens'[sgen'].file[p] = <<>> BY <1>1, <1>5, <1>6 DEF Empty
  <2> QED BY <2>1 DEF Mirrored
<1>13. Manifests'
  <2> SUFFICES ASSUME NEW h \in Gens, gens'[h].manifest.written
               PROVE  Tallied(gens'[h].manifest, gens'[h].file) BY DEF Manifests
  <2>1. h # g BY <1>5 DEF NoManifest
  <2> QED BY <1>5, <2>1 DEF RestartInv, WorkInv, Manifests
<1>14. PrefixConsistent'
  <2>1. \A p \in Parts : gens'[sgen'].file[p] = <<>> /\ mem'[p] \in Seq(Rows)
    BY <1>1, <1>5, <1>6 DEF Empty, SnapshotInv, MemoryTypes, Files
  <2> QED BY <2>1, PrefixFacts DEF PrefixConsistent
<1> QED BY <1>7, <1>8, <1>9, <1>10, <1>11, <1>12, <1>13, <1>14 DEF RestartInv, WorkInv

LEMMA CopyRestart == ASSUME SnapshotInv, RestartInv, NEW p \in Parts, SnapPartition(p) PROVE RestartInv'
<1>1. /\ spc \in Writing /\ p \in stodo /\ stodo' = stodo \ {p}
      /\ UNCHANGED <<procVars, recVars, current, spc, sgen, sok>>
      /\ scount' = IF mem[p] = <<>> THEN scount
                     ELSE [parts |-> scount.parts + 1, rows |-> scount.rows + Len(mem[p])]
  BY DEF SnapPartition
<1>2. UNCHANGED <<phase, queue, mem>> BY <1>1 DEF procVars
<1>3. /\ phase \in {"up", "stopping"} /\ sgen \in Gens /\ gens[sgen].dir
  BY <1>1 DEF RestartInv, WorkInv, Busy, SnapshotInv, DiskInv, InWork, Writing
<1>4. gens \in [Gens -> Generation] /\ mem[p] \in Seq(Rows)
  BY DEF SnapshotInv, DiskInv, DiskTypes, MemoryTypes, Files
<1> DEFINE f == gens[sgen].file
           new == [f EXCEPT ![p] = mem[p]]
<1>5. f \in Files BY <1>3, <1>4 DEF Generation
<1>6. gens' = [gens EXCEPT ![sgen] = [gens[sgen] EXCEPT !.file = new]] BY <1>3, <1>4 DEF SnapPartition
<1>7. /\ gens'[sgen].file = new /\ gens'[sgen].manifest = gens[sgen].manifest /\ gens'[sgen].dir
      /\ \A h \in Gens : h # sgen => gens'[h] = gens[h]
  BY <1>3, <1>4, <1>6 DEF Generation
<1>8. /\ ~gens[sgen].manifest.written /\ \A q \in stodo : f[q] = <<>>
      /\ Tallied(scount, f)
  BY <1>1 DEF RestartInv, WorkInv, Fresh
<1>9. \A q \in Parts : new[q] = IF q = p THEN mem[p] ELSE f[q] BY <1>5 DEF Files
<1>10. Tallied(scount', new)
  <2>1. CASE mem[p] = <<>>
    <3>1. f[p] = mem[p] BY <1>1, <1>8, <2>1
    <3> HIDE DEF f
    <3>2. new = f BY <1>5, <3>1 DEF Files
    <3> QED BY <1>1, <1>8, <2>1, <3>2
  <2>2. CASE mem[p] # <<>>
    <3>1. f[p] = <<>> BY <1>1, <1>8
    <3>2. scount' = [parts |-> scount.parts + 1, rows |-> scount.rows + Len(mem[p])] BY <1>1, <2>2
    <3> HIDE DEF f
    <3> QED BY <1>4, <1>5, <1>8, <2>2, <3>1, <3>2, TallyAdd, Zenon
  <2> QED BY <2>1, <2>2
<1> HIDE DEF new
<1>11. Refilled' /\ Accepted' /\ Imaged' BY <1>1, <1>3, SnapshotFrame
<1>12. Busy' /\ Quiet' BY <1>1, <1>2 DEF RestartInv, WorkInv, Busy, Quiet, Final
<1>13. Bare' BY <1>7 DEF RestartInv, WorkInv, Bare
<1>14. Fresh'
  <2>1. \A q \in stodo' : gens'[sgen].file[q] = <<>>
    <3>1. stodo' \subseteq Parts BY <1>1 DEF SnapshotInv, DiskInv, DiskTypes
    <3> QED BY <1>1, <1>7, <1>8, <1>9, <3>1
  <2> QED BY <1>1, <1>7, <1>8, <1>10, <2>1 DEF Fresh
<1>15. Through' /\ Outcome' BY <1>1 DEF RestartInv, WorkInv, Through, Outcome, Writing, Publishing, Cleaning, Ended
<1>16. Mirrored'
  <2> SUFFICES ASSUME Final', NEW q \in Parts \ stodo' PROVE gens'[sgen].file[q] = mem[q]
    BY <1>1, <1>2 DEF Mirrored
  <2>1. Final /\ spc # "finalEnd" BY <1>1 DEF Final, Writing
  <2>2. CASE q = p BY <1>7, <1>9, <2>2
  <2>3. CASE q # p
    <3>1. f[q] = mem[q] BY <1>1, <2>1, <2>3 DEF RestartInv, WorkInv, Mirrored
    <3> QED BY <1>7, <1>9, <2>3, <3>1
  <2> QED BY <2>2, <2>3
<1>17. Manifests'
  <2> SUFFICES ASSUME NEW h \in Gens, gens'[h].manifest.written
               PROVE  Tallied(gens'[h].manifest, gens'[h].file) BY DEF Manifests
  <2>1. h # sgen BY <1>7, <1>8
  <2> QED BY <1>7, <2>1 DEF RestartInv, WorkInv, Manifests
<1>18. PrefixConsistent'
  <2>1. spc # "idle" BY <1>1 DEF Writing
  <2>2. \A q \in Parts : IsPrefix(f[q], mem[q]) BY <2>1 DEF RestartInv, PrefixConsistent
  <2>3. IsPrefix(mem[p], mem[p]) BY <1>4, PrefixFacts
  <2>4. \A q \in Parts : IsPrefix(gens'[sgen].file[q], mem[q])
    <3> SUFFICES ASSUME NEW q \in Parts PROVE IsPrefix(new[q], mem[q]) BY <1>7
    <3>1. CASE q = p BY <1>9, <2>3, <3>1
    <3>2. CASE q # p BY <1>9, <2>2, <3>2
    <3> QED BY <3>1, <3>2
  <2> QED BY <1>1, <1>2, <2>4 DEF PrefixConsistent
<1> QED BY <1>11, <1>12, <1>13, <1>14, <1>15, <1>16, <1>17, <1>18 DEF RestartInv, WorkInv

LEMMA CompleteRestart == ASSUME SnapshotInv, RestartInv, WriteComplete PROVE RestartInv'
<1>1. /\ spc \in Writing /\ stodo = {} /\ UNCHANGED <<procVars, recVars, current, sgen, stodo, scount, sok>>
  BY DEF WriteComplete
<1>2. UNCHANGED <<phase, queue, mem>> BY <1>1 DEF procVars
<1>3. phase \in {"up", "stopping"} /\ sgen \in Gens /\ gens[sgen].dir
  BY <1>1 DEF RestartInv, WorkInv, Busy, SnapshotInv, DiskInv, InWork, Writing
<1>4. /\ spc' \in Publishing /\ spc' \notin Writing \cup Cleaning \cup Ended \cup {"idle"}
      /\ Final' => Final /\ spc # "finalEnd"
  BY <1>1 DEF WriteComplete, To, Final, Writing, Publishing, Cleaning, Ended
<1> DEFINE m == [parts |-> scount.parts, rows |-> scount.rows, written |-> TRUE]
<1>5. gens \in [Gens -> Generation] BY DEF SnapshotInv, DiskInv, DiskTypes
<1>6. gens' = [gens EXCEPT ![sgen] = [gens[sgen] EXCEPT !.manifest = m]] BY <1>3, <1>5 DEF WriteComplete
<1>7. m.parts = scount.parts /\ m.rows = scount.rows OBVIOUS
<1> HIDE DEF m
<1>8. /\ gens'[sgen].file = gens[sgen].file /\ gens'[sgen].manifest = m /\ gens'[sgen].dir
      /\ \A h \in Gens : h # sgen => gens'[h] = gens[h]
  BY <1>3, <1>5, <1>6 DEF Generation
<1>9. Tallied(m, gens[sgen].file) BY <1>1, <1>7 DEF RestartInv, WorkInv, Fresh, Tallied
<1>10. Refilled' /\ Accepted' /\ Imaged' BY <1>1, <1>3, SnapshotFrame
<1>11. Busy' /\ Quiet' BY <1>1, <1>2, <1>3, <1>4 DEF RestartInv, WorkInv, Busy, Quiet
<1>12. Bare' BY <1>8 DEF RestartInv, WorkInv, Bare
<1>13. Fresh' /\ Through' BY <1>1, <1>4 DEF Fresh, Through
<1>14. Outcome' BY <1>1, <1>4 DEF RestartInv, WorkInv, Outcome
<1>15. Mirrored' BY <1>1, <1>2, <1>4, <1>8 DEF RestartInv, WorkInv, Mirrored
<1>16. Manifests' BY <1>8, <1>9 DEF RestartInv, WorkInv, Manifests
<1>17. PrefixConsistent'
  <2>1. spc # "idle" BY <1>1 DEF Writing
  <2> QED BY <1>1, <1>2, <1>8, <2>1 DEF RestartInv, PrefixConsistent
<1> QED BY <1>10, <1>11, <1>12, <1>13, <1>14, <1>15, <1>16, <1>17 DEF RestartInv, WorkInv

LEMMA FailRestart == ASSUME SnapshotInv, RestartInv, SnapFail PROVE RestartInv'
<1>1. /\ spc \in Writing \cup Publishing /\ gens' = [gens EXCEPT ![sgen] = NoDir]
      /\ UNCHANGED <<procVars, recVars, current, sgen, stodo, scount, sok>>
  BY DEF SnapFail, Publishing
<1>2. UNCHANGED <<phase, queue, mem>> BY <1>1 DEF procVars
<1>3. phase \in {"up", "stopping"} /\ sgen \in Gens /\ ~sok
  BY <1>1 DEF RestartInv, WorkInv, Busy, Outcome, Writing, Publishing
<1>4. /\ spc' \in Ended /\ spc' \notin Writing \cup Publishing \cup Cleaning \cup {"idle"}
      /\ Final' => Final /\ spc' = "finalEnd"
  BY <1>1 DEF SnapFail, To, Final, Writing, Publishing, Cleaning, Ended
<1>5. gens \in [Gens -> Generation] BY DEF SnapshotInv, DiskInv, DiskTypes
<1>6. gens'[sgen] = NoDir /\ \A h \in Gens : h # sgen => gens'[h] = gens[h] BY <1>1, <1>3, <1>5
<1>7. Refilled' /\ Accepted' /\ Imaged' BY <1>1, <1>3, SnapshotFrame
<1>8. Busy' /\ Quiet' BY <1>1, <1>2, <1>3, <1>4 DEF RestartInv, WorkInv, Busy, Quiet
<1>9. Bare' BY <1>6 DEF RestartInv, WorkInv, Bare
<1>10. Fresh' /\ Through' /\ Outcome' BY <1>1, <1>3, <1>4 DEF Fresh, Through, Outcome
<1>11. Mirrored' BY <1>1, <1>3, <1>4 DEF Mirrored
<1>12. ~NoDir.manifest.written BY DEF NoDir, NoManifest
<1>13. Manifests' BY <1>6, <1>12 DEF RestartInv, WorkInv, Manifests
<1>14. PrefixConsistent'
  <2>1. \A p \in Parts : gens'[sgen].file[p] = <<>> /\ mem[p] \in Seq(Rows)
    BY <1>6 DEF NoDir, Empty, SnapshotInv, MemoryTypes, Files
  <2> QED BY <1>1, <1>2, <2>1, PrefixFacts DEF PrefixConsistent
<1> QED BY <1>7, <1>8, <1>9, <1>10, <1>11, <1>13, <1>14 DEF RestartInv, WorkInv

LEMMA PublishRestart == ASSUME SnapshotInv, RestartInv, PublishCurrent PROVE RestartInv'
<1>1. spc \in Publishing /\ current' = sgen /\ UNCHANGED <<procVars, recVars, gens, sgen, stodo, scount, sok>>
  BY DEF PublishCurrent, Publishing
<1>2. UNCHANGED <<phase, queue, mem>> BY <1>1 DEF procVars
<1>3. phase \in {"up", "stopping"} /\ sgen \in Gens /\ spc # "idle" /\ stodo = {}
  BY <1>1 DEF RestartInv, WorkInv, Busy, Through, Publishing
<1>4. /\ spc' \in Cleaning /\ spc' \notin Writing \cup Publishing \cup Ended \cup {"idle"}
      /\ Final' => Final /\ spc # "finalEnd"
  BY <1>1 DEF PublishCurrent, To, Final, Writing, Publishing, Cleaning, Ended
<1>5. Refilled' /\ Accepted' /\ Imaged' BY <1>1, <1>3, SnapshotFrame
<1>6. Busy' /\ Quiet' BY <1>1, <1>2, <1>3, <1>4 DEF RestartInv, WorkInv, Busy, Quiet
<1>7. Bare' /\ Manifests' BY <1>1 DEF RestartInv, WorkInv, Bare, Manifests
<1>8. Fresh' /\ Through' /\ Outcome' BY <1>1, <1>3, <1>4 DEF Fresh, Through, Outcome
<1>9. Mirrored' BY <1>1, <1>2, <1>4 DEF RestartInv, WorkInv, Mirrored
<1>10. PrefixConsistent' BY <1>1, <1>2, <1>3 DEF RestartInv, PrefixConsistent
<1> QED BY <1>5, <1>6, <1>7, <1>8, <1>9, <1>10 DEF RestartInv, WorkInv

LEMMA CleanupRestart == ASSUME SnapshotInv, RestartInv, Cleanup PROVE RestartInv'
<1> DEFINE others == {g \in Gens : gens[g].dir} \ {sgen}
           keep == IF others = {} THEN {} ELSE {Max(others)}
<1>1. gens' = [g \in Gens |-> IF g \in others \ keep THEN NoDir ELSE gens[g]] BY DEF Cleanup
<1>2. sgen \notin others OBVIOUS
<1> HIDE DEF others, keep
<1>3. /\ spc \in Cleaning /\ sok' /\ UNCHANGED <<procVars, recVars, current, sgen, stodo, scount>>
  BY DEF Cleanup, Cleaning
<1>4. UNCHANGED <<phase, queue, mem>> BY <1>3 DEF procVars
<1>5. /\ phase \in {"up", "stopping"} /\ sgen \in Gens /\ spc # "idle" /\ stodo = {} /\ sgen = current
  BY <1>3 DEF RestartInv, WorkInv, Busy, Through, Cleaning, SnapshotInv, DiskInv, Published
<1>6. /\ spc' \in Ended /\ spc' \notin Writing \cup Publishing \cup Cleaning \cup {"idle"}
      /\ Final' => Final /\ spc # "finalEnd"
  BY <1>3 DEF Cleanup, To, Final, Writing, Publishing, Cleaning, Ended
<1>7. gens'[sgen] = gens[sgen] /\ \A h \in Gens : gens'[h] \in {gens[h], NoDir} BY <1>1, <1>2, <1>5
<1>8. Refilled' /\ Accepted' /\ Imaged' BY <1>3, <1>5, SnapshotFrame
<1>9. Busy' /\ Quiet' BY <1>3, <1>4, <1>5, <1>6 DEF RestartInv, WorkInv, Busy, Quiet
<1>10. Bare' BY <1>7 DEF RestartInv, WorkInv, Bare
<1>11. Fresh' /\ Through' /\ Outcome' BY <1>3, <1>5, <1>6 DEF Fresh, Through, Outcome
<1>12. Mirrored' BY <1>3, <1>4, <1>6, <1>7 DEF RestartInv, WorkInv, Mirrored
<1>13. ~NoDir.manifest.written BY DEF NoDir, NoManifest
<1>14. Manifests'
  <2> SUFFICES ASSUME NEW h \in Gens, gens'[h].manifest.written
               PROVE  Tallied(gens'[h].manifest, gens'[h].file) BY DEF Manifests
  <2>1. gens'[h] = gens[h] BY <1>7, <1>13
  <2> QED BY <2>1 DEF RestartInv, WorkInv, Manifests
<1>15. PrefixConsistent' BY <1>3, <1>4, <1>5, <1>7 DEF RestartInv, PrefixConsistent
<1> QED BY <1>8, <1>9, <1>10, <1>11, <1>12, <1>14, <1>15 DEF RestartInv, WorkInv

LEMMA EndRestart == ASSUME SnapshotInv, RestartInv, SnapEnd PROVE RestartInv'
<1>1. phase \in {"up", "stopping"} BY DEF SnapEnd, RestartInv, WorkInv, Busy
<1>2. Refilled' /\ Accepted' /\ Imaged' BY <1>1, SnapshotFrame DEF SnapEnd
<1>3. WorkInv' /\ PrefixConsistent' BY IdleWork DEF SnapEnd, diskVars
<1> QED BY <1>2, <1>3 DEF RestartInv

(* stop() that returns true leaves on disk what memory held: all partitions *)
(* are through, and the generation it wrote is the one CURRENT names.       *)
LEMMA ReturnRestart == ASSUME SnapshotInv, RestartInv, StopReturn PROVE RestartInv'
<1>1. /\ spc = "finalEnd" /\ phase' = "down" /\ image' = (IF sok THEN mem ELSE NoImage)
      /\ UNCHANGED <<refused, queue, gens, current>>
  BY DEF StopReturn, diskVars
<1>2. WorkInv' /\ PrefixConsistent' BY <1>1, IdleWork DEF StopReturn
<1>3. phase = "stopping" /\ queue = {} /\ sgen \in Gens
  BY <1>1 DEF RestartInv, WorkInv, Busy, Quiet, Final
<1>4. ~refused BY <1>3 DEF RestartInv, Accepted
<1>5. Refilled' /\ Accepted' BY <1>1, <1>4 DEF Refilled, Accepted
<1>6. CASE sok
  <2>1. stodo = {} /\ sgen = current
    BY <1>1, <1>6 DEF RestartInv, WorkInv, Through, Outcome, Ended
  <2>2. \A p \in Parts : gens[current].file[p] = mem[p]
    BY <1>1, <1>6, <2>1 DEF RestartInv, WorkInv, Mirrored, Final
  <2>3. gens[current].file \in Files /\ mem \in Files
    BY <1>3, <2>1 DEF SnapshotInv, DiskInv, DiskTypes, MemoryTypes, Generation
  <2>4. gens[current].file = mem BY <2>2, <2>3 DEF Files
  <2>5. Imaged' BY <1>1, <1>3, <1>6, <2>1, <2>4 DEF Imaged
  <2> QED BY <1>2, <1>5, <2>5 DEF RestartInv
<1>7. CASE ~sok
  <2>1. Imaged' BY <1>1, <1>7 DEF Imaged
  <2> QED BY <1>2, <1>5, <2>1 DEF RestartInv
<1> QED BY <1>6, <1>7

LEMMA ReturnFailedRestart == ASSUME SnapshotInv, RestartInv, StopReturnFailed PROVE RestartInv'
<1>1. /\ phase = "stopping" /\ phase' = "down" /\ image' = NoImage /\ spc' = "idle"
      /\ UNCHANGED <<refused, queue, gens, current>>
  BY DEF StopReturnFailed, snapVars, diskVars
<1>2. WorkInv' /\ PrefixConsistent' BY <1>1, IdleWork
<1>3. Refilled' /\ Accepted' /\ Imaged' BY <1>1 DEF RestartInv, Refilled, Accepted, Imaged
<1> QED BY <1>2, <1>3 DEF RestartInv

LEMMA CrashRestart == ASSUME SnapshotInv, RestartInv, Crash PROVE RestartInv'
<1>1. /\ phase # "down" /\ phase' = "down" /\ queue' = {} /\ spc' = "idle"
      /\ image' = (IF phase = "recover" THEN image ELSE NoImage)
      /\ UNCHANGED <<refused, gens, current>>
  BY DEF Crash, diskVars
<1>2. WorkInv' /\ PrefixConsistent' BY <1>1, IdleWork
<1>3. Refilled' /\ Accepted' BY <1>1 DEF RestartInv, Refilled, Accepted
<1>4. Imaged' BY <1>1 DEF RestartInv, Imaged
<1> QED BY <1>2, <1>3, <1>4 DEF RestartInv

LEMMA SameRestart == ASSUME RestartInv, UNCHANGED vars PROVE RestartInv'
<1>1. UNCHANGED <<phase, refused, queue, mem, image, spc, sgen, stodo, scount, sok, rtodo, rcount, gens, current>>
  BY DEF vars, procVars, snapVars, recVars, diskVars
<1>2. Busy' /\ Quiet' /\ Bare' /\ Through' /\ Outcome'
  BY <1>1 DEF RestartInv, WorkInv, Busy, Quiet, Final, Bare, Through, Outcome
<1>3. Fresh' /\ Mirrored' /\ Manifests' /\ PrefixConsistent'
  BY <1>1 DEF RestartInv, WorkInv, Fresh, Mirrored, Final, Manifests, PrefixConsistent
<1>4. Refilled' /\ Accepted' /\ Imaged' BY <1>1, Zenon DEF RestartInv, Refilled, Accepted, Imaged
<1> QED BY <1>2, <1>3, <1>4 DEF RestartInv, WorkInv

LEMMA NextRestart == ASSUME SnapshotInv, RestartInv, [Next]_vars PROVE RestartInv'
<1>1. CASE Start BY <1>1, StartRestart
<1>2. CASE \E p \in Parts : RecoverPartition(p) BY <1>2, RefillRestart
<1>3. CASE RecoverDone BY <1>3, DoneRestart
<1>4. CASE RecoverError BY <1>4, ErrorRestart
<1>5. CASE \E p \in Parts : Ingest(p) BY <1>5, IngestRestart
<1>6. CASE Drain BY <1>6, DrainRestart
<1>7. CASE Stop BY <1>7, StopRestart
<1>8. CASE SnapshotNext
  <2>1. CASE BeginSnapshot BY <2>1, BeginRestart
  <2>2. CASE \E p \in Parts : SnapPartition(p) BY <2>2, CopyRestart
  <2>3. CASE WriteComplete BY <2>3, CompleteRestart
  <2>4. CASE SnapFail BY <2>4, FailRestart
  <2>5. CASE PublishCurrent BY <2>5, PublishRestart
  <2>6. CASE Cleanup BY <2>6, CleanupRestart
  <2>7. CASE SnapEnd BY <2>7, EndRestart
  <2>8. CASE StopReturn BY <2>8, ReturnRestart
  <2>9. CASE StopReturnFailed BY <2>9, ReturnFailedRestart
  <2> QED BY <1>8, <2>1, <2>2, <2>3, <2>4, <2>5, <2>6, <2>7, <2>8, <2>9 DEF SnapshotNext
<1>9. CASE Crash BY <1>9, CrashRestart
<1>10. CASE UNCHANGED vars BY <1>10, SameRestart
<1> QED BY <1>1, <1>2, <1>3, <1>4, <1>5, <1>6, <1>7, <1>8, <1>9, <1>10 DEF Next

(* A restart after any run of start(), ingestion, do_snapshot, stop() and  *)
(* crashes finds a complete generation whose partitions are prefixes of    *)
(* what was in memory, start() accepts its totals, and after a stop() that *)
(* returned true memory is again what it was.                              *)
THEOREM RestartFindsAll == Spec => []SnapshotRecovers
<1>1. Spec => []RestartInv
  <2>1. SnapshotInv /\ RestartInv /\ [Next]_vars => RestartInv' BY NextRestart
  <2> QED BY InitRestart, SnapshotInvariant, <2>1, PTL DEF Spec
<1>2. SnapshotInv /\ RestartInv => SnapshotRecovers
  <2> SUFFICES ASSUME SnapshotInv, RestartInv PROVE SnapshotRecovers OBVIOUS
  <2>1. CurrentReady BY DEF SnapshotInv, DiskInv, Ready, CurrentReady, Resolve
  <2>2. PrefixConsistent /\ RecoveryAccepts BY DEF RestartInv, Accepted, RecoveryAccepts
  <2>3. GracefulRestart BY DEF RestartInv, Imaged, GracefulRestart
  <2> QED BY <2>1, <2>2, <2>3 DEF SnapshotRecovers
<1> QED BY SnapshotInvariant, <1>1, <1>2, PTL

=============================================================================
