--------------------------- MODULE SnapshotStore ---------------------------
(***************************************************************************)
(* RDB snapshots: publication of immutable generations by FlushManager,    *)
(* graceful shutdown, and recovery at the next start of the pipeline.      *)
(*                                                                         *)
(* A generation is a directory that do_snapshot fills partition by         *)
(* partition, completes with the _COMPLETE manifest and publishes by       *)
(* renaming CURRENT over the old one.  The process may die between any two *)
(* of these steps; what it wrote to files survives (a crash of the process,*)
(* not of the machine).  snapshot_mu_ makes snapshots mutually exclusive.  *)
(***************************************************************************)
EXTENDS Naturals, Sequences, FiniteSets, SequencesExt

CONSTANTS Parts,      \* partition keys
          MaxRows,    \* bound: rows ingested in a behaviour
          MaxGens,    \* bound: generations created in a behaviour
          MaxCrashes  \* bound: crashes in a behaviour

ASSUME SnapshotAssumption ==
    MaxRows \in Nat /\ MaxGens \in Nat /\ MaxCrashes \in Nat /\ IsFiniteSet(Parts)

VARIABLES phase,      \* the process: "down", "recover", "up", "stopping"
          refused,    \* start() threw "Snapshot recovery refused" or a count mismatch
          queue,      \* ingested ticks still in the TickPlant, as <<row, partition>>
          next_row,
          mem,        \* partition -> rows in the RDB
          gens,       \* generation -> directory contents
          current,    \* the generation CURRENT names, NoGen without the file
          spc, sgen, stodo, scount, sok,  \* do_snapshot: control, generation, partitions
                                          \* left, totals, outcome of the last one
          rtodo, rcount,                  \* recovery: partitions left, totals
          image,      \* memory at the last stop() that returned true, else NoImage
          prev,       \* the generation published before the current one
          crashes

procVars == <<phase, refused, queue, next_row, mem, image, crashes>>
snapVars == <<spc, sgen, stodo, scount, sok>>
recVars == <<rtodo, rcount>>
diskVars == <<gens, current, prev>>
vars == <<procVars, snapVars, recVars, diskVars>>

Gens == 1..MaxGens
NoGen == 0
NoImage == [p \in {} |-> <<>>]
NoManifest == [parts |-> 0, rows |-> 0, written |-> FALSE]
Empty == [p \in Parts |-> <<>>]
NoDir == [dir |-> FALSE, file |-> Empty, manifest |-> NoManifest]
Zero == [parts |-> 0, rows |-> 0]

Init ==
    /\ phase = "down" /\ refused = FALSE
    /\ queue = {} /\ next_row = 1 /\ mem = Empty
    /\ gens = [g \in Gens |-> NoDir] /\ current = NoGen /\ prev = NoGen
    /\ spc = "idle" /\ sgen = NoGen /\ stodo = {} /\ scount = Zero /\ sok = FALSE
    /\ rtodo = {} /\ rcount = Zero
    /\ image = NoImage /\ crashes = 0

-----------------------------------------------------------------------------
(* Recovery                                                                *)

\* resolve_snapshot.
Resolve ==
    IF current = NoGen
      THEN IF \E g \in Gens : gens[g].dir THEN "Invalid" ELSE "Missing"
      ELSE IF gens[current].dir /\ gens[current].manifest.written THEN "Ready" ELSE "Invalid"

Start ==
    /\ phase = "down"
    /\ mem' = Empty
    /\ rcount' = Zero
    /\ refused' = (Resolve = "Invalid")
    /\ phase' = CASE Resolve = "Missing" -> "up" [] Resolve = "Ready" -> "recover" [] OTHER -> "down"
    /\ rtodo' = IF Resolve = "Ready" THEN {p \in Parts : gens[current].file[p] # <<>>} ELSE {}
    /\ UNCHANGED <<queue, next_row, image, crashes, snapVars, diskVars>>

\* recover_partition replays the rows of one partition directory.
RecoverPartition(p) ==
    /\ phase = "recover"
    /\ p \in rtodo
    /\ rtodo' = rtodo \ {p}
    /\ mem' = [mem EXCEPT ![p] = @ \o gens[current].file[p]]
    /\ rcount' = [parts |-> rcount.parts + 1, rows |-> rcount.rows + Len(gens[current].file[p])]
    /\ UNCHANGED <<phase, refused, queue, next_row, image, crashes, snapVars, diskVars>>

\* The totals must match the manifest, otherwise start() throws and the server exits.
RecoverDone ==
    /\ phase = "recover" /\ rtodo = {}
    /\ LET m == gens[current].manifest
           match == rcount.parts = m.parts /\ rcount.rows = m.rows
       IN  /\ phase' = IF match THEN "up" ELSE "down"
           /\ refused' = ~match
    /\ UNCHANGED <<queue, next_row, mem, image, crashes, snapVars, recVars, diskVars>>

\* A column file cannot be read: the exception leaves start().
RecoverError ==
    /\ phase = "recover" /\ rtodo # {}
    /\ phase' = "down"
    /\ UNCHANGED <<refused, queue, next_row, mem, image, crashes, snapVars, recVars, diskVars>>

-----------------------------------------------------------------------------
(* Ingestion and shutdown                                                  *)

Ingest(p) ==
    /\ phase = "up"
    /\ next_row <= MaxRows
    /\ queue' = queue \cup {<<next_row, p>>}
    /\ next_row' = next_row + 1
    /\ image' = NoImage
    /\ UNCHANGED <<phase, refused, mem, crashes, snapVars, recVars, diskVars>>

\* A drain thread, or drain_sync in stop(), stores a tick.
Drain ==
    /\ phase \in {"up", "stopping"}
    /\ \E t \in queue :
         /\ queue' = queue \ {t}
         /\ mem' = [mem EXCEPT ![t[2]] = Append(@, t[1])]
    /\ UNCHANGED <<phase, refused, next_row, image, crashes, snapVars, recVars, diskVars>>

\* stop(): producers have been quiesced; the flush thread finishes its snapshot.
Stop ==
    /\ phase = "up"
    /\ phase' = "stopping"
    /\ UNCHANGED <<refused, queue, next_row, mem, image, crashes, snapVars, recVars, diskVars>>

-----------------------------------------------------------------------------
(* do_snapshot                                                             *)

\* The generation directory, and the pinned partitions; one that get_or_create
\* has just made is still empty.  In "final" the caller is stop().
BeginSnapshot ==
    /\ spc = "idle"
    /\ phase = "up" \/ (phase = "stopping" /\ queue = {})
    /\ \E g \in Gens, S \in SUBSET Parts :
         /\ ~gens[g].dir /\ \A h \in Gens : gens[h].dir => h < g
         /\ g > current
         /\ {p \in Parts : mem[p] # <<>>} \subseteq S
         /\ gens' = [gens EXCEPT ![g].dir = TRUE]
         /\ sgen' = g /\ stodo' = S
    /\ spc' = IF phase = "up" THEN "write" ELSE "finalWrite"
    /\ scount' = Zero /\ sok' = FALSE
    /\ UNCHANGED <<procVars, recVars, current, prev>>

Writing == {"write", "finalWrite"}
Final == spc \in {"finalWrite", "finalCurrent", "finalClean", "finalEnd"}
To(step) == spc' = IF Final THEN [write |-> "finalWrite", current |-> "finalCurrent",
                                  clean |-> "finalClean", end |-> "finalEnd"][step]
                            ELSE step

\* A bug: the rows are written to the published generation's directory.
SnapPartitionInPlace(p) ==
    /\ spc \in Writing
    /\ p \in stodo
    /\ stodo' = stodo \ {p}
    /\ gens' = [gens EXCEPT ![IF current # NoGen THEN current ELSE sgen].file[p] = mem[p]]
    /\ scount' = IF mem[p] = <<>> THEN scount
                   ELSE [parts |-> scount.parts + 1, rows |-> scount.rows + Len(mem[p])]
    /\ UNCHANGED <<procVars, recVars, current, prev, spc, sgen, sok>>

\* A bug: without the write lock a column is one append ahead of the others.
SnapPartitionUnlocked(p) ==
    /\ spc \in Writing
    /\ p \in stodo
    /\ stodo' = stodo \ {p}
    /\ gens' = [gens EXCEPT ![sgen].file[p] =
                  IF mem[p] = <<>> THEN <<>> ELSE Append(mem[p], Last(mem[p]))]
    /\ scount' = IF mem[p] = <<>> THEN scount
                   ELSE [parts |-> scount.parts + 1, rows |-> scount.rows + Len(mem[p]) + 1]
    /\ UNCHANGED <<procVars, recVars, current, prev, spc, sgen, sok>>

\* snapshot_partition_checked under the partition's write lock.
SnapPartition(p) ==
    /\ spc \in Writing
    /\ p \in stodo
    /\ stodo' = stodo \ {p}
    /\ gens' = [gens EXCEPT ![sgen].file[p] = mem[p]]
    /\ scount' = IF mem[p] = <<>> THEN scount
                   ELSE [parts |-> scount.parts + 1, rows |-> scount.rows + Len(mem[p])]
    /\ UNCHANGED <<procVars, recVars, current, prev, spc, sgen, sok>>

WriteComplete ==
    /\ spc \in Writing /\ stodo = {}
    /\ gens' = [gens EXCEPT ![sgen].manifest =
                  [parts |-> scount.parts, rows |-> scount.rows, written |-> TRUE]]
    /\ To("current")
    /\ UNCHANGED <<procVars, recVars, current, prev, sgen, stodo, scount, sok>>

\* A partition or a manifest could not be written: the generation is removed.
SnapFail ==
    /\ spc \in Writing \cup {"current", "finalCurrent"}
    /\ gens' = [gens EXCEPT ![sgen] = NoDir]
    /\ To("end")
    /\ UNCHANGED <<procVars, recVars, current, prev, sgen, stodo, scount, sok>>

PublishCurrent ==
    /\ spc \in {"current", "finalCurrent"}
    /\ current' = sgen
    /\ prev' = current
    /\ To("clean")
    /\ UNCHANGED <<procVars, recVars, gens, sgen, stodo, scount, sok>>

\* cleanup_old_generations keeps the current generation and the one other with
\* the greatest name; then last_snapshot_succeeded_ is set.
Cleanup ==
    /\ spc \in {"clean", "finalClean"}
    /\ LET others == {g \in Gens : gens[g].dir} \ {sgen}
           keep == IF others = {} THEN {} ELSE {Max(others)}
       IN  gens' = [g \in Gens |-> IF g \in others \ keep THEN NoDir ELSE gens[g]]
    /\ sok' = TRUE
    /\ To("end")
    /\ UNCHANGED <<procVars, recVars, current, prev, sgen, stodo, scount>>

SnapEnd ==
    /\ spc = "end"
    /\ spc' = "idle"
    /\ UNCHANGED <<procVars, recVars, diskVars, sgen, stodo, scount, sok>>

\* stop() returns last_snapshot_succeeded() and the process exits.
StopReturn ==
    /\ spc = "finalEnd"
    /\ spc' = "idle"
    /\ phase' = "down"
    /\ image' = IF sok THEN mem ELSE NoImage
    /\ mem' = Empty
    /\ UNCHANGED <<refused, queue, next_row, crashes, recVars, diskVars, sgen, stodo, scount, sok>>

\* create_directory failed in the final snapshot: stop() returns false.
StopReturnFailed ==
    /\ spc = "idle" /\ phase = "stopping" /\ queue = {}
    /\ phase' = "down"
    /\ image' = NoImage
    /\ mem' = Empty
    /\ UNCHANGED <<refused, queue, next_row, crashes, snapVars, recVars, diskVars>>

-----------------------------------------------------------------------------
Crash ==
    /\ crashes < MaxCrashes
    /\ phase # "down"
    /\ crashes' = crashes + 1
    /\ phase' = "down"
    /\ queue' = {} /\ mem' = Empty
    /\ image' = IF phase = "recover" THEN image ELSE NoImage
    /\ spc' = "idle" /\ sgen' = NoGen /\ stodo' = {} /\ scount' = Zero /\ sok' = FALSE
    /\ rtodo' = {} /\ rcount' = Zero
    /\ UNCHANGED <<refused, next_row, diskVars>>

SnapshotNext ==
    \/ BeginSnapshot
    \/ \E p \in Parts : SnapPartition(p)
    \/ WriteComplete
    \/ SnapFail
    \/ PublishCurrent
    \/ Cleanup
    \/ SnapEnd
    \/ StopReturn
    \/ StopReturnFailed

Next ==
    \/ Start
    \/ \E p \in Parts : RecoverPartition(p)
    \/ RecoverDone
    \/ RecoverError
    \/ \E p \in Parts : Ingest(p)
    \/ Drain
    \/ Stop
    \/ SnapshotNext
    \/ Crash

Spec == Init /\ [][Next]_vars

\* stop() runs its loops to the end; the flush thread completes a snapshot it began.
FairSpec == Spec /\ WF_vars(Drain) /\ WF_vars((phase = "stopping" \/ spc # "idle") /\ SnapshotNext)

-----------------------------------------------------------------------------
(* Properties                                                              *)

TypeOK ==
    /\ phase \in {"down", "recover", "up", "stopping"}
    /\ refused \in BOOLEAN /\ sok \in BOOLEAN
    /\ queue \subseteq (Nat \X Parts)
    /\ mem \in [Parts -> Seq(1..MaxRows)]
    /\ \A g \in Gens : gens[g].file \in [Parts -> Seq(1..MaxRows)]
    /\ {current, prev, sgen} \subseteq Gens \cup {NoGen}
    /\ spc \in {"idle", "write", "current", "clean", "end",
                "finalWrite", "finalCurrent", "finalClean", "finalEnd"}
    /\ stodo \subseteq Parts /\ rtodo \subseteq Parts

(* Once a generation is published, resolve_snapshot finds a complete one in *)
(* every later state: not a failed snapshot, not the cleanup, and no crash  *)
(* between two of their steps takes it away.                                *)
CurrentReady == current # NoGen => Resolve = "Ready"

(* A published generation is immutable: whatever happens, the directory     *)
(* CURRENT names keeps its contents as long as CURRENT names it.            *)
PublishedImmutable ==
    [][(current # NoGen /\ current' = current) => gens'[current] = gens[current]]_vars

(* A snapshot taken beside running ingestion is consistent per partition:   *)
(* what a generation holds of a partition is a prefix of its rows.          *)
PrefixConsistent ==
    spc # "idle" => \A p \in Parts : IsPrefix(gens[sgen].file[p], mem[p])

(* start() refuses recovery only while no generation has been published:    *)
(* the manifest totals always agree with the files (do_snapshot counts the  *)
(* non-empty partitions, recovery the directories).                         *)
RecoveryAccepts == current # NoGen => ~refused

(* stop() that returned true loses nothing: when the next start() completes *)
(* recovery, memory holds exactly the rows it held at that stop, each once. *)
GracefulRestart == (phase = "up" /\ image # NoImage) => mem = image

(* What a restart finds after a crash between any two steps: a complete    *)
(* generation, prefixes of the partitions in it, totals that agree, and    *)
(* after a stop() that returned true exactly what was there (do_snapshot,  *)
(* resolve_snapshot, ZeptoPipeline::start).                                 *)
SnapshotRecovers == CurrentReady /\ PrefixConsistent /\ RecoveryAccepts /\ GracefulRestart

(* stop() always returns, also when the periodic snapshot was in progress   *)
(* or the final one fails.                                                  *)
StopTerminates == []<>(phase # "stopping")

-----------------------------------------------------------------------------
(* What the documentation says and the code does not do                    *)

(* flush_manager.h:129: Missing means no generation has been published yet. *)
MissingUnlessPublished == (phase = "down" /\ current = NoGen) => Resolve = "Missing"

(* docs/design/layer1_storage_memory.md: "The previous generation is        *)
(* retained during cleanup."                                                *)
PreviousRetained == (current # NoGen /\ prev # NoGen) => gens[prev].dir
=============================================================================
