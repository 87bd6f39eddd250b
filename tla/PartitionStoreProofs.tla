------------------------ MODULE PartitionStoreProofs ------------------------
(***************************************************************************)
(* The store beside its flush thread is safe, for any writers, hours,      *)
(* objects and configurations.                                             *)
(*                                                                         *)
(* None of the parts of StoreSafe is inductive but the first.  That FLUSHED *)
(* rows are on disk needs that nobody appends to them afterwards: a        *)
(* partition leaves ACTIVE when its hour has passed (Passed), and a writer *)
(* without late rows appends to the present hour (Timely).  It also needs  *)
(* that no other object of the hour overwrites the file (OneObject), which *)
(* follows from evictions being of past hours only.  That nobody touches   *)
(* an evicted object needs that the flush thread, the only one to evict,   *)
(* holds none of them at that time (Untouched).                            *)
(***************************************************************************)
EXTENDS PartitionStore, TLAPS

USE SMTT(20), ZenonT(20)

Life == {"unused", "live", "freed"}
Partition == [hour : Hours, state : State, rows : SUBSET Nat, schema : BOOLEAN, life : Life]
InFlush == {"write", "warm", "cold", "commit", "commitWarm", "commitCold"}
Committing == {"commit", "commitWarm", "commitCold"}
ToFlush == {"flush", "write", "commit"}
FlushSteps == {"idle", "collect", "rebuild", "tierAll", "tier", "flush"} \cup InFlush

StoreTypes ==
    /\ stSetup \in StSetups
    /\ now \in Nat /\ store_row \in Nat
    /\ partitions \in [Hours -> Objects \cup {NoPart}]
    /\ obj \in [Objects -> Partition]
    /\ index \in [Objects -> Nat]
    /\ hdb \in [Hours -> SUBSET Nat]

WorkTypes ==
    /\ wpc \in [Writers -> {"idle", "append", "limit", "evict"}]
    /\ wptr \in [Writers -> Objects \cup {NoPart}]
    /\ wvictim \in [Writers -> Objects \cup {NoPart}]
    /\ fpc \in FlushSteps
    /\ fjob \subseteq Objects /\ fcur \in Objects \cup {NoPart}

(* An object nobody has asked for yet is as the constructor leaves it.     *)
Pristine == \A p \in Objects : obj[p].life = "unused" => ~obj[p].schema /\ obj[p].state = "ACTIVE"

(* What a writer holds is an object of the map, or was one.                *)
Held ==
    /\ \A w \in Writers : wpc[w] # "idle" => wptr[w] \in Objects /\ obj[wptr[w]].life # "unused"
    /\ \A w \in Writers : wpc[w] = "evict" => wvictim[w] \in Objects
    /\ \A w \in Writers : wpc[w] \in {"limit", "evict"} => stSetup.limit > 0

(* So is what the flush thread holds; and only a tiered store has one.     *)
Worked ==
    /\ fpc # "idle" => stSetup.tiered
    /\ fpc \in {"cold", "commitCold"} => stSetup.cold > 0
    /\ \A p \in fjob : obj[p].life # "unused"
    /\ fpc \in ToFlush => \A p \in fjob : obj[p].state # "ACTIVE"
    /\ fpc \in InFlush => fcur \in Objects /\ obj[fcur].life # "unused" /\ obj[fcur].state = "FLUSHING"

(* The hour of a partition that is no longer ACTIVE has passed, and without *)
(* late rows a writer appends to the hour it is.                            *)
Passed == \A p \in Objects : obj[p].state # "ACTIVE" => obj[p].hour < now
Timely == ~stSetup.late => \A w \in Writers : wpc[w] = "append" => obj[wptr[w]].hour = now

(* Without late rows and a memory limit an hour has one object for good.   *)
OneObject ==
    (~stSetup.late /\ stSetup.limit = 0) =>
        \A p, q \in Objects :
            obj[p].life # "unused" /\ obj[q].life # "unused" /\ obj[p].hour = obj[q].hour => p = q

(* A flush that reports bytes has written the rows there are.              *)
Written ==
    /\ ~stSetup.parquet => ~pq_files
    /\ ~stSetup.late /\ fpc \in Committing /\ fwrote => obj[fcur].rows \subseteq hdb[obj[fcur].hour]

(* Nobody holds what has been evicted.                                     *)
Calm == ~stSetup.late /\ ~stSetup.sql /\ stSetup.limit = 0
Untouched ==
    Calm => /\ \A w \in Writers : wpc[w] = "append" => obj[wptr[w]].life = "live"
            /\ \A p \in fjob : obj[p].life = "live"
            /\ fpc \in InFlush => obj[fcur].life = "live"

(* The objects with map, index and files, and the threads that work on them. *)
StoreSide ==
    /\ StoreTypes /\ MapConsistent /\ Pristine /\ IndexComplete
    /\ Passed /\ OneObject /\ FlushedOnDisk /\ ExpiredOnly
WorkSide == WorkTypes /\ Held /\ Worked /\ Timely /\ Written /\ Untouched /\ NoUseAfterEvict
StoreInv == StoreSide /\ WorkSide

-----------------------------------------------------------------------------
LEMMA SetupFacts ==
    ASSUME StoreTypes
    PROVE  /\ stSetup.limit \in Nat /\ stSetup.ttl \in Nat /\ stSetup.seal \in Nat
           /\ stSetup.warm \in Nat /\ stSetup.cold \in Nat /\ stSetup.drop \in Nat
           /\ stSetup.tiered => stSetup.limit = 0
<1>1. stSetup \in StSetupType /\ ~(stSetup.tiered /\ stSetup.limit > 0) BY SetupAssumption DEF StoreTypes
<1>2. /\ stSetup.limit \in Nat /\ stSetup.ttl \in Nat /\ stSetup.seal \in Nat
      /\ stSetup.warm \in Nat /\ stSetup.cold \in Nat /\ stSetup.drop \in Nat
  BY <1>1 DEF StSetupType
<1> QED BY <1>1, <1>2

LEMMA HourIsNat == Hours \subseteq Nat /\ Objects \subseteq Nat \ {0} /\ NoPart \notin Objects
BY BoundsAssumption DEF Hours, Objects, NoPart

LEMMA InitStore == StInit => StoreInv
<1> SUFFICES ASSUME StInit PROVE StoreInv OBVIOUS
<1>1. 0 \in Hours BY BoundsAssumption DEF Hours
<1>2. StoreTypes
  <2>1. obj \in [Objects -> Partition] BY <1>1 DEF StInit, Partition, State, Life
  <2> QED BY <2>1 DEF StInit, StoreTypes
<1>3. \A p \in Objects : obj[p].life = "unused" /\ obj[p].state = "ACTIVE" /\ ~obj[p].schema BY DEF StInit
<1>4. MapConsistent /\ Pristine /\ IndexComplete
  BY <1>3 DEF StInit, MapConsistent, Pristine, IndexComplete, Live
<1>5. Passed /\ OneObject /\ FlushedOnDisk /\ ExpiredOnly
  BY <1>3 DEF Passed, OneObject, FlushedOnDisk, ExpiredOnly, Live
<1>6. WorkTypes BY DEF StInit, WorkTypes, FlushSteps
<1>7. Held /\ Worked /\ Timely BY DEF StInit, Held, Worked, Timely, InFlush
<1>8. Written /\ Untouched /\ NoUseAfterEvict
  BY DEF StInit, Written, Committing, Untouched, InFlush, NoUseAfterEvict
<1> QED BY <1>2, <1>4, <1>5, <1>6, <1>7, <1>8 DEF StoreInv, StoreSide, WorkSide

(* A step of a thread that leaves the store alone.                         *)
LEMMA SameStore ==
    ASSUME StoreSide, UNCHANGED <<stSetup, now, store_row, partitions, obj, index, hdb>>
    PROVE  StoreSide'
<1>1. StoreTypes' /\ MapConsistent' /\ Pristine' /\ IndexComplete'
  BY DEF StoreSide, StoreTypes, MapConsistent, Pristine, IndexComplete, Live
<1>2. Passed' /\ OneObject' /\ FlushedOnDisk' /\ ExpiredOnly'
  BY DEF StoreSide, Passed, OneObject, FlushedOnDisk, ExpiredOnly, Live
<1> QED BY <1>1, <1>2 DEF StoreSide

-----------------------------------------------------------------------------
(* Evictions                                                               *)

(* What an eviction does: the partitions of S leave the map and are freed. *)
Evicts(S) ==
    /\ partitions' = [h \in Hours |-> IF partitions[h] \in S THEN NoPart ELSE partitions[h]]
    /\ obj' = [p \in Objects |-> IF p \in S THEN [obj[p] EXCEPT !.life = "freed"] ELSE obj[p]]

(* Nothing else of an object changes, and only a live one is freed.        *)
OnlyFreed(S) ==
    \A p \in Objects :
        /\ obj'[p].hour = obj[p].hour /\ obj'[p].state = obj[p].state
        /\ obj'[p].rows = obj[p].rows /\ obj'[p].schema = obj[p].schema
        /\ p \notin S => obj'[p].life = obj[p].life
        /\ p \in S => obj[p].life = "live" /\ obj'[p].life = "freed"

Expired(p) == \E age \in {stSetup.ttl, stSetup.drop} \ {0} : obj[p].hour + age <= now

LEMMA MappedIsLive ==
    ASSUME StoreTypes, MapConsistent, NEW p \in Mapped
    PROVE  p \in Objects /\ obj[p].life = "live" /\ partitions[obj[p].hour] = p /\ obj[p].hour \in Hours
<1>1. PICK h \in Hours : p = partitions[h] /\ p # NoPart BY DEF Mapped
<1>2. p \in Objects BY <1>1 DEF StoreTypes
<1>3. obj[p].life = "live" /\ obj[p].hour = h BY <1>1 DEF MapConsistent
<1> QED BY <1>1, <1>2, <1>3

LEMMA LiveIsMapped ==
    ASSUME StoreTypes, MapConsistent, NEW p \in Objects, obj[p].life = "live"
    PROVE  p \in Mapped
<1>1. partitions[obj[p].hour] = p /\ obj[p].hour \in Hours
  BY DEF MapConsistent, Live, StoreTypes, Partition
<1>2. p # NoPart BY HourIsNat
<1> QED BY <1>1, <1>2 DEF Mapped

LEMMA EvictsSet ==
    ASSUME StoreSide, NEW S \in SUBSET Mapped, Evicts(S),
           UNCHANGED <<stSetup, now, store_row, index, hdb>>,
           stSetup.limit = 0 => \A p \in S : Expired(p)
    PROVE  StoreSide' /\ OnlyFreed(S)
<1> USE DEF StoreSide
<1>1. \A p \in S : p \in Objects /\ obj[p].life = "live" /\ partitions[obj[p].hour] = p BY MappedIsLive
<1>2. obj \in [Objects -> Partition] BY DEF StoreTypes
<1>3. OnlyFreed(S)
  <2> SUFFICES ASSUME NEW p \in Objects
      PROVE /\ obj'[p].hour = obj[p].hour /\ obj'[p].state = obj[p].state
            /\ obj'[p].rows = obj[p].rows /\ obj'[p].schema = obj[p].schema
            /\ p \notin S => obj'[p].life = obj[p].life
            /\ p \in S => obj[p].life = "live" /\ obj'[p].life = "freed"
    BY DEF OnlyFreed
  <2>1. obj'[p] = IF p \in S THEN [obj[p] EXCEPT !.life = "freed"] ELSE obj[p] BY DEF Evicts
  <2> QED BY <1>1, <1>2, <2>1 DEF Partition
<1>4. StoreTypes'
  <2>1. \A p \in Objects : obj'[p] \in Partition BY <1>2 DEF Evicts, Partition, Life
  <2>2. obj' \in [Objects -> Partition] BY <2>1 DEF Evicts
  <2>3. partitions' \in [Hours -> Objects \cup {NoPart}] BY DEF Evicts, StoreTypes
  <2> QED BY <2>2, <2>3 DEF StoreTypes
<1>5. \A h \in Hours : partitions'[h] = IF partitions[h] \in S THEN NoPart ELSE partitions[h] BY DEF Evicts
<1>6. \A p \in Objects : obj'[p].life = "live" => obj[p].life = "live" /\ p \notin S BY <1>3 DEF OnlyFreed
<1>7. MapConsistent'
  <2>1. ASSUME NEW h \in Hours, partitions'[h] # NoPart
        PROVE  obj'[partitions'[h]].life = "live" /\ obj'[partitions'[h]].hour = h
    <3>1. partitions'[h] = partitions[h] /\ partitions[h] \notin S /\ partitions[h] \in Objects
      BY <1>5, <2>1 DEF StoreTypes
    <3>2. obj[partitions[h]].life = "live" /\ obj[partitions[h]].hour = h BY <2>1, <3>1 DEF MapConsistent
    <3> QED BY <1>3, <3>1, <3>2 DEF OnlyFreed
  <2>2. ASSUME NEW p \in Objects, obj'[p].life = "live" PROVE partitions'[obj'[p].hour] = p
    <3>1. obj[p].life = "live" /\ p \notin S BY <1>6, <2>2
    <3>2. partitions[obj[p].hour] = p /\ obj[p].hour \in Hours
      BY <3>1 DEF MapConsistent, Live, StoreTypes, Partition
    <3>3. obj'[p].hour = obj[p].hour BY <1>3 DEF OnlyFreed
    <3> QED BY <1>5, <3>1, <3>2, <3>3
  <2> QED BY <2>1, <2>2 DEF MapConsistent, Live
<1>8. Pristine' /\ Passed' BY <1>3 DEF OnlyFreed, Pristine, Passed
<1>9. IndexComplete' BY <1>3, <1>6 DEF OnlyFreed, IndexComplete, Live
<1>10. OneObject'
  <2>1. \A p \in Objects : obj'[p].life # "unused" => obj[p].life # "unused" BY <1>3 DEF OnlyFreed
  <2> QED BY <1>3, <2>1 DEF OnlyFreed, OneObject
<1>11. FlushedOnDisk' BY <1>3, <1>6 DEF OnlyFreed, FlushedOnDisk, Live
<1>12. ExpiredOnly'
  <2> SUFFICES ASSUME stSetup.limit = 0, NEW p \in Objects, obj'[p].life = "freed"
               PROVE  \E age \in {stSetup.ttl, stSetup.drop} \ {0} : obj'[p].hour + age <= now
    BY DEF ExpiredOnly
  <2>1. obj'[p].hour = obj[p].hour BY <1>3 DEF OnlyFreed
  <2>2. CASE p \in S BY <2>1, <2>2 DEF Expired
  <2>3. CASE p \notin S
    <3>1. obj[p].life = "freed" BY <1>3, <2>3 DEF OnlyFreed
    <3> QED BY <2>1, <3>1 DEF ExpiredOnly
  <2> QED BY <2>2, <2>3
<1> QED BY <1>3, <1>4, <1>7, <1>8, <1>9, <1>10, <1>11, <1>12

(* evict_older_than frees the mapped partitions of expired hours.          *)
LEMMA OlderEvicts ==
    ASSUME StoreTypes, MapConsistent, NEW age \in Nat, EvictOlder(age)
    PROVE  Evicts({p \in Mapped : obj[p].hour + age <= now})
<1> DEFINE S == {p \in Mapped : obj[p].hour + age <= now}
<1>1. \A h \in Hours : partitions[h] # NoPart => (partitions[h] \in S <=> h + age <= now)
  <2> SUFFICES ASSUME NEW h \in Hours, partitions[h] # NoPart PROVE partitions[h] \in S <=> h + age <= now
    OBVIOUS
  <2>1. obj[partitions[h]].hour = h BY DEF MapConsistent
  <2>2. partitions[h] \in Mapped BY DEF Mapped
  <2> QED BY <2>1, <2>2
<1>2. partitions' = [h \in Hours |-> IF partitions[h] \in S THEN NoPart ELSE partitions[h]]
  <2>1. \A h \in Hours : (IF h + age <= now THEN NoPart ELSE partitions[h])
                         = (IF partitions[h] \in S THEN NoPart ELSE partitions[h])
    <3>1. NoPart \notin S BY DEF Mapped
    <3> HIDE DEF S
    <3> QED BY <1>1, <3>1
  <2> HIDE DEF S
  <2> QED BY <2>1 DEF EvictOlder
<1>3. obj' = [p \in Objects |-> IF p \in S THEN [obj[p] EXCEPT !.life = "freed"] ELSE obj[p]]
  BY DEF EvictOlder
<1> QED BY <1>2, <1>3 DEF Evicts

(* evict_partition frees one partition, if the map still has it.           *)
LEMMA UnmapEvicts ==
    ASSUME StoreTypes, MapConsistent, NEW p \in Objects, Unmap(p)
    PROVE  Evicts({p} \cap Mapped)
<1>1. CASE p \in Mapped
  <2>1. {p} \cap Mapped = {p} BY <1>1
  <2>2. partitions' = [h \in Hours |-> IF partitions[h] \in {p} THEN NoPart ELSE partitions[h]]
    BY DEF Unmap
  <2>3. obj' = [obj EXCEPT ![p].life = "freed"] BY <1>1 DEF Unmap
  <2>4. obj' = [q \in Objects |-> IF q \in {p} THEN [obj[q] EXCEPT !.life = "freed"] ELSE obj[q]]
    BY <2>3, Zenon DEF StoreTypes
  <2>5. Evicts({p}) BY <2>2, <2>4 DEF Evicts
  <2> QED BY ONLY <2>1, <2>5
<1>2. CASE p \notin Mapped
  <2>1. {p} \cap Mapped = {} BY <1>2
  <2>2. p # NoPart BY HourIsNat
  <2>3. \A h \in Hours : partitions[h] # p BY <1>2, <2>2 DEF Mapped
  <2>4. partitions' = [h \in Hours |-> IF partitions[h] \in {} THEN NoPart ELSE partitions[h]]
    BY <2>3 DEF Unmap
  <2>5. obj' = [obj EXCEPT ![p].life = obj[p].life] BY <1>2 DEF Unmap
  <2>6. obj' = obj BY <2>5 DEF StoreTypes, Partition
  <2>7. obj' = [q \in Objects |-> IF q \in {} THEN [obj[q] EXCEPT !.life = "freed"] ELSE obj[q]]
    BY <2>6 DEF StoreTypes
  <2> QED BY <2>1, <2>4, <2>7 DEF Evicts
<1> QED BY <1>1, <1>2

-----------------------------------------------------------------------------
(* Writers                                                                 *)

LEMMA UseLive ==
    ASSUME NoUseAfterEvict, UNCHANGED stSetup, NEW p \in Objects, Used(p), Calm => obj[p].life # "freed"
    PROVE  NoUseAfterEvict'
<1> SUFFICES ASSUME Calm PROVE ~misuse' BY DEF NoUseAfterEvict, Calm
<1>1. ~misuse BY DEF NoUseAfterEvict, Calm
<1>2. misuse' = (misuse \/ obj[p].life = "freed") BY DEF Used
<1>3. obj[p].life # "freed" OBVIOUS
<1> QED BY <1>1, <1>2, <1>3, Zenon

LEMMA ReusePartition ==
    ASSUME StoreInv, NEW w \in Writers, NEW h \in Hours, GetOrCreate(w, h), partitions[h] # NoPart
    PROVE  StoreInv'
<1> USE DEF StoreInv, StoreSide, WorkSide
<1>1. /\ wpc[w] = "idle" /\ (stSetup.late \/ h = now)
      /\ wptr' = [wptr EXCEPT ![w] = partitions[h]]
      /\ UNCHANGED <<partitions, obj>>
      /\ wpc' = [wpc EXCEPT ![w] = "append"]
      /\ UNCHANGED <<stSetup, now, sqlpc, store_row, index, hdb, wvictim, flushVars, misuse>>
  BY DEF GetOrCreate
<1>2. StoreSide' BY <1>1, SameStore
<1>3. partitions[h] \in Objects /\ obj[partitions[h]].life = "live" /\ obj[partitions[h]].hour = h
  BY DEF StoreTypes, MapConsistent
<1>4. \A v \in Writers : v # w => wpc'[v] = wpc[v] /\ wptr'[v] = wptr[v] BY <1>1 DEF WorkTypes
<1>5. wpc'[w] = "append" /\ wptr'[w] = partitions[h] BY <1>1 DEF WorkTypes
<1>6. WorkTypes' BY <1>1, <1>3 DEF WorkTypes, flushVars
<1>7. Held' BY <1>1, <1>3, <1>4, <1>5 DEF Held
<1>8. Worked' /\ Written' BY <1>1 DEF Worked, Written, flushVars
<1>9. Timely' BY <1>1, <1>3, <1>4, <1>5 DEF Timely
<1>10. Untouched' BY <1>1, <1>3, <1>4, <1>5 DEF Untouched, Calm, flushVars
<1>11. NoUseAfterEvict' BY <1>1 DEF NoUseAfterEvict
<1> QED BY <1>2, <1>6, <1>7, <1>8, <1>9, <1>10, <1>11

LEMMA CreatePartition ==
    ASSUME StoreInv, NEW w \in Writers, NEW h \in Hours, GetOrCreate(w, h), partitions[h] = NoPart
    PROVE  StoreInv'
<1> USE DEF StoreInv, StoreSide, WorkSide
<1>1. PICK p \in Objects :
        /\ obj[p].life = "unused"
        /\ partitions' = [partitions EXCEPT ![h] = p]
        /\ obj' = [obj EXCEPT ![p].hour = h, ![p].life = "live"]
        /\ wptr' = [wptr EXCEPT ![w] = p]
  BY Zenon DEF GetOrCreate
<1>2. /\ wpc[w] = "idle" /\ (stSetup.late \/ h = now)
      /\ wpc' = [wpc EXCEPT ![w] = "append"]
      /\ UNCHANGED <<stSetup, now, sqlpc, store_row, index, hdb, wvictim, flushVars, misuse>>
  BY DEF GetOrCreate
<1>3. obj \in [Objects -> Partition] BY DEF StoreTypes
<1>4. \A q \in Objects : q # p => obj'[q] = obj[q] BY <1>1, <1>3
<1>5. /\ obj'[p].hour = h /\ obj'[p].life = "live" /\ obj'[p].state = obj[p].state
      /\ obj'[p].rows = obj[p].rows /\ obj'[p].schema = obj[p].schema
  BY <1>1, <1>3 DEF Partition
<1>6. ~obj[p].schema /\ obj[p].state = "ACTIVE" BY <1>1 DEF Pristine
<1>7. \A g \in Hours : partitions'[g] = IF g = h THEN p ELSE partitions[g] BY <1>1 DEF StoreTypes
<1>8. StoreTypes'
  <2>1. obj'[p] \in Partition BY <1>1, <1>3 DEF Partition, Life
  <2>2. obj' \in [Objects -> Partition] BY <1>1, <1>3, <2>1
  <2>3. partitions' \in [Hours -> Objects \cup {NoPart}] BY <1>1 DEF StoreTypes
  <2> QED BY <1>2, <2>2, <2>3 DEF StoreTypes
<1>9. MapConsistent'
  <2>1. ASSUME NEW g \in Hours, partitions'[g] # NoPart
        PROVE  obj'[partitions'[g]].life = "live" /\ obj'[partitions'[g]].hour = g
    <3>1. CASE g = h BY <1>5, <1>7, <3>1
    <3>2. CASE g # h
      <4>1. partitions'[g] = partitions[g] /\ partitions[g] \in Objects BY <1>7, <2>1, <3>2 DEF StoreTypes
      <4>2. obj[partitions[g]].life = "live" /\ obj[partitions[g]].hour = g BY <2>1, <4>1 DEF MapConsistent
      <4>3. partitions[g] # p BY <1>1, <4>2
      <4> QED BY <1>4, <4>1, <4>2, <4>3
    <3> QED BY <3>1, <3>2
  <2>2. ASSUME NEW q \in Objects, obj'[q].life = "live" PROVE partitions'[obj'[q].hour] = q
    <3>1. CASE q = p BY <1>5, <1>7, <3>1
    <3>2. CASE q # p
      <4>1. obj'[q] = obj[q] /\ obj[q].hour \in Hours BY <1>3, <1>4, <3>2 DEF Partition
      <4>2. partitions[obj[q].hour] = q BY <2>2, <4>1 DEF MapConsistent, Live
      <4>3. obj[q].hour # h BY <4>2, HourIsNat
      <4> QED BY <1>7, <4>1, <4>2, <4>3
    <3> QED BY <3>1, <3>2
  <2> QED BY <2>1, <2>2 DEF MapConsistent, Live
<1>10. Pristine' BY <1>4, <1>5 DEF Pristine
<1>11. IndexComplete' BY <1>2, <1>4, <1>5, <1>6 DEF IndexComplete, Live
<1>12. Passed' BY <1>2, <1>4, <1>5, <1>6 DEF Passed
<1>13. ExpiredOnly' BY <1>2, <1>4, <1>5 DEF ExpiredOnly
<1>14. FlushedOnDisk' BY <1>2, <1>4, <1>5, <1>6 DEF FlushedOnDisk, Live
<1>15. OneObject'
  <2> SUFFICES ASSUME ~stSetup.late, stSetup.limit = 0, NEW q \in Objects, NEW r \in Objects,
                      obj'[q].life # "unused", obj'[r].life # "unused", obj'[q].hour = obj'[r].hour
               PROVE  q = r
    BY <1>2 DEF OneObject
  <2>1. ASSUME NEW o \in Objects, o # p, obj[o].life # "unused" PROVE obj[o].hour # h
    <3>1. obj[o].life \in Life BY <1>3 DEF Partition
    <3>2. CASE obj[o].life = "live"
      <4>1. partitions[obj[o].hour] = o BY <3>2 DEF MapConsistent, Live
      <4> QED BY <4>1, HourIsNat
    <3>3. CASE obj[o].life = "freed"
      <4>1. PICK age \in {stSetup.ttl, stSetup.drop} \ {0} : obj[o].hour + age <= now BY <3>3 DEF ExpiredOnly
      <4>2. age \in Nat /\ age > 0 BY <4>1, SetupFacts
      <4>3. obj[o].hour \in Hours /\ now \in Nat BY <1>3 DEF Partition, StoreTypes
      <4>4. obj[o].hour \in Nat BY <4>3, HourIsNat, Zenon
      <4> QED BY <1>2, <4>1, <4>2, <4>3, <4>4
    <3> QED BY <2>1, <3>1, <3>2, <3>3 DEF Life
  <2>2. CASE q # p /\ r # p BY <1>4, <2>2 DEF OneObject
  <2>3. CASE q = p /\ r # p BY <1>4, <1>5, <2>1, <2>3
  <2>4. CASE q # p /\ r = p BY <1>4, <1>5, <2>1, <2>4
  <2> QED BY <2>2, <2>3, <2>4
<1>16. \A v \in Writers : v # w => wpc'[v] = wpc[v] /\ wptr'[v] = wptr[v] BY <1>1, <1>2 DEF WorkTypes
<1>17. wpc'[w] = "append" /\ wptr'[w] = p BY <1>1, <1>2 DEF WorkTypes
<1>18. WorkTypes' BY <1>1, <1>2 DEF WorkTypes, flushVars
<1>19. \A q \in Objects : obj[q].life # "unused" => obj'[q] = obj[q] BY <1>1, <1>4, Zenon
<1>20. Held' BY <1>2, <1>5, <1>16, <1>17, <1>19 DEF Held
<1>21. Worked' BY <1>2, <1>19 DEF Worked, flushVars, WorkTypes
<1>22. Timely'
  <2> SUFFICES ASSUME ~stSetup.late, NEW v \in Writers, wpc'[v] = "append" PROVE obj'[wptr'[v]].hour = now
    BY <1>2 DEF Timely
  <2>1. CASE v = w BY <1>2, <1>5, <1>17, <2>1
  <2>2. CASE v # w BY <1>16, <1>19, <2>2 DEF Timely, Held
  <2> QED BY <2>1, <2>2
<1>23. Written'
  <2>1. fpc \in Committing => obj'[fcur] = obj[fcur] BY <1>19 DEF Worked, Committing, InFlush
  <2> QED BY <1>2, <2>1 DEF Written, flushVars
<1>24. Untouched'
  <2> SUFFICES ASSUME Calm
               PROVE /\ \A v \in Writers : wpc'[v] = "append" => obj'[wptr'[v]].life = "live"
                     /\ \A q \in fjob : obj'[q].life = "live"
                     /\ fpc \in InFlush => obj'[fcur].life = "live"
    BY <1>2 DEF Untouched, Calm, flushVars
  <2>1. ASSUME NEW v \in Writers, wpc'[v] = "append" PROVE obj'[wptr'[v]].life = "live"
    <3>1. CASE v = w BY <1>5, <1>17, <3>1
    <3>2. CASE v # w BY <1>16, <1>19, <2>1, <3>2 DEF Untouched, Held
    <3> QED BY <3>1, <3>2
  <2>2. \A q \in fjob : obj'[q].life = "live" BY <1>19 DEF Untouched, WorkTypes
  <2>3. fpc \in InFlush => obj'[fcur].life = "live" BY <1>19 DEF Untouched, Worked
  <2> QED BY <2>1, <2>2, <2>3
<1>25. NoUseAfterEvict' BY <1>2 DEF NoUseAfterEvict
<1> QED BY <1>8, <1>9, <1>10, <1>11, <1>12, <1>13, <1>14, <1>15, <1>18, <1>20, <1>21, <1>22, <1>23, <1>24, <1>25

LEMMA SetTwice ==
    ASSUME NEW D, NEW R, NEW f \in [D -> R], NEW d \in D, NEW a, NEW b
    PROVE  /\ [f EXCEPT ![d] = a][d] = a
           /\ [[f EXCEPT ![d] = a] EXCEPT ![d] = b] = [x \in D |-> IF x = d THEN b ELSE f[x]]
<1> DEFINE e == [f EXCEPT ![d] = a]
<1>1. e = [x \in D |-> IF x = d THEN a ELSE f[x]] BY Zenon
<1>2. e[d] = a BY <1>1
<1> HIDE DEF e
<1>3. [e EXCEPT ![d] = b] = [x \in D |-> IF x = d THEN b ELSE e[x]] BY <1>1
<1>4. \A x \in D : (IF x = d THEN b ELSE e[x]) = (IF x = d THEN b ELSE f[x]) BY <1>1
<1>5. [x \in D |-> IF x = d THEN b ELSE e[x]] = [x \in D |-> IF x = d THEN b ELSE f[x]] BY <1>4
<1> QED BY <1>2, <1>3, <1>5, Zenon DEF e

LEMMA SchemaSet ==
    ASSUME NEW g \in Partition
    PROVE  LET f == [g EXCEPT !.schema = TRUE] IN
           /\ f \in Partition /\ f.schema = TRUE
           /\ f.hour = g.hour /\ f.life = g.life /\ f.state = g.state /\ f.rows = g.rows
<1> DEFINE f == [g EXCEPT !.schema = TRUE]
<1>1. f.hour = g.hour /\ f.life = g.life /\ f.state = g.state /\ f.rows = g.rows BY DEF Partition
<1>2. f.schema = TRUE BY DEF Partition
<1>3. f \in Partition
  <2>1. \A b \in BOOLEAN : [g EXCEPT !.schema = b] \in Partition BY DEF Partition
  <2> QED BY <2>1, Zenon
<1> QED BY <1>1, <1>2, <1>3

LEMMA RowsSet ==
    ASSUME NEW o \in Partition, NEW rows \in SUBSET Nat
    PROVE  LET g == [o EXCEPT !.rows = rows] IN
           /\ g \in Partition /\ g.rows = rows
           /\ g.hour = o.hour /\ g.life = o.life /\ g.state = o.state
BY DEF Partition

LEMMA AppendKeeps ==
    ASSUME StoreInv, NEW w \in Writers, AppendRow(w)
    PROVE  StoreInv'
<1> USE DEF StoreInv, StoreSide, WorkSide
<1> DEFINE p == wptr[w]
           rows == obj[p].rows \cup {store_row}
           g == [obj[p] EXCEPT !.rows = rows]
           f == [g EXCEPT !.schema = TRUE]
<1>1. /\ wpc[w] = "append" /\ store_row' = store_row + 1 /\ Used(p)
      /\ UNCHANGED <<stSetup, now, sqlpc, partitions, hdb, wptr, wvictim, flushVars>>
  BY DEF AppendRow
<1>2. p \in Objects /\ obj[p].life # "unused" BY <1>1 DEF Held
<1>3. obj \in [Objects -> Partition] BY DEF StoreTypes
<1>a. obj' = [q \in Objects |-> IF q = p THEN f ELSE obj[q]]
  <2> DEFINE k == [[obj EXCEPT ![p] = g][p] EXCEPT !.schema = TRUE]
  <2>1. obj' = [[obj EXCEPT ![p] = g] EXCEPT ![p] = k] BY DEF AppendRow
  <2> HIDE DEF g
  <2>2. [obj EXCEPT ![p] = g][p] = g BY <1>2, <1>3, SetTwice, Zenon
  <2>3. k = f BY <2>2, Zenon
  <2> HIDE DEF f, k
  <2>4. [[obj EXCEPT ![p] = g] EXCEPT ![p] = k] = [q \in Objects |-> IF q = p THEN k ELSE obj[q]]
    BY <1>2, <1>3, SetTwice, Zenon
  <2> QED BY <2>1, <2>3, <2>4, Zenon
<1>b. index' = [index EXCEPT ![p] = IF obj[p].schema THEN @ ELSE @ + 1] BY DEF AppendRow
<1>c. wpc' = [wpc EXCEPT ![w] = IF stSetup.limit > 0 THEN "limit" ELSE "idle"] BY DEF AppendRow
<1>d. rows \in SUBSET Nat BY <1>2, <1>3 DEF Partition, StoreTypes
<1> HIDE DEF rows
<1>e. /\ g.hour = obj[p].hour /\ g.life = obj[p].life /\ g.state = obj[p].state /\ g.rows = rows
      /\ g \in Partition
  BY <1>2, <1>3, <1>d, RowsSet
<1> HIDE DEF g
<1>f. /\ f.hour = g.hour /\ f.life = g.life /\ f.state = g.state /\ f.rows = g.rows /\ f.schema
      /\ f \in Partition
  BY <1>e, SchemaSet
<1> HIDE DEF p, f
<1>4. \A q \in Objects : q # p => obj'[q] = obj[q] BY <1>a
<1>5. /\ obj'[p].hour = obj[p].hour /\ obj'[p].life = obj[p].life /\ obj'[p].state = obj[p].state
      /\ obj'[p].rows = obj[p].rows \cup {store_row} /\ obj'[p].schema
  BY <1>2, <1>a, <1>e, <1>f DEF rows
<1>6. \A q \in Objects : obj'[q].hour = obj[q].hour /\ obj'[q].life = obj[q].life /\ obj'[q].state = obj[q].state
  BY <1>4, <1>5
<1>7. StoreTypes'
  <2>1. obj' \in [Objects -> Partition] BY <1>2, <1>3, <1>a, <1>f
  <2>2. index' \in [Objects -> Nat] BY <1>2, <1>b DEF StoreTypes
  <2>3. store_row' \in Nat BY <1>1 DEF StoreTypes
  <2> QED BY <1>1, <2>1, <2>2, <2>3 DEF StoreTypes
<1>8. MapConsistent'
  <2>1. Live' = Live BY <1>6 DEF Live
  <2>2. \A h \in Hours : partitions[h] # NoPart => partitions[h] \in Objects BY DEF StoreTypes
  <2> QED BY <1>1, <1>6, <2>1, <2>2 DEF MapConsistent, Live
<1>9. Pristine' BY <1>2, <1>4, <1>5 DEF Pristine
<1>10. IndexComplete'
  <2> SUFFICES ASSUME NEW q \in Objects, obj'[q].life = "live", obj'[q].schema PROVE index'[q] > 0
    BY DEF IndexComplete, Live
  <2>1. obj[q].life = "live" BY <1>6
  <2>2. index[q] \in Nat /\ (obj[q].schema => index[q] > 0) BY <2>1 DEF StoreTypes, IndexComplete, Live
  <2>3. CASE q = p
    <3>1. index'[q] = IF obj[q].schema THEN index[q] ELSE index[q] + 1 BY <1>b, <2>3 DEF StoreTypes
    <3> QED BY <2>2, <3>1
  <2>4. CASE q # p
    <3>1. index'[q] = index[q] BY <1>b, <2>4 DEF StoreTypes
    <3> QED BY <1>4, <2>2, <2>4, <3>1
  <2> QED BY <2>3, <2>4
<1>11. Passed' /\ OneObject' BY <1>1, <1>6 DEF Passed, OneObject
<1>12. ExpiredOnly' BY <1>1, <1>6 DEF ExpiredOnly
<1>13. ASSUME ~stSetup.late PROVE obj[p].state = "ACTIVE"
  <2>1. obj[p].hour = now BY <1>1, <1>13 DEF Timely, p
  <2>2. obj[p].hour \in Hours /\ now \in Nat BY <1>2, <1>3 DEF Partition, StoreTypes
  <2>3. ~(obj[p].hour < now) BY <2>1, <2>2
  <2> QED BY <1>2, <2>3 DEF Passed
<1>14. FlushedOnDisk' BY <1>1, <1>4, <1>6, <1>13 DEF FlushedOnDisk, Live
<1>15. \A v \in Writers : wpc'[v] = IF v = w THEN (IF stSetup.limit > 0 THEN "limit" ELSE "idle") ELSE wpc[v]
  BY <1>c DEF WorkTypes
<1>16. WorkTypes' BY <1>1, <1>c DEF WorkTypes, flushVars
<1>17. Held'
  <2>1. \A v \in Writers : wpc'[v] # "idle" => wpc[v] # "idle" BY <1>1, <1>15
  <2>2. \A v \in Writers : wpc'[v] = "evict" => wpc[v] = "evict" BY <1>15
  <2>3. \A v \in Writers : wpc'[v] \in {"limit", "evict"} => stSetup.limit > 0 BY <1>15 DEF Held
  <2> QED BY <1>1, <1>6, <2>1, <2>2, <2>3 DEF Held
<1>18. Worked' BY <1>1, <1>6 DEF Worked, flushVars, WorkTypes
<1>19. \A v \in Writers : wpc'[v] = "append" => wpc[v] = "append" /\ wptr'[v] = wptr[v] /\ wptr[v] \in Objects
  BY <1>1, <1>15 DEF Held
<1>20. Timely' BY <1>1, <1>6, <1>19 DEF Timely
<1>21. Written'
  <2>1. ASSUME ~stSetup.late, fpc \in Committing PROVE obj'[fcur] = obj[fcur]
    <3>1. fcur \in Objects /\ obj[fcur].state = "FLUSHING" BY <2>1 DEF Worked, Committing, InFlush
    <3> QED BY <1>4, <1>13, <2>1, <3>1
  <2> QED BY <1>1, <2>1 DEF Written, flushVars
<1>22. Untouched' BY <1>1, <1>6, <1>19 DEF Untouched, Calm, flushVars, WorkTypes, Worked
<1>23. NoUseAfterEvict'
  <2>1. Calm => obj[p].life # "freed" BY <1>1 DEF Untouched, p
  <2> QED BY <1>1, <1>2, <2>1, UseLive
<1> QED BY <1>7, <1>8, <1>9, <1>10, <1>11, <1>12, <1>14, <1>16, <1>17, <1>18, <1>20, <1>21, <1>22, <1>23

LEMMA LimitCheckKeeps ==
    ASSUME StoreInv, NEW w \in Writers, LimitCheck(w)
    PROVE  StoreInv'
<1> USE DEF StoreInv, StoreSide, WorkSide
<1>1. wpc[w] = "limit" /\ UNCHANGED <<stSetup, now, sqlpc, store_row, storeVars, hdb, wptr, flushVars, misuse>>
  BY DEF LimitCheck
<1>2. PICK pc \in {"idle", "evict"}, p \in Mapped \cup {wvictim[w]} :
        /\ wpc' = [wpc EXCEPT ![w] = pc]
        /\ wvictim' = [wvictim EXCEPT ![w] = p]
        /\ pc = "evict" => p \in Mapped
  <2>1. wvictim = [wvictim EXCEPT ![w] = wvictim[w]] BY DEF WorkTypes
  <2>2. \/ wpc' = [wpc EXCEPT ![w] = "idle"] /\ wvictim' = wvictim
        \/ \E p \in Mapped : wpc' = [wpc EXCEPT ![w] = "evict"] /\ wvictim' = [wvictim EXCEPT ![w] = p]
    BY Zenon DEF LimitCheck
  <2> QED BY <2>1, <2>2
<1>3. StoreSide' BY <1>1, SameStore DEF storeVars
<1>4. \A v \in Writers : wpc'[v] = IF v = w THEN pc ELSE wpc[v] BY <1>2 DEF WorkTypes
<1>5. \A v \in Writers : wvictim'[v] = IF v = w THEN p ELSE wvictim[v] BY <1>2 DEF WorkTypes
<1>6. Mapped \subseteq Objects BY MappedIsLive
<1>7. WorkTypes' BY <1>1, <1>2, <1>6 DEF WorkTypes, flushVars
<1>8. Held'
  <2>1. \A v \in Writers : wpc'[v] # "idle" => wpc[v] # "idle" BY <1>1, <1>4
  <2>2. \A v \in Writers : wpc'[v] = "evict" => wvictim'[v] \in Objects BY <1>2, <1>4, <1>5, <1>6 DEF Held
  <2>3. \A v \in Writers : wpc'[v] \in {"limit", "evict"} => stSetup.limit > 0 BY <1>1, <1>4 DEF Held
  <2> QED BY <1>1, <2>1, <2>2, <2>3 DEF Held, storeVars
<1>9. Worked' /\ Written' BY <1>1 DEF Worked, Written, flushVars, storeVars
<1>10. \A v \in Writers : wpc'[v] = "append" => wpc[v] = "append" BY <1>4
<1>11. Timely' /\ Untouched' BY <1>1, <1>10 DEF Timely, Untouched, Calm, flushVars, storeVars
<1>12. NoUseAfterEvict' BY <1>1 DEF NoUseAfterEvict
<1> QED BY <1>3, <1>7, <1>8, <1>9, <1>11, <1>12

(* What an eviction leaves of the threads' facts: those about hours, states *)
(* and rows, and that what is held was once handed out.                    *)
LEMMA EvictsWork ==
    ASSUME StoreInv, NEW S, OnlyFreed(S),
           UNCHANGED <<stSetup, now, hdb, wptr, wvictim, pq_files, fcur, fwrote>>,
           \A v \in Writers : wpc'[v] \in {wpc[v], "idle"},
           fjob' \subseteq fjob
    PROVE  /\ Held' /\ Timely'
           /\ \A q \in fjob' : obj'[q].life # "unused" /\ obj'[q].state = obj[q].state
           /\ fcur \in Objects => (obj'[fcur].life = "unused" <=> obj[fcur].life = "unused")
                                  /\ obj'[fcur].state = obj[fcur].state
           /\ fpc' = fpc => Written'
<1> USE DEF StoreInv, WorkSide
<1>1. \A q \in Objects : (obj'[q].life = "unused" <=> obj[q].life = "unused")
                         /\ obj'[q].hour = obj[q].hour /\ obj'[q].state = obj[q].state /\ obj'[q].rows = obj[q].rows
  BY DEF OnlyFreed
<1>2. \A v \in Writers : wpc'[v] # "idle" => wpc'[v] = wpc[v] OBVIOUS
<1>3. Held' BY <1>1, <1>2 DEF Held
<1>4. Timely'
  <2>1. \A v \in Writers : wpc'[v] = "append" => wpc[v] = "append" BY <1>2
  <2> QED BY <1>1, <2>1 DEF Timely, Held
<1>5. \A q \in fjob' : obj'[q].life # "unused" /\ obj'[q].state = obj[q].state BY <1>1 DEF Worked, WorkTypes
<1>6. fpc' = fpc => Written' BY <1>1 DEF Written, Worked, Committing, InFlush
<1> QED BY <1>1, <1>3, <1>4, <1>5, <1>6

LEMMA LimitEvictKeeps ==
    ASSUME StoreInv, NEW w \in Writers, LimitEvict(w)
    PROVE  StoreInv'
<1> USE DEF StoreInv, WorkSide
<1> DEFINE S == {wvictim[w]} \cap Mapped
<1>1. /\ wpc[w] = "evict" /\ Unmap(wvictim[w]) /\ wpc' = [wpc EXCEPT ![w] = "idle"]
      /\ UNCHANGED <<stSetup, now, sqlpc, store_row, index, hdb, wptr, wvictim, flushVars, misuse>>
  BY DEF LimitEvict
<1>2. wvictim[w] \in Objects /\ stSetup.limit > 0 BY <1>1 DEF Held
<1>3. stSetup.limit # 0 BY <1>2
<1>4. Evicts(S) BY <1>1, <1>2, UnmapEvicts DEF StoreSide
<1>5. S \in SUBSET Mapped OBVIOUS
<1> HIDE DEF S
<1>6. StoreSide' /\ OnlyFreed(S) BY <1>1, <1>3, <1>4, <1>5, EvictsSet
<1>7. \A v \in Writers : wpc'[v] \in {wpc[v], "idle"} BY <1>1 DEF WorkTypes
<1>8. /\ Held' /\ Timely' /\ Written'
      /\ \A q \in fjob' : obj'[q].life # "unused" /\ obj'[q].state = obj[q].state
      /\ fcur \in Objects => (obj'[fcur].life = "unused" <=> obj[fcur].life = "unused")
                             /\ obj'[fcur].state = obj[fcur].state
  <2>1. UNCHANGED <<stSetup, now, hdb, wptr, wvictim, pq_files, fcur, fwrote>> /\ fpc' = fpc /\ fjob' \subseteq fjob
    BY <1>1 DEF flushVars
  <2> QED BY <1>6, <1>7, <2>1, EvictsWork
<1>9. WorkTypes' BY <1>1 DEF WorkTypes, flushVars
<1>10. Worked' BY <1>1, <1>8 DEF Worked, flushVars
<1>11. Untouched' /\ NoUseAfterEvict' BY <1>1, <1>3 DEF Untouched, Calm, NoUseAfterEvict
<1> QED BY <1>6, <1>8, <1>9, <1>10, <1>11

-----------------------------------------------------------------------------
(* The flush thread                                                        *)

(* What a change of states does: s is the new state of the objects of S.   *)
Marks(S, s) == obj' = [p \in Objects |-> IF p \in S THEN [obj[p] EXCEPT !.state = s] ELSE obj[p]]

LEMMA MarksSet ==
    ASSUME StoreSide, NEW S \in SUBSET Objects, NEW s \in State, Marks(S, s),
           UNCHANGED <<stSetup, now, store_row, partitions, index, hdb>>,
           \A p \in S : obj[p].life # "unused" /\ obj[p].hour < now,
           (s = "FLUSHED" /\ ~stSetup.late /\ ~stSetup.parquet /\ stSetup.cold = 0) =>
               \A p \in S : obj[p].rows \subseteq hdb[obj[p].hour]
    PROVE  /\ StoreSide'
           /\ \A p \in Objects : /\ obj'[p].hour = obj[p].hour /\ obj'[p].life = obj[p].life
                                 /\ obj'[p].rows = obj[p].rows
                                 /\ obj'[p].state = IF p \in S THEN s ELSE obj[p].state
<1> USE DEF StoreSide
<1>1. obj \in [Objects -> Partition] BY DEF StoreTypes
<1>2. ASSUME NEW p \in Objects
      PROVE  /\ obj'[p].hour = obj[p].hour /\ obj'[p].life = obj[p].life
             /\ obj'[p].rows = obj[p].rows /\ obj'[p].schema = obj[p].schema
             /\ obj'[p].state = IF p \in S THEN s ELSE obj[p].state
  <2>1. obj'[p] = IF p \in S THEN [obj[p] EXCEPT !.state = s] ELSE obj[p] BY DEF Marks
  <2> QED BY <1>1, <2>1 DEF Partition
<1>3. StoreTypes'
  <2>1. \A p \in Objects : obj'[p] \in Partition BY <1>1 DEF Marks, Partition
  <2>2. obj' \in [Objects -> Partition] BY <2>1 DEF Marks
  <2> QED BY <2>2 DEF StoreTypes
<1>4. Live' = Live BY <1>2 DEF Live
<1>5. \A h \in Hours : partitions[h] # NoPart => partitions[h] \in Objects BY DEF StoreTypes
<1>6. MapConsistent' BY <1>2, <1>4, <1>5 DEF MapConsistent, Live
<1>7. Pristine' /\ Passed' BY <1>2 DEF Pristine, Passed
<1>8. IndexComplete' BY <1>2, <1>4 DEF IndexComplete, Live
<1>9. OneObject' /\ ExpiredOnly' BY <1>2 DEF OneObject, ExpiredOnly
<1>10. FlushedOnDisk' BY <1>2, <1>4 DEF FlushedOnDisk, Live
<1> QED BY <1>2, <1>3, <1>6, <1>7, <1>8, <1>9, <1>10

LEMMA MarkOne ==
    ASSUME StoreTypes, NEW p \in Objects, NEW s, obj' = [obj EXCEPT ![p].state = s]
    PROVE  Marks({p}, s)
<1>1. obj \in [Objects -> Partition] BY DEF StoreTypes
<1>2. obj' = [q \in Objects |-> IF q \in {p} THEN [obj[q] EXCEPT !.state = s] ELSE obj[q]]
  BY <1>1, Zenon
<1> QED BY <1>2, Zenon DEF Marks

(* What the writers' facts need of a step of the flush thread.             *)
LEMMA MarksWriters ==
    ASSUME StoreInv, UNCHANGED <<stSetup, now, wpc, wptr, wvictim>>,
           \A p \in Objects : obj'[p].hour = obj[p].hour /\ obj'[p].life = obj[p].life
    PROVE  /\ Held' /\ Timely'
           /\ Calm => \A w \in Writers : wpc[w] = "append" => obj'[wptr[w]].life = "live"
<1>1. \A w \in Writers : wpc[w] # "idle" => wptr[w] \in Objects BY DEF StoreInv, WorkSide, Held
<1>2. \A w \in Writers : wpc[w] = "append" => wptr[w] \in Objects BY <1>1
<1>3. Held' BY <1>1 DEF StoreInv, WorkSide, Held
<1>4. Timely' BY <1>2 DEF StoreInv, WorkSide, Timely
<1>5. Calm => \A w \in Writers : wpc[w] = "append" => obj'[wptr[w]].life = "live"
  BY <1>2 DEF StoreInv, WorkSide, Untouched
<1> QED BY <1>3, <1>4, <1>5

LEMMA SealKeeps == ASSUME StoreInv, SealOld PROVE StoreInv'
<1> USE DEF StoreInv, WorkSide
<1> DEFINE S == {p \in Mapped : obj[p].state = "ACTIVE" /\ Older(p, stSetup.seal)}
<1>1. /\ stSetup.tiered /\ fpc = "idle" /\ fpc' = "collect"
      /\ UNCHANGED <<stSetup, now, sqlpc, pq_files, partitions, index, hdb, writerVars, fjob, fcur, fwrote, misuse>>
  BY DEF SealOld
<1>2. Marks(S, "SEALED") BY DEF SealOld, Marks
<1>3. \A p \in S : p \in Objects /\ obj[p].life # "unused" /\ obj[p].hour < now
  <2> SUFFICES ASSUME NEW p \in S PROVE p \in Objects /\ obj[p].life # "unused" /\ obj[p].hour < now OBVIOUS
  <2>1. p \in Objects /\ obj[p].life = "live" /\ obj[p].hour \in Hours BY MappedIsLive DEF StoreSide
  <2>2. obj[p].hour \in Nat BY <2>1, HourIsNat, Zenon
  <2>3. stSetup.seal \in Nat /\ now \in Nat BY SetupFacts DEF StoreSide, StoreTypes
  <2>4. obj[p].hour + stSetup.seal < now BY DEF Older
  <2> QED BY <2>1, <2>2, <2>3, <2>4
<1> HIDE DEF S
<1>4. /\ StoreSide'
      /\ \A p \in Objects : /\ obj'[p].hour = obj[p].hour /\ obj'[p].life = obj[p].life
                            /\ obj'[p].rows = obj[p].rows
  <2>1. S \in SUBSET Objects /\ "SEALED" \in State /\ "SEALED" # "FLUSHED" BY <1>3 DEF State
  <2> QED BY <1>1, <1>2, <1>3, <2>1, MarksSet DEF writerVars
<1>5. UNCHANGED <<stSetup, now, wpc, wptr, wvictim>> BY <1>1 DEF writerVars
<1>6. /\ Held' /\ Timely'
      /\ Calm => \A w \in Writers : wpc[w] = "append" => obj'[wptr[w]].life = "live"
  BY <1>4, <1>5, MarksWriters
<1>7. WorkTypes' BY <1>1 DEF WorkTypes, writerVars, FlushSteps
<1>8. fpc' \notin InFlush /\ fpc' \notin Committing /\ fpc' \notin ToFlush BY <1>1 DEF InFlush, Committing, ToFlush
<1>9. Worked' BY <1>1, <1>4, <1>8 DEF Worked, WorkTypes
<1>10. Written' /\ NoUseAfterEvict' BY <1>1, <1>8 DEF Written, NoUseAfterEvict
<1>11. Untouched' BY <1>1, <1>4, <1>5, <1>6, <1>8 DEF Untouched, Calm, WorkTypes
<1> QED BY <1>4, <1>6, <1>7, <1>9, <1>10, <1>11

LEMMA CollectKeeps == ASSUME StoreInv, CollectSealed PROVE StoreInv'
<1> USE DEF StoreInv, WorkSide
<1>1. /\ fpc = "collect" /\ fpc' = "flush" /\ fjob' = {p \in Mapped : obj[p].state = "SEALED"}
      /\ UNCHANGED <<stSetup, now, sqlpc, pq_files, storeVars, hdb, writerVars, fcur, fwrote, misuse>>
  BY DEF CollectSealed
<1>2. \A p \in fjob' : p \in Objects /\ obj[p].life = "live" /\ obj[p].state = "SEALED"
  BY <1>1, MappedIsLive DEF StoreSide
<1>3. StoreSide' BY <1>1, SameStore DEF storeVars, writerVars
<1>4. UNCHANGED <<stSetup, now, obj, wpc, wptr, wvictim>> BY <1>1 DEF writerVars, storeVars
<1>5. /\ Held' /\ Timely'
      /\ Calm => \A w \in Writers : wpc[w] = "append" => obj'[wptr[w]].life = "live"
  BY <1>4, MarksWriters
<1>6. WorkTypes' BY <1>1, <1>2, <1>4 DEF WorkTypes, FlushSteps
<1>7. fpc' \notin InFlush /\ fpc' \notin Committing BY <1>1 DEF InFlush, Committing
<1>8. Worked' BY <1>1, <1>2, <1>4, <1>7 DEF Worked
<1>9. Written' /\ NoUseAfterEvict' BY <1>1, <1>7 DEF Written, NoUseAfterEvict
<1>10. Untouched' BY <1>2, <1>4, <1>5, <1>7 DEF Untouched, Calm
<1> QED BY <1>3, <1>5, <1>6, <1>8, <1>9, <1>10

LEMMA BeginKeeps == ASSUME StoreInv, BeginFlush PROVE StoreInv'
<1> USE DEF StoreInv, WorkSide
<1>1. /\ fpc = "flush" /\ fpc' = "write"
      /\ UNCHANGED <<stSetup, now, sqlpc, pq_files, partitions, index, hdb, writerVars, fwrote>>
  BY DEF BeginFlush
<1>2. PICK p \in fjob : fcur' = p /\ fjob' = fjob \ {p} /\ obj' = [obj EXCEPT ![p].state = "FLUSHING"] /\ Used(p)
  BY Zenon DEF BeginFlush
<1>3. p \in Objects /\ obj[p].life # "unused" /\ obj[p].state # "ACTIVE"
  BY <1>1 DEF WorkTypes, Worked, ToFlush
<1>4. obj[p].hour < now BY <1>3, Zenon DEF StoreSide, Passed
<1>5. Marks({p}, "FLUSHING")
  <2>1. StoreTypes BY DEF StoreSide
  <2> QED BY <1>2, <1>3, <2>1, MarkOne, Zenon
<1>6. /\ StoreSide'
      /\ \A q \in Objects : /\ obj'[q].hour = obj[q].hour /\ obj'[q].life = obj[q].life
                            /\ obj'[q].rows = obj[q].rows
                            /\ obj'[q].state = IF q \in {p} THEN "FLUSHING" ELSE obj[q].state
  <2>1. {p} \in SUBSET Objects /\ "FLUSHING" \in State /\ "FLUSHING" # "FLUSHED" BY <1>3 DEF State
  <2>2. UNCHANGED <<stSetup, now, store_row, partitions, index, hdb>> BY <1>1 DEF writerVars
  <2>3. \A q \in {p} : obj[q].life # "unused" /\ obj[q].hour < now BY <1>3, <1>4
  <2> QED BY <1>5, <2>1, <2>2, <2>3, MarksSet
<1>7. UNCHANGED <<stSetup, now, wpc, wptr, wvictim>> BY <1>1 DEF writerVars
<1>8. /\ Held' /\ Timely'
      /\ Calm => \A w \in Writers : wpc[w] = "append" => obj'[wptr[w]].life = "live"
  BY <1>6, <1>7, MarksWriters
<1>9. WorkTypes' BY <1>1, <1>2, <1>3, <1>7 DEF WorkTypes, FlushSteps, InFlush
<1>10. Worked'
  <2>1. \A q \in fjob' : q \in Objects /\ q \in fjob /\ obj'[q].life # "unused" /\ obj'[q].state # "ACTIVE"
    BY <1>1, <1>2, <1>6 DEF Worked, WorkTypes, ToFlush
  <2>2. fcur' \in Objects /\ obj'[fcur'].life # "unused" /\ obj'[fcur'].state = "FLUSHING" BY <1>2, <1>3, <1>6
  <2> QED BY <1>1, <2>1, <2>2 DEF Worked
<1>11. Written' BY <1>1 DEF Written, Committing
<1>12. Untouched' BY <1>2, <1>3, <1>6, <1>7, <1>8 DEF Untouched, Calm, WorkTypes
<1>13. NoUseAfterEvict'
  <2>1. Calm => obj[p].life # "freed" BY <1>2 DEF Untouched
  <2> QED BY <1>1, <1>2, <1>3, <2>1, UseLive
<1> QED BY <1>6, <1>8, <1>9, <1>10, <1>11, <1>12, <1>13

(* Only a tiered store has a flush thread, and it has no memory limit.     *)
LEMMA FlushingTiered ==
    ASSUME StoreInv, fpc # "idle"
    PROVE  stSetup.tiered /\ stSetup.limit = 0
<1>1. stSetup.tiered BY DEF StoreInv, WorkSide, Worked
<1> QED BY <1>1, SetupFacts DEF StoreInv, StoreSide

LEMMA WriteKeeps == ASSUME StoreInv, WriteHdb PROVE StoreInv'
<1> USE DEF StoreInv, WorkSide
<1> DEFINE h == obj[fcur].hour
<1>1. /\ fpc \in {"write", "warm", "cold"} /\ Used(fcur)
      /\ fpc' = CASE fpc = "write" -> "commit" [] fpc = "warm" -> "commitWarm" [] OTHER -> "commitCold"
      /\ UNCHANGED <<stSetup, now, sqlpc, storeVars, writerVars, fjob, fcur>>
  BY DEF WriteHdb
<1>2. /\ fcur \in Objects /\ obj[fcur].life # "unused" /\ obj[fcur].state = "FLUSHING"
  BY <1>1 DEF Worked, InFlush
<1>3. h \in Hours /\ obj[fcur].rows \in SUBSET Nat /\ hdb \in [Hours -> SUBSET Nat]
  BY <1>2 DEF StoreSide, StoreTypes, Partition
<1>4. PICK ok \in BOOLEAN, pq \in IF stSetup.parquet /\ fpc = "write" THEN BOOLEAN ELSE {FALSE} :
        /\ fwrote' = (ok /\ obj[fcur].rows # {})
        /\ pq_files' = (pq_files \/ (pq /\ obj[fcur].rows # {}))
        /\ IF (ok \/ pq) /\ obj[fcur].rows # {}
             THEN hdb' = [hdb EXCEPT ![h] = obj[fcur].rows]
             ELSE hdb' \in {hdb, [hdb EXCEPT ![h] = {}]}
  BY Zenon DEF WriteHdb
<1> HIDE DEF h
<1>5. hdb' \in [Hours -> SUBSET Nat] /\ \A g \in Hours : g # h => hdb'[g] = hdb[g]
  BY <1>3, <1>4
<1>6. fwrote' => obj[fcur].rows \subseteq hdb'[h]
  <2> SUFFICES ASSUME fwrote' PROVE obj[fcur].rows \subseteq hdb'[h] OBVIOUS
  <2>1. ok /\ obj[fcur].rows # {} BY <1>4, Zenon
  <2>2. hdb' = [hdb EXCEPT ![h] = obj[fcur].rows] BY <1>4, <2>1
  <2> QED BY <1>3, <2>2
<1>7. ~stSetup.parquet => ~pq_files'
  <2> SUFFICES ASSUME ~stSetup.parquet PROVE ~pq_files' OBVIOUS
  <2>1. ~pq_files BY DEF Written
  <2>2. pq = FALSE BY <1>4, Zenon
  <2> QED BY <1>4, <2>1, <2>2, Zenon
<1>8. UNCHANGED <<stSetup, now, store_row, partitions, obj, index, wpc, wptr, wvictim, fjob, fcur>>
  BY <1>1 DEF storeVars, writerVars
<1>9. stSetup.limit = 0
  <2>1. fpc # "idle" BY <1>1
  <2> QED BY <2>1, FlushingTiered
<1>10. StoreSide'
  <2>1. StoreTypes' BY <1>5, <1>8 DEF StoreSide, StoreTypes
  <2>2. MapConsistent' /\ Pristine' /\ IndexComplete' BY <1>8 DEF StoreSide, MapConsistent, Pristine, IndexComplete, Live
  <2>3. Passed' /\ OneObject' /\ ExpiredOnly' BY <1>8 DEF StoreSide, Passed, OneObject, ExpiredOnly
  <2>4. FlushedOnDisk'
    <3> SUFFICES ASSUME ~stSetup.late, ~stSetup.parquet, stSetup.cold = 0,
                        NEW p \in Objects, obj[p].life = "live", obj[p].state = "FLUSHED"
                 PROVE  obj[p].rows \subseteq hdb'[obj[p].hour]
      BY <1>8 DEF FlushedOnDisk, Live
    <3>1. obj[p].hour \in Hours BY DEF StoreSide, StoreTypes, Partition
    <3>2. p # fcur BY <1>2
    <3>3. obj[p].hour # h BY <1>2, <1>9, <3>2 DEF StoreSide, OneObject, h
    <3>4. hdb'[obj[p].hour] = hdb[obj[p].hour] BY <1>5, <3>1, <3>3
    <3> QED BY <3>4 DEF StoreSide, FlushedOnDisk, Live
  <2> QED BY <2>1, <2>2, <2>3, <2>4 DEF StoreSide
<1>11. /\ Held' /\ Timely'
       /\ Calm => \A w \in Writers : wpc[w] = "append" => obj'[wptr[w]].life = "live"
  BY <1>8, MarksWriters
<1>12. fpc' \in Committing /\ fpc' \in InFlush /\ fpc' \in FlushSteps /\ fpc' # "idle"
  BY <1>1 DEF Committing, InFlush, FlushSteps
<1>13. WorkTypes' BY <1>8, <1>12 DEF WorkTypes
<1>14. Worked'
  <2>1. fpc' \in ToFlush => fpc \in ToFlush BY <1>1 DEF ToFlush
  <2>2. fpc' \in {"cold", "commitCold"} => fpc = "cold" BY <1>1
  <2>3. stSetup.tiered BY <1>1, FlushingTiered
  <2> QED BY <1>2, <1>8, <2>1, <2>2, <2>3 DEF Worked
<1>15. Written' BY <1>6, <1>7, <1>8 DEF Written, h
<1>16. Untouched'
  <2>1. fpc \in InFlush BY <1>1 DEF InFlush
  <2> QED BY <1>8, <1>11, <2>1 DEF Untouched, Calm
<1>17. NoUseAfterEvict'
  <2>1. fpc \in InFlush BY <1>1 DEF InFlush
  <2>2. Calm => obj[fcur].life # "freed" BY <2>1 DEF Untouched
  <2> QED BY <1>1, <1>2, <2>2, UseLive
<1> QED BY <1>10, <1>11, <1>13, <1>14, <1>15, <1>16, <1>17

LEMMA EndKeeps == ASSUME StoreInv, EndFlush PROVE StoreInv'
<1> USE DEF StoreInv, WorkSide
<1> DEFINE s == IF fwrote \/ (fpc = "commit" /\ pq_files) \/ fpc = "commitCold" THEN "FLUSHED" ELSE "SEALED"
<1>1. /\ fpc \in Committing /\ Used(fcur) /\ fpc' = IF fpc = "commit" THEN "flush" ELSE "tier"
      /\ obj' = [obj EXCEPT ![fcur].state = s]
      /\ UNCHANGED <<stSetup, now, sqlpc, pq_files, partitions, index, hdb, writerVars, fjob, fcur, fwrote>>
  BY DEF EndFlush, Committing
<1>2. /\ fpc \in InFlush /\ fcur \in Objects /\ obj[fcur].life # "unused" /\ obj[fcur].state = "FLUSHING"
  BY <1>1 DEF Worked, InFlush, Committing
<1>3. obj[fcur].hour < now
  <2>1. obj[fcur].state # "ACTIVE" BY <1>2
  <2> QED BY <1>2, <2>1, Zenon DEF StoreSide, Passed
<1>4. s \in State BY DEF State
<1>5. (s = "FLUSHED" /\ ~stSetup.late /\ ~stSetup.parquet /\ stSetup.cold = 0) =>
          obj[fcur].rows \subseteq hdb[obj[fcur].hour]
  <2> SUFFICES ASSUME s = "FLUSHED", ~stSetup.late, ~stSetup.parquet, stSetup.cold = 0
               PROVE  obj[fcur].rows \subseteq hdb[obj[fcur].hour]
    OBVIOUS
  <2>1. fwrote \/ (fpc = "commit" /\ pq_files) \/ fpc = "commitCold" OBVIOUS
  <2>2. ~pq_files BY DEF Written
  <2>3. fpc # "commitCold" BY SetupFacts DEF Worked, StoreSide
  <2>4. fwrote BY <2>1, <2>2, <2>3
  <2> QED BY <1>1, <2>4 DEF Written
<1>6. s # "ACTIVE" OBVIOUS
<1> HIDE DEF s
<1>7. Marks({fcur}, s)
  <2>1. StoreTypes BY DEF StoreSide
  <2> QED BY <1>1, <1>2, <2>1, MarkOne, Zenon
<1>8. UNCHANGED <<stSetup, now, store_row, partitions, index, hdb, wpc, wptr, wvictim>> BY <1>1 DEF writerVars
<1>9. /\ StoreSide'
      /\ \A q \in Objects : /\ obj'[q].hour = obj[q].hour /\ obj'[q].life = obj[q].life
                            /\ obj'[q].rows = obj[q].rows
                            /\ obj'[q].state = IF q \in {fcur} THEN s ELSE obj[q].state
  <2>1. {fcur} \in SUBSET Objects BY <1>2
  <2>2. \A q \in {fcur} : obj[q].life # "unused" /\ obj[q].hour < now BY <1>2, <1>3
  <2>3. (s = "FLUSHED" /\ ~stSetup.late /\ ~stSetup.parquet /\ stSetup.cold = 0) =>
            \A q \in {fcur} : obj[q].rows \subseteq hdb[obj[q].hour]
    BY <1>5
  <2>4. StoreSide /\ UNCHANGED <<stSetup, now, store_row, partitions, index, hdb>> BY <1>8
  <2> QED BY ONLY <1>4, <1>7, <2>1, <2>2, <2>3, <2>4, MarksSet
<1>10. /\ Held' /\ Timely'
       /\ Calm => \A w \in Writers : wpc[w] = "append" => obj'[wptr[w]].life = "live"
  BY <1>8, <1>9, MarksWriters
<1>11. fpc' \in {"flush", "tier"} /\ (fpc' \in ToFlush => fpc \in ToFlush) BY <1>1 DEF ToFlush, Committing
<1>12. fpc' \notin Committing /\ fpc' \notin InFlush /\ fpc' \in FlushSteps
  BY <1>11 DEF Committing, InFlush, FlushSteps
<1>13. WorkTypes' BY <1>1, <1>8, <1>12 DEF WorkTypes
<1>14. Worked'
  <2>1. stSetup.tiered
    <3>1. fpc # "idle" BY <1>1 DEF Committing
    <3> QED BY <3>1, FlushingTiered
  <2>2. \A q \in fjob : q \in Objects /\ obj'[q].life # "unused" BY <1>9 DEF Worked, WorkTypes
  <2>3. fpc' \in ToFlush => \A q \in fjob : obj'[q].state # "ACTIVE" BY <1>6, <1>9, <1>11, <2>2 DEF Worked
  <2>4. fpc' \notin {"cold", "commitCold"} BY <1>11
  <2> QED BY <1>1, <1>12, <2>1, <2>2, <2>3, <2>4 DEF Worked
<1>15. Written' BY <1>1, <1>12 DEF Written
<1>16. Untouched' BY <1>1, <1>8, <1>9, <1>10, <1>12 DEF Untouched, Calm, WorkTypes
<1>17. NoUseAfterEvict'
  <2>1. Calm => obj[fcur].life # "freed" BY <1>2 DEF Untouched
  <2> QED BY <1>1, <1>2, <2>1, UseLive
<1> QED BY <1>9, <1>10, <1>13, <1>14, <1>15, <1>16, <1>17

-----------------------------------------------------------------------------
(* Evictions by age, the index, the tiers                                  *)

(* A writer that appends holds an object of the present hour.              *)
LEMMA EvictedNotHeld ==
    ASSUME StoreInv, NEW S, OnlyFreed(S), Calm, \A p \in S : Expired(p)
    PROVE  \A w \in Writers : wpc[w] = "append" => obj'[wptr[w]].life = "live"
<1> USE DEF StoreInv, WorkSide
<1> SUFFICES ASSUME NEW w \in Writers, wpc[w] = "append" PROVE obj'[wptr[w]].life = "live" OBVIOUS
<1>1. wptr[w] \in Objects /\ obj[wptr[w]].life = "live" /\ obj[wptr[w]].hour = now
  BY DEF Held, Untouched, Timely, Calm
<1>2. wptr[w] \notin S
  <2> SUFFICES ASSUME wptr[w] \in S PROVE FALSE OBVIOUS
  <2>1. PICK age \in {stSetup.ttl, stSetup.drop} \ {0} : now + age <= now BY <1>1 DEF Expired
  <2>2. age \in Nat /\ age > 0 BY <2>1, SetupFacts DEF StoreSide
  <2>3. now \in Nat BY DEF StoreSide, StoreTypes
  <2> QED BY <2>1, <2>2, <2>3
<1> QED BY <1>1, <1>2 DEF OnlyFreed

LEMMA OldEvicted ==
    ASSUME StoreInv, NEW age \in {stSetup.ttl, stSetup.drop} \ {0}, EvictOlder(age),
           UNCHANGED <<stSetup, now, store_row, index, hdb>>
    PROVE  \E S : /\ StoreSide' /\ OnlyFreed(S)
                  /\ Calm => \A w \in Writers : wpc[w] = "append" => obj'[wptr[w]].life = "live"
<1> DEFINE S == {p \in Mapped : obj[p].hour + age <= now}
<1>1. StoreTypes /\ MapConsistent /\ StoreSide BY DEF StoreInv, StoreSide
<1>2. age \in Nat BY <1>1, SetupFacts
<1>3. Evicts(S) BY <1>1, <1>2, OlderEvicts
<1>4. S \in SUBSET Mapped /\ \A p \in S : Expired(p) BY DEF Expired
<1> HIDE DEF S
<1>5. StoreSide' /\ OnlyFreed(S) BY <1>1, <1>3, <1>4, EvictsSet
<1>6. Calm => \A w \in Writers : wpc[w] = "append" => obj'[wptr[w]].life = "live"
  BY <1>4, <1>5, EvictedNotHeld
<1> QED BY <1>5, <1>6

LEMMA TtlKeeps == ASSUME StoreInv, TtlEvict PROVE StoreInv'
<1> USE DEF StoreInv, WorkSide
<1>1. /\ fpc = "flush" /\ fjob = {} /\ fpc' \in {"rebuild", "tierAll"}
      /\ UNCHANGED <<stSetup, now, sqlpc, pq_files, index, hdb, writerVars, fjob, fcur, fwrote, misuse>>
  BY DEF TtlEvict
<1>2. UNCHANGED <<stSetup, now, store_row, index, hdb, wpc, wptr, wvictim>> BY <1>1 DEF writerVars
<1>3. /\ StoreSide' /\ Held' /\ Timely'
      /\ Calm => \A w \in Writers : wpc[w] = "append" => obj'[wptr[w]].life = "live"
  <2>1. CASE stSetup.ttl > 0 /\ EvictOlder(stSetup.ttl)
    <3>1. stSetup.ttl \in {stSetup.ttl, stSetup.drop} \ {0} BY <2>1
    <3>2. PICK S : /\ StoreSide' /\ OnlyFreed(S)
                   /\ Calm => \A w \in Writers : wpc[w] = "append" => obj'[wptr[w]].life = "live"
      BY <1>2, <2>1, <3>1, OldEvicted
    <3>3. \A v \in Writers : wpc'[v] \in {wpc[v], "idle"} BY <1>2
    <3>4. Held' /\ Timely' BY <1>1, <1>2, <3>2, <3>3, EvictsWork, Zenon
    <3> QED BY <3>2, <3>4
  <2>2. CASE UNCHANGED <<partitions, obj>> BY <1>2, <2>2, SameStore, MarksWriters
  <2> QED BY <2>1, <2>2 DEF TtlEvict
<1>4. fpc' \notin Committing /\ fpc' \notin InFlush /\ fpc' \notin ToFlush /\ fpc' \in FlushSteps
  BY <1>1 DEF Committing, InFlush, FlushSteps, ToFlush
<1>5. WorkTypes' BY <1>1, <1>2, <1>4 DEF WorkTypes
<1>6. Worked'
  <2>1. stSetup.tiered BY <1>1, FlushingTiered
  <2>2. fpc' \notin {"cold", "commitCold"} BY <1>1
  <2> QED BY <1>1, <1>4, <2>1, <2>2 DEF Worked
<1>7. Written' /\ NoUseAfterEvict' BY <1>1, <1>4 DEF Written, NoUseAfterEvict
<1>8. Untouched' BY <1>1, <1>2, <1>3, <1>4, Zenon DEF Untouched, Calm
<1> QED BY <1>3, <1>5, <1>6, <1>7, <1>8

(* The index rebuilt from the map lists every live partition.              *)
LEMMA RebuiltIndex ==
    ASSUME StoreSide, UNCHANGED <<stSetup, now, store_row, partitions, obj, hdb>>,
           index' = [p \in Objects |-> IF p \in Mapped THEN 1 ELSE 0]
    PROVE  StoreSide'
<1> USE DEF StoreSide
<1>1. StoreTypes' BY DEF StoreTypes
<1>2. MapConsistent' /\ Pristine' BY DEF MapConsistent, Pristine, Live
<1>3. IndexComplete'
  <2> SUFFICES ASSUME NEW p \in Objects, obj[p].life = "live" PROVE index'[p] > 0
    BY DEF IndexComplete, Live
  <2>1. p \in Mapped BY LiveIsMapped
  <2> QED BY <2>1
<1>4. Passed' /\ OneObject' /\ FlushedOnDisk' /\ ExpiredOnly' BY DEF Passed, OneObject, FlushedOnDisk, ExpiredOnly, Live
<1> QED BY <1>1, <1>2, <1>3, <1>4

LEMMA RebuildKeeps == ASSUME StoreInv, RebuildIndex PROVE StoreInv'
<1> USE DEF StoreInv, WorkSide
<1>1. /\ fpc = "rebuild" /\ fpc' = "tierAll" /\ index' = [p \in Objects |-> IF p \in Mapped THEN 1 ELSE 0]
      /\ UNCHANGED <<stSetup, now, sqlpc, pq_files, partitions, obj, hdb, writerVars, fjob, fcur, fwrote, misuse>>
  BY DEF RebuildIndex
<1>2. UNCHANGED <<stSetup, now, store_row, partitions, obj, hdb, wpc, wptr, wvictim>> BY <1>1 DEF writerVars
<1>3. StoreSide' BY <1>1, <1>2, RebuiltIndex
<1>4. fpc' \notin Committing /\ fpc' \notin InFlush /\ fpc' \notin ToFlush /\ fpc' \in FlushSteps
  BY <1>1 DEF Committing, InFlush, FlushSteps, ToFlush
<1>5. Held' /\ Timely' BY <1>2 DEF Held, Timely
<1>6. WorkTypes' BY <1>1, <1>2, <1>4 DEF WorkTypes
<1>7. Worked' BY <1>1, <1>2, <1>4 DEF Worked
<1>8. Written' /\ NoUseAfterEvict' BY <1>1, <1>4 DEF Written, NoUseAfterEvict
<1>9. Untouched' BY <1>1, <1>2, <1>4 DEF Untouched, Calm
<1> QED BY <1>3, <1>5, <1>6, <1>7, <1>8, <1>9

LEMMA TierCollectKeeps == ASSUME StoreInv, TierCollect PROVE StoreInv'
<1> USE DEF StoreInv, WorkSide
<1>1. /\ fpc = "tierAll" /\ fpc' = "tier" /\ fjob' \subseteq Mapped
      /\ UNCHANGED <<stSetup, now, sqlpc, pq_files, storeVars, hdb, writerVars, fcur, fwrote, misuse>>
  BY DEF TierCollect
<1>2. UNCHANGED <<stSetup, now, store_row, partitions, obj, index, hdb, wpc, wptr, wvictim>>
  BY <1>1 DEF writerVars, storeVars
<1>3. StoreSide' BY <1>2, SameStore
<1>4. fpc' \notin Committing /\ fpc' \notin InFlush /\ fpc' \notin ToFlush /\ fpc' \in FlushSteps
  BY <1>1 DEF Committing, InFlush, FlushSteps, ToFlush
<1>5. \A p \in fjob' : p \in Objects /\ obj[p].life = "live" BY <1>1, MappedIsLive DEF StoreSide
<1>6. Held' /\ Timely' BY <1>2 DEF Held, Timely
<1>7. WorkTypes' BY <1>1, <1>2, <1>4, <1>5 DEF WorkTypes
<1>8. Worked' BY <1>1, <1>2, <1>4, <1>5 DEF Worked
<1>9. Written' /\ NoUseAfterEvict' BY <1>1, <1>4 DEF Written, NoUseAfterEvict
<1>10. Untouched' BY <1>1, <1>2, <1>4, <1>5 DEF Untouched, Calm
<1> QED BY <1>3, <1>6, <1>7, <1>8, <1>9, <1>10

LEMMA TierDoneKeeps == ASSUME StoreInv, TierDone PROVE StoreInv'
<1> USE DEF StoreInv, WorkSide
<1>1. /\ fpc' = "idle"
      /\ UNCHANGED <<stSetup, now, sqlpc, pq_files, storeVars, hdb, writerVars, fjob, fcur, fwrote, misuse>>
  BY DEF TierDone
<1>2. UNCHANGED <<stSetup, now, store_row, partitions, obj, index, hdb, wpc, wptr, wvictim>>
  BY <1>1 DEF writerVars, storeVars
<1>3. StoreSide' BY <1>2, SameStore
<1>4. fpc' \notin Committing /\ fpc' \notin InFlush /\ fpc' \notin ToFlush /\ fpc' \in FlushSteps
  BY <1>1 DEF Committing, InFlush, FlushSteps, ToFlush
<1>5. Held' /\ Timely' BY <1>2 DEF Held, Timely
<1>6. WorkTypes' BY <1>1, <1>2, <1>4 DEF WorkTypes
<1>7. Worked' BY <1>1, <1>2, <1>4 DEF Worked
<1>8. Written' /\ NoUseAfterEvict' BY <1>1, <1>4 DEF Written, NoUseAfterEvict
<1>9. Untouched' BY <1>1, <1>2, <1>4 DEF Untouched, Calm
<1> QED BY <1>3, <1>5, <1>6, <1>7, <1>8, <1>9

(* DROP: the worklist loses the partition that is freed.                   *)
LEMMA DropKeeps ==
    ASSUME StoreInv, TierOne, NEW p \in fjob, fjob' = fjob \ {p}, Used(p), Tier(p) = "drop", Unmap(p),
           UNCHANGED <<fpc, fcur>>
    PROVE  StoreInv'
<1> USE DEF StoreInv, WorkSide
<1> DEFINE S == {p} \cap Mapped
<1>1. /\ fpc = "tier"
      /\ UNCHANGED <<stSetup, now, sqlpc, pq_files, index, hdb, writerVars, fwrote>>
  BY DEF TierOne
<1>2. UNCHANGED <<stSetup, now, store_row, index, hdb, wpc, wptr, wvictim>> BY <1>1 DEF writerVars
<1>3. p \in Objects /\ obj[p].life # "unused" BY DEF WorkTypes, Worked
<1>4. Expired(p)
  <2>1. stSetup.drop > 0 /\ now >= obj[p].hour + stSetup.drop BY DEF Tier, Aged
  <2>2. stSetup.drop \in Nat BY SetupFacts DEF StoreSide
  <2> QED BY <2>1, <2>2 DEF Expired
<1>5. Evicts(S) BY <1>3, UnmapEvicts DEF StoreSide
<1>6. S \in SUBSET Mapped /\ S \subseteq {p} /\ \A q \in S : Expired(q) BY <1>4
<1> HIDE DEF S
<1>7. StoreSide' /\ OnlyFreed(S) BY <1>2, <1>5, <1>6, EvictsSet
<1>8. Calm => \A w \in Writers : wpc[w] = "append" => obj'[wptr[w]].life = "live"
  BY <1>6, <1>7, EvictedNotHeld
<1>9. /\ Held' /\ Timely' /\ Written'
      /\ \A q \in fjob' : obj'[q].life # "unused" /\ obj'[q].state = obj[q].state
  <2>1. UNCHANGED <<stSetup, now, hdb, wptr, wvictim, pq_files, fcur, fwrote>> /\ fpc' = fpc /\ fjob' \subseteq fjob
    BY <1>1, <1>2
  <2>2. \A v \in Writers : wpc'[v] \in {wpc[v], "idle"} BY <1>2
  <2> QED BY <1>7, <2>1, <2>2, EvictsWork
<1>10. WorkTypes' BY <1>2 DEF WorkTypes
<1>11. fpc' \notin InFlush /\ fpc' \notin ToFlush /\ fpc' \notin {"cold", "commitCold"} BY <1>1 DEF InFlush, ToFlush
<1>12. Worked' BY <1>2, <1>9, <1>11 DEF Worked
<1>13. Untouched'
  <2>1. Calm => \A q \in fjob' : obj'[q].life = "live"
    <3> SUFFICES ASSUME Calm, NEW q \in fjob' PROVE obj'[q].life = "live" OBVIOUS
    <3>1. q \in Objects /\ obj[q].life = "live" /\ q # p BY DEF WorkTypes, Untouched
    <3> QED BY <1>6, <1>7, <3>1 DEF OnlyFreed
  <2> QED BY <1>2, <1>8, <1>11, <2>1, Zenon DEF Untouched, Calm
<1>14. NoUseAfterEvict'
  <2>1. Calm => obj[p].life # "freed" BY DEF Untouched
  <2> QED BY <1>2, <1>3, <2>1, UseLive
<1> QED BY <1>7, <1>9, <1>10, <1>12, <1>13, <1>14

(* WARM and COLD: a partition of a passed hour is sealed and flushed.      *)
LEMMA TierFlushKeeps ==
    ASSUME StoreInv, TierOne, NEW p \in fjob, fjob' = fjob \ {p}, Used(p),
           Tier(p) \in {"warm", "cold"}, obj' = [obj EXCEPT ![p].state = "FLUSHING"],
           fcur' = p, fpc' = Tier(p), UNCHANGED partitions
    PROVE  StoreInv'
<1> USE DEF StoreInv, WorkSide
<1>1. /\ fpc = "tier"
      /\ UNCHANGED <<stSetup, now, sqlpc, pq_files, index, hdb, writerVars, fwrote>>
  BY DEF TierOne
<1>2. UNCHANGED <<stSetup, now, store_row, index, hdb, wpc, wptr, wvictim>> BY <1>1 DEF writerVars
<1>3. p \in Objects /\ obj[p].life # "unused" BY DEF WorkTypes, Worked
<1>4. PICK age \in {stSetup.warm, stSetup.cold} : age > 0 /\ now >= obj[p].hour + age BY DEF Tier, Aged
<1>5. Tier(p) = "cold" => stSetup.cold > 0 BY DEF Tier, Aged
<1>6. obj[p].hour < now
  <2>1. age \in Nat /\ now \in Nat BY <1>4, SetupFacts DEF StoreSide, StoreTypes
  <2>2. obj[p].hour \in Hours BY <1>3 DEF StoreSide, StoreTypes, Partition
  <2>3. obj[p].hour \in Nat BY <2>2, HourIsNat, Zenon
  <2> QED BY <1>4, <2>1, <2>3
<1>7. Marks({p}, "FLUSHING")
  <2>1. StoreTypes BY DEF StoreSide
  <2> QED BY <1>3, <2>1, MarkOne, Zenon
<1>8. /\ StoreSide'
      /\ \A q \in Objects : /\ obj'[q].hour = obj[q].hour /\ obj'[q].life = obj[q].life
                            /\ obj'[q].rows = obj[q].rows
                            /\ obj'[q].state = IF q \in {p} THEN "FLUSHING" ELSE obj[q].state
  <2>1. {p} \in SUBSET Objects /\ "FLUSHING" \in State /\ "FLUSHING" # "FLUSHED" BY <1>3 DEF State
  <2>2. UNCHANGED <<stSetup, now, store_row, partitions, index, hdb>> BY <1>2
  <2>3. \A q \in {p} : obj[q].life # "unused" /\ obj[q].hour < now BY <1>3, <1>6
  <2> QED BY <1>7, <2>1, <2>2, <2>3, MarksSet
<1>9. /\ Held' /\ Timely'
      /\ Calm => \A w \in Writers : wpc[w] = "append" => obj'[wptr[w]].life = "live"
  BY <1>2, <1>8, MarksWriters
<1>10. fpc' \in {"warm", "cold"} OBVIOUS
<1>11. WorkTypes' BY <1>2, <1>3, <1>10 DEF WorkTypes, FlushSteps, InFlush
<1>12. Worked'
  <2>1. \A q \in fjob' : q \in Objects /\ obj'[q].life # "unused" BY <1>8 DEF Worked, WorkTypes
  <2>2. fcur' \in Objects /\ obj'[fcur'].life # "unused" /\ obj'[fcur'].state = "FLUSHING" BY <1>3, <1>8
  <2>3. fpc' \notin ToFlush BY <1>10 DEF ToFlush
  <2>4. stSetup.tiered BY <1>1, FlushingTiered
  <2>5. fpc' \in {"cold", "commitCold"} => stSetup.cold > 0 BY <1>5, <1>10
  <2> QED BY <1>2, <2>1, <2>2, <2>3, <2>4, <2>5 DEF Worked
<1>13. Written' BY <1>1, <1>10 DEF Written, Committing
<1>14. Untouched' BY <1>2, <1>3, <1>8, <1>9 DEF Untouched, Calm, WorkTypes
<1>15. NoUseAfterEvict'
  <2>1. Calm => obj[p].life # "freed" BY DEF Untouched
  <2> QED BY <1>2, <1>3, <2>1, UseLive
<1> QED BY <1>8, <1>9, <1>11, <1>12, <1>13, <1>14, <1>15

LEMMA TierSkipKeeps ==
    ASSUME StoreInv, TierOne, NEW p \in fjob, fjob' = fjob \ {p}, Used(p),
           UNCHANGED <<partitions, obj, fpc, fcur>>
    PROVE  StoreInv'
<1> USE DEF StoreInv, WorkSide
<1>1. /\ fpc = "tier"
      /\ UNCHANGED <<stSetup, now, sqlpc, pq_files, index, hdb, writerVars, fwrote>>
  BY DEF TierOne
<1>2. UNCHANGED <<stSetup, now, store_row, partitions, obj, index, hdb, wpc, wptr, wvictim>> BY <1>1 DEF writerVars
<1>3. StoreSide' BY <1>2, SameStore
<1>4. Held' /\ Timely' /\ WorkTypes' BY <1>2 DEF Held, Timely, WorkTypes
<1>5. fpc' \notin InFlush /\ fpc' \notin ToFlush /\ fpc' \notin Committing BY <1>1 DEF InFlush, ToFlush, Committing
<1>6. Worked' BY <1>2, <1>5 DEF Worked
<1>7. Written' BY <1>1, <1>5 DEF Written
<1>8. Untouched' BY <1>2, <1>5 DEF Untouched, Calm
<1>9. NoUseAfterEvict'
  <2>1. p \in Objects /\ (Calm => obj[p].life # "freed") BY DEF Untouched, WorkTypes
  <2> QED BY <1>2, <2>1, UseLive
<1> QED BY <1>3, <1>4, <1>6, <1>7, <1>8, <1>9

LEMMA TierKeeps == ASSUME StoreInv, TierOne PROVE StoreInv'
<1>1. PICK p \in fjob :
        /\ fjob' = fjob \ {p}
        /\ Used(p)
        /\ \/ Tier(p) = "drop" /\ Unmap(p) /\ UNCHANGED <<fpc, fcur>>
           \/ /\ Tier(p) \in {"warm", "cold"} /\ obj[p].state = "ACTIVE"
              /\ obj' = [obj EXCEPT ![p].state = "FLUSHING"]
              /\ fcur' = p /\ fpc' = Tier(p) /\ UNCHANGED partitions
           \/ UNCHANGED <<partitions, obj, fpc, fcur>>
  BY Zenon DEF TierOne
<1>2. CASE Tier(p) = "drop" /\ Unmap(p) /\ UNCHANGED <<fpc, fcur>> BY <1>1, <1>2, DropKeeps
<1>3. CASE /\ Tier(p) \in {"warm", "cold"} /\ obj' = [obj EXCEPT ![p].state = "FLUSHING"]
           /\ fcur' = p /\ fpc' = Tier(p) /\ UNCHANGED partitions
  BY <1>1, <1>3, TierFlushKeeps, Zenon
<1>4. CASE UNCHANGED <<partitions, obj, fpc, fcur>> BY <1>1, <1>4, TierSkipKeeps
<1> QED BY <1>1, <1>2, <1>3, <1>4

-----------------------------------------------------------------------------
(* ALTER TABLE SET TTL and the clock                                       *)

LEMMA SqlEvictKeeps == ASSUME StoreInv, SqlEvict PROVE StoreInv'
<1> USE DEF StoreInv, WorkSide
<1>1. /\ stSetup.sql /\ stSetup.ttl > 0 /\ EvictOlder(stSetup.ttl)
      /\ UNCHANGED <<stSetup, now, index, hdb, writerVars, flushVars, misuse>>
  BY DEF SqlEvict
<1>2. UNCHANGED <<stSetup, now, store_row, index, hdb, wpc, wptr, wvictim, pq_files, fpc, fjob, fcur, fwrote, misuse>>
  BY <1>1 DEF writerVars, flushVars
<1>3. PICK S : StoreSide' /\ OnlyFreed(S)
  <2>1. stSetup.ttl \in {stSetup.ttl, stSetup.drop} \ {0} BY <1>1
  <2> QED BY <1>1, <1>2, <2>1, OldEvicted
<1>4. /\ Held' /\ Timely' /\ Written'
      /\ \A q \in fjob' : obj'[q].life # "unused" /\ obj'[q].state = obj[q].state
      /\ fcur \in Objects => (obj'[fcur].life = "unused" <=> obj[fcur].life = "unused")
                             /\ obj'[fcur].state = obj[fcur].state
  <2>1. \A v \in Writers : wpc'[v] \in {wpc[v], "idle"} BY <1>2
  <2>2. fjob' \subseteq fjob BY <1>2
  <2> QED BY <1>2, <1>3, <2>1, <2>2, EvictsWork
<1>5. WorkTypes' BY <1>2 DEF WorkTypes
<1>6. Worked' BY <1>2, <1>4 DEF Worked
<1>7. Untouched' /\ NoUseAfterEvict' BY <1>1, <1>2 DEF Untouched, NoUseAfterEvict, Calm
<1> QED BY <1>3, <1>4, <1>5, <1>6, <1>7

LEMMA SqlRebuildKeeps == ASSUME StoreInv, SqlRebuild PROVE StoreInv'
<1> USE DEF StoreInv, WorkSide
<1>1. /\ index' = [p \in Objects |-> IF p \in Mapped THEN 1 ELSE 0]
      /\ UNCHANGED <<stSetup, now, store_row, partitions, obj, hdb, wpc, wptr, wvictim>>
      /\ UNCHANGED <<pq_files, fpc, fjob, fcur, fwrote, misuse>>
  BY DEF SqlRebuild, writerVars, flushVars
<1>2. StoreSide' BY <1>1, RebuiltIndex
<1>3. WorkTypes' /\ Held' /\ Worked' /\ Timely' BY <1>1 DEF WorkTypes, Held, Worked, Timely
<1>4. Written' /\ Untouched' /\ NoUseAfterEvict' BY <1>1, Zenon DEF Written, Untouched, NoUseAfterEvict, Calm
<1> QED BY <1>2, <1>3, <1>4

LEMMA ClockKeeps == ASSUME StoreInv, ClockTick PROVE StoreInv'
<1> USE DEF StoreInv, StoreSide, WorkSide
<1>1. /\ stSetup.late \/ \A w \in Writers : wpc[w] = "idle"
      /\ now' = now + 1
      /\ UNCHANGED <<stSetup, store_row, partitions, obj, index, hdb, wpc, wptr, wvictim>>
      /\ UNCHANGED <<pq_files, fpc, fjob, fcur, fwrote, misuse>>
  BY DEF ClockTick, storeVars, writerVars, flushVars
<1>2. now \in Nat BY DEF StoreTypes
<1>3. \A p \in Objects : obj[p].hour \in Nat
  <2>1. \A p \in Objects : obj[p].hour \in Hours BY DEF StoreTypes, Partition
  <2> QED BY <2>1, HourIsNat, Zenon
<1>4. StoreTypes' BY <1>1, <1>2 DEF StoreTypes
<1>5. MapConsistent' /\ Pristine' /\ IndexComplete' BY <1>1 DEF MapConsistent, Pristine, IndexComplete, Live
<1>6. OneObject' /\ FlushedOnDisk' BY <1>1 DEF OneObject, FlushedOnDisk, Live
<1>7. Passed' BY <1>1, <1>2, <1>3 DEF Passed
<1>8. ExpiredOnly'
  <2> SUFFICES ASSUME stSetup.limit = 0, NEW p \in Objects, obj[p].life = "freed"
               PROVE  \E age \in {stSetup.ttl, stSetup.drop} \ {0} : obj[p].hour + age <= now'
    BY <1>1 DEF ExpiredOnly
  <2>1. PICK age \in {stSetup.ttl, stSetup.drop} \ {0} : obj[p].hour + age <= now BY DEF ExpiredOnly
  <2>2. age \in Nat BY <2>1, SetupFacts
  <2> QED BY <1>1, <1>2, <1>3, <2>1, <2>2
<1>9. WorkTypes' /\ Held' /\ Worked' BY <1>1 DEF WorkTypes, Held, Worked
<1>10. Timely' BY <1>1, ZenonT(30) DEF Timely
<1>11. Written' /\ Untouched' /\ NoUseAfterEvict' BY <1>1 DEF Written, Untouched, NoUseAfterEvict, Calm
<1> QED BY <1>4, <1>5, <1>6, <1>7, <1>8, <1>9, <1>10, <1>11

LEMMA StutterStore == ASSUME StoreInv, UNCHANGED stVars PROVE StoreInv'
<1> USE DEF StoreInv, StoreSide, WorkSide
<1>1. /\ UNCHANGED <<stSetup, now, store_row, partitions, obj, index, hdb, wpc, wptr, wvictim>>
      /\ UNCHANGED <<pq_files, fpc, fjob, fcur, fwrote, misuse>>
  BY DEF stVars, storeVars, writerVars, flushVars
<1>2. StoreSide' BY <1>1, SameStore
<1>3. WorkTypes' /\ Held' /\ Worked' /\ Timely' BY <1>1 DEF WorkTypes, Held, Worked, Timely
<1>4. Written' /\ Untouched' /\ NoUseAfterEvict' BY <1>1 DEF Written, Untouched, NoUseAfterEvict, Calm
<1> QED BY <1>2, <1>3, <1>4

LEMMA NextStore == StoreInv /\ [StNext]_stVars => StoreInv'
<1> SUFFICES ASSUME StoreInv, [StNext]_stVars PROVE StoreInv' OBVIOUS
<1>1. ASSUME NEW w \in Writers, WriterNext(w) PROVE StoreInv'
  <2>1. ASSUME NEW h \in Hours, GetOrCreate(w, h) PROVE StoreInv' BY <2>1, ReusePartition, CreatePartition
  <2>2. CASE AppendRow(w) BY <2>2, AppendKeeps
  <2>3. CASE LimitCheck(w) BY <2>3, LimitCheckKeeps
  <2>4. CASE LimitEvict(w) BY <2>4, LimitEvictKeeps
  <2> QED BY <1>1, <2>1, <2>2, <2>3, <2>4 DEF WriterNext
<1>2. CASE SealOld BY <1>2, SealKeeps
<1>3. CASE CollectSealed BY <1>3, CollectKeeps
<1>4. CASE BeginFlush BY <1>4, BeginKeeps
<1>5. CASE WriteHdb BY <1>5, WriteKeeps
<1>6. CASE EndFlush BY <1>6, EndKeeps
<1>7. CASE TtlEvict BY <1>7, TtlKeeps
<1>8. CASE RebuildIndex BY <1>8, RebuildKeeps
<1>9. CASE TierCollect BY <1>9, TierCollectKeeps
<1>10. CASE TierOne BY <1>10, TierKeeps
<1>11. CASE TierDone BY <1>11, TierDoneKeeps
<1>12. CASE SqlEvict BY <1>12, SqlEvictKeeps
<1>13. CASE SqlRebuild BY <1>13, SqlRebuildKeeps
<1>14. CASE ClockTick BY <1>14, ClockKeeps
<1>15. CASE UNCHANGED stVars BY <1>15, StutterStore
<1> QED BY <1>1, <1>2, <1>3, <1>4, <1>5, <1>6, <1>7, <1>8, <1>9, <1>10, <1>11, <1>12, <1>13, <1>14, <1>15
        DEF StNext, FlushNext

(* The store beside its flush thread is safe: no row is split over two      *)
(* objects or hidden from the index, FLUSHED rows are in the HDB, only      *)
(* expired hours are evicted and nothing is touched afterwards, each under  *)
(* the conditions StoreSafe states (store_tick, do_flush_sealed,            *)
(* do_tiering, evict_older_than_ns).                                        *)
THEOREM StoreIsSafe == StSpec => []StoreSafe
<1>1. StInit => StoreInv BY InitStore
<1>2. StoreInv /\ [StNext]_stVars => StoreInv' BY NextStore
<1>3. StoreInv => StoreSafe BY DEF StoreInv, StoreSide, WorkSide, StoreSafe
<1> QED BY <1>1, <1>2, <1>3, PTL DEF StSpec

=============================================================================
