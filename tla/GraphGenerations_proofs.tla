---------------------- MODULE GraphGenerations_proofs ----------------------
(***************************************************************************)
(* The safety properties of GraphGenerations for any number of builders,   *)
(* workers, generations, row keys and crashes.                             *)
(***************************************************************************)
EXTENDS GraphGenerations, LockTable_proofs, FiniteSetTheorems

USE GenerationsAssumption

(* Groups of variables, and abbreviations within an action. *)
USE DEF diskVars, locks, plan, Left, Used, MayRetry

(* The key of a new row is unused, unremembered and named for its holder. *)
LEMMA NextKeyIsFresh ==
  ASSUME NEW holder, NEW i \in NextKey(holder)
  PROVE  i \in LockId /\ i \in Unused(rows) /\ i \notin Remembered /\ i[1] = holder
  BY DEF NextKey, KeysOf, Fresh, Unused

(* What the statements on the table leave behind is a table again. *)
LEMMA TableType ==
  ASSUME rows \in LockTables
  PROVE  /\ \A holder, i, p, m : p \in Path /\ m \in LockMode /\ Acquire(holder, i, p, m)
              => rows' \in LockTables
         /\ \A p, m : Refused(p, m) => rows' \in LockTables
         /\ \A i \in LockId : Released(rows, i) \in LockTables
         /\ \A i : Released(rows, i) \in LockTables
         /\ EmptyTable \in LockTables
<1>1. ASSUME NEW holder, NEW i, NEW p \in Path, NEW m \in LockMode, Acquire(holder, i, p, m)
      PROVE  rows' \in LockTables
  <2>1. i \in LockId /\ 1 \in Nat
    BY <1>1, NextKeyIsFresh DEF Acquire
  <2> QED
    BY <1>1, <2>1, TableOperations DEF Acquire, Ttl
<1>2. ASSUME NEW p, NEW m, Refused(p, m)
      PROVE  rows' \in LockTables
  BY <1>2 DEF Refused, Denied, Reap, LockTables
<1>3. \A i : Released(rows, i) \in LockTables
  BY DEF Released, LockTables
<1>4. EmptyTable \in LockTables
  BY DEF EmptyTable, LockTables
<1> QED
  BY <1>1, <1>2, <1>3, <1>4

-----------------------------------------------------------------------------
(* Type correctness.                                                       *)

LEMMA InitType == Init => TypeOK
  BY TableType DEF Init, TypeOK, DiskState, BuilderPc, WorkerPc, LockTables, EmptyTable

LEMMA BuilderStepType ==
  ASSUME TypeOK, NEW b \in Builders,
         StartBuild(b) \/ SkipBuild(b) \/ BuilderStep(b) \/ CrashBuilder(b)
  PROVE  TypeOK'
<1> USE DEF TypeOK, BuilderGoes, builderVars, workerVars, BuilderPc
<1>1. CASE StartBuild(b)
  BY <1>1, TableType, NextKeyIsFresh DEF StartBuild, Acquire, LockMode
<1>2. CASE SkipBuild(b)
  BY <1>2, TableType DEF SkipBuild
<1>3. CASE ReadLink(b)
  BY <1>3 DEF ReadLink
<1>4. CASE ListGenerations(b)
  BY <1>4 DEF ListGenerations, Others, OnDisk
<1>5. CASE LockTarget(b)
  BY <1>5, TableType, NextKeyIsFresh DEF LockTarget, Acquire, LockMode
<1>6. CASE WaitForTarget(b)
  BY <1>6, TableType DEF WaitForTarget, NewestOf
<1>7. CASE GiveUpOnTarget(b)
  BY <1>7, TableType DEF GiveUpOnTarget
<1>8. CASE StartRemoval(b)
  BY <1>8 DEF StartRemoval, DiskState
<1>9. CASE EndRemoval(b)
  <2>1. PICK left \in DiskState : disk' = [disk EXCEPT ![target[b]] = left]
    BY <1>9 DEF EndRemoval, DiskState
  <2>2. disk' \in [Generation -> DiskState]
    BY <2>1
  <2> QED
    BY <1>9, <2>2 DEF EndRemoval
<1>10. CASE UnlockTarget(b)
  BY <1>10, TableType DEF UnlockTarget
<1>11. CASE CreateGeneration(b)
  BY <1>11 DEF CreateGeneration, Generation, DiskState
<1>12. CASE FinishTiles(b)
  BY <1>12 DEF FinishTiles, DiskState
<1>13. CASE WriteMeta(b)
  BY <1>13 DEF WriteMeta
<1>14. CASE StageLink(b)
  BY <1>14 DEF StageLink
<1>15. CASE ReplaceLink(b)
  BY <1>15 DEF ReplaceLink
<1>16. CASE Fail(b)
  BY <1>16 DEF Fail
<1>17. CASE ReleaseBuildLock(b)
  BY <1>17, TableType DEF ReleaseBuildLock
<1>18. CASE CrashBuilder(b)
  BY <1>18 DEF CrashBuilder
<1> QED
  BY <1>1, <1>2, <1>3, <1>4, <1>5, <1>6, <1>7, <1>8, <1>9, <1>10, <1>11, <1>12, <1>13,
     <1>14, <1>15, <1>16, <1>17, <1>18 DEF BuilderStep

LEMMA WorkerStepType ==
  ASSUME TypeOK, NEW w \in Workers, StartJob(w) \/ WorkerStep(w) \/ CrashWorker(w)
  PROVE  TypeOK'
<1> USE DEF TypeOK, WorkerGoes, NextAttempt, builderVars, workerVars, WorkerPc
<1>1. CASE StartJob(w)
  BY <1>1 DEF StartJob
<1>2. CASE ResolveLink(w)
  BY <1>2 DEF ResolveLink, Resolvable
<1>3. CASE ResolveFails(w)
  BY <1>3 DEF ResolveFails
<1>4. CASE LockShared(w)
  BY <1>4, TableType, NextKeyIsFresh DEF LockShared, Acquire, LockMode
<1>5. CASE LockSharedTimesOut(w)
  BY <1>5, TableType DEF LockSharedTimesOut
<1>6. CASE CheckCurrent(w)
  BY <1>6 DEF CheckCurrent
<1>7. CASE DropLock(w)
  BY <1>7, TableType DEF DropLock
<1>8. CASE FinishJob(w)
  BY <1>8, TableType DEF FinishJob
<1>9. CASE CrashWorker(w)
  BY <1>9 DEF CrashWorker
<1> QED
  BY <1>1, <1>2, <1>3, <1>4, <1>5, <1>6, <1>7, <1>8, <1>9 DEF WorkerStep

LEMMA NextType == TypeOK /\ [Next]_vars => TypeOK'
<1> SUFFICES ASSUME TypeOK, [Next]_vars PROVE TypeOK'
  OBVIOUS
<1>1. CASE \E i \in LockId : Expire(i)
  <2>1. PICK i \in LockId : Live(rows, i) /\ rows' = [rows EXCEPT ![i].left = 0]
    BY <1>1 DEF Expire
  <2>2. rows' \in LockTables
    <3>1. rows[i] \in LockRow /\ rows \in LockTables
      BY <2>1 DEF TypeOK, LockTables, Live
    <3>2. [rows[i] EXCEPT !.left = 0] \in LockRow
      BY <3>1 DEF LockRow
    <3> QED
      BY <2>1, <3>1, <3>2 DEF LockTables
  <2>3. UNCHANGED <<diskVars, builderVars, workerVars, crashes>>
    BY <1>1 DEF Expire
  <2> QED
    BY <2>2, <2>3 DEF TypeOK, builderVars, workerVars
<1>2. CASE UNCHANGED vars
  BY <1>2 DEF TypeOK, vars, builderVars, workerVars
<1> QED
  BY <1>1, <1>2, BuilderStepType, WorkerStepType DEF Next

(* Every variable keeps its type, whatever the constants are. *)
THEOREM TypeCorrect == Spec => []TypeOK
  BY InitType, NextType, PTL DEF Spec

-----------------------------------------------------------------------------
(* What each statement on graph_locks does to the rows of the others.      *)

SameRow(j) ==
  /\ Live(rows', j) <=> Live(rows, j)
  /\ Live(rows, j) => rows'[j] = rows[j]

LEMMA AcquireRows ==
  ASSUME TypeOK, Compatible(rows),
         NEW holder, NEW i, NEW p \in Path, NEW m \in LockMode, Acquire(holder, i, p, m)
  PROVE  /\ i \in LockId /\ i \notin Remembered /\ i[1] = holder
         /\ Live(rows', i) /\ rows'[i].path = p /\ rows'[i].mode = m
         /\ \A j \in LockId \ {i} : SameRow(j)
         /\ Compatible(rows')
         /\ Grantable(rows, p, m)
<1>1. /\ i \in LockId /\ i \in Unused(rows) /\ i \notin Remembered /\ i[1] = holder
      /\ Grantable(rows, p, m)
      /\ rows' = Granted(rows, i, p, m, Ttl)
      /\ rows \in LockTables
      /\ Ttl \in Nat \ {0}
  BY NextKeyIsFresh DEF Acquire, TypeOK, Ttl
<1>2. /\ Live(rows', i)
      /\ rows'[i] = [path |-> p, mode |-> m, left |-> Ttl]
      /\ \A j \in LockId \ {i} : SameRow(j)
  BY <1>1, GrantedRows DEF SameRow
<1>3. Compatible(rows')
  BY <1>1, GrantKeepsCompatible
<1> QED
  BY <1>1, <1>2, <1>3

LEMMA RefusedRows ==
  ASSUME TypeOK, Compatible(rows), NEW p, NEW m, Refused(p, m)
  PROVE  /\ \A j \in LockId : SameRow(j)
         /\ Compatible(rows')
<1>1. rows \in LockTables /\ rows' \in LockTables /\ rows' = Denied(rows)
  BY TableType DEF Refused, TypeOK
<1>2. \A j \in LockId : SameRow(j)
  BY <1>1, DeniedRows DEF SameRow
<1> QED
  BY <1>1, <1>2, FewerRowsCompatible DEF SameRow

LEMMA ReleaseRows ==
  ASSUME TypeOK, Compatible(rows), NEW i \in LockId, rows' = Released(rows, i)
  PROVE  /\ ~ Live(rows', i)
         /\ \A j \in LockId \ {i} : SameRow(j)
         /\ Compatible(rows')
<1>1. rows \in LockTables /\ rows' \in LockTables
  BY TableType DEF TypeOK
<1>2. /\ ~ Live(rows', i)
      /\ \A j \in LockId \ {i} : SameRow(j)
  BY <1>1, ReleasedRows DEF SameRow
<1> QED
  BY <1>1, <1>2, FewerRowsCompatible DEF SameRow

LEMMA ExpireRows ==
  ASSUME TypeOK, Compatible(rows), NEW i \in LockId, Expire(i)
  PROVE  /\ ~ Live(rows', i)
         /\ \A j \in LockId \ {i} : SameRow(j)
         /\ Compatible(rows')
<1>1. /\ rows \in LockTables /\ rows' = [rows EXCEPT ![i].left = 0]
      /\ Live(rows, i)
  BY DEF TypeOK, Expire
<1>2. rows' \in LockTables
  BY <1>1 DEF LockTables, LockRow, Live
<1>3. /\ ~ Live(rows', i)
      /\ \A j \in LockId \ {i} : SameRow(j)
  BY <1>1 DEF LockTables, LockRow, Live, SameRow
<1>4. rows \in LockTables
  BY <1>1
<1> QED
  BY <1>2, <1>3, <1>4, FewerRowsCompatible DEF SameRow

LEMMA UnchangedRows ==
  ASSUME Compatible(rows), UNCHANGED rows
  PROVE  /\ \A j \in LockId : SameRow(j)
         /\ Compatible(rows')
  BY DEF SameRow, Live, Compatible

-----------------------------------------------------------------------------
(* The inductive invariant.                                                *)

(* Two builders at work would hold two live exclusive rows on the provider *)
(* directory.                                                              *)
LEMMA OneBuilder ==
  ASSUME TypeOK, Compatible(rows), BuildersHoldTheirRows
  PROVE  OneBuildAtATime
<1> SUFFICES ASSUME NEW b \in Builders, NEW c \in Builders,
                    bpc[b] # "idle", bpc[c] # "idle", b # c
             PROVE  FALSE
  BY DEF OneBuildAtATime
<1>1. /\ buildLock[b] \in LockId /\ buildLock[b][1] = b
      /\ HoldsRow(buildLock[b], ProviderDir, "exclusive")
      /\ buildLock[c] \in LockId /\ buildLock[c][1] = c
      /\ HoldsRow(buildLock[c], ProviderDir, "exclusive")
  BY DEF BuildersHoldTheirRows, TypeOK
<1>2. buildLock[b] # buildLock[c]
  BY <1>1
<1> QED
  BY <1>1, <1>2 DEF Compatible, HoldsRow

LEMMA InitInv == Init => GraphInv
  BY DEF Init, GraphInv, LeaseInv, DirectoryInv, EmptyTable, Compatible, Live, BuildersHoldTheirRows,
     WorkersHoldTheirRows, NamesInOrder, PrunersKeepToOldGenerations,
     BuildersMakeNewGenerations, BuildInProgressSurvives, ExclusiveRowsAreOld,
     CurrentGraphIsComplete, RemovalsAreUnread, LeasedGraphsStay, ReadsUnderLease, Pruning,
     Building, NoGeneration

(* A builder that is about to delete, or deletes, has the directory to     *)
(* itself: the link is elsewhere, nobody builds and nobody reads there.    *)
LEMMA RemovalHurtsNobody ==
  ASSUME TypeOK, GraphInv, NEW b \in Builders, bpc[b] \in {"remove", "removing"}
  PROVE  /\ target[b] \in Generation
         /\ target[b] # link
         /\ target[b] < nextName
         /\ \A c \in Builders : bpc[c] \notin Building
         /\ \A w \in Workers : ReadsUnderLease(w) => resolved[w] # target[b]
<1>1. /\ target[b] \in todo[b]
      /\ target[b] \in Generation
      /\ target[b] # link
      /\ target[b] < nextName
  BY DEF GraphInv, DirectoryInv, PrunersKeepToOldGenerations, Pruning, TypeOK
<1>2. \A c \in Builders : bpc[c] \notin Building
  BY OneBuilder DEF OneBuildAtATime, GraphInv, LeaseInv, Building
<1> QED
  BY <1>1, <1>2 DEF GraphInv, DirectoryInv, RemovalsAreUnread

(* Rows nobody touches go on meaning what they meant.                      *)
LEMMA WorkersKeepTheirRows ==
  ASSUME TypeOK, WorkersHoldTheirRows, UNCHANGED workerVars,
         \A w \in Workers : shareLock[w] # NoLock => SameRow(shareLock[w])
  PROVE  WorkersHoldTheirRows'
  BY DEF WorkersHoldTheirRows, workerVars, SameRow, HoldsRow

LEMMA BuildersKeepTheirRows ==
  ASSUME TypeOK, BuildersHoldTheirRows, UNCHANGED builderVars,
         \A b \in Builders :
           /\ buildLock[b] # NoLock => SameRow(buildLock[b])
           /\ pruneLock[b] # NoLock => SameRow(pruneLock[b])
  PROVE  BuildersHoldTheirRows'
  BY DEF BuildersHoldTheirRows, builderVars, SameRow, HoldsRow

LEMMA OldRowsStayOld ==
  ASSUME TypeOK, ExclusiveRowsAreOld, UNCHANGED <<link, nextName>>,
         \A b \in Builders :
           bpc'[b] \in Building => bpc[b] \in Building /\ made'[b] = made[b],
         \A j \in LockId :
           Live(rows', j) /\ rows'[j].mode = "exclusive" /\ rows'[j].path \in Generation
             => Live(rows, j) /\ rows'[j] = rows[j]
  PROVE  ExclusiveRowsAreOld'
  BY DEF ExclusiveRowsAreOld

(* A worker that reads under a live lease did so before, and the same graph. *)
NoNewReaders ==
  \A w \in Workers : ReadsUnderLease(w)' => ReadsUnderLease(w) /\ resolved'[w] = resolved[w]

LEMMA SameReaders ==
  ASSUME TypeOK, WorkersHoldTheirRows, UNCHANGED workerVars,
         \A w \in Workers : shareLock[w] # NoLock => SameRow(shareLock[w])
  PROVE  NoNewReaders
  BY DEF WorkersHoldTheirRows, workerVars, SameRow, NoNewReaders, ReadsUnderLease

(* Readers go on reading a whole graph as long as nobody new begins to read *)
(* or to remove, and none of their graphs is touched.                      *)
LEMMA ReadersStay ==
  ASSUME TypeOK, TypeOK', RemovalsAreUnread, LeasedGraphsStay, NoNewReaders,
         \A w \in Workers : ReadsUnderLease(w) => disk'[resolved[w]] = "complete",
         \A b \in Builders :
           bpc'[b] \in {"remove", "removing"} =>
             bpc[b] \in {"remove", "removing"} /\ target'[b] = target[b]
  PROVE  RemovalsAreUnread' /\ LeasedGraphsStay'
<1>1. LeasedGraphsStay'
  BY DEF LeasedGraphsStay, NoNewReaders
<1>2. RemovalsAreUnread'
  BY DEF RemovalsAreUnread, NoNewReaders
<1> QED
  BY <1>1, <1>2

(* The directories are what they were: true of every step that touches     *)
(* none of them and moves no builder to where more is asked of it.         *)
LEMMA DirectoriesStay ==
  ASSUME TypeOK, TypeOK', DirectoryInv, UNCHANGED <<link, staged, disk, nextName, builderVars>>,
         NoNewReaders
  PROVE  DirectoryInv'
<1>1. RemovalsAreUnread' /\ LeasedGraphsStay'
  BY ReadersStay DEF DirectoryInv, builderVars, LeasedGraphsStay
<1> QED
  BY <1>1 DEF DirectoryInv, NamesInOrder, PrunersKeepToOldGenerations, builderVars,
     BuildersMakeNewGenerations, BuildInProgressSurvives, CurrentGraphIsComplete

(* The builder's steps that run no statement on graph_locks.               *)
LEMMA QuietBuilderStepInv ==
  ASSUME TypeOK, TypeOK', GraphInv, OneBuildAtATime, NEW b \in Builders,
         \/ ReadLink(b) \/ ListGenerations(b) \/ StartRemoval(b) \/ EndRemoval(b)
         \/ CreateGeneration(b) \/ FinishTiles(b) \/ WriteMeta(b) \/ StageLink(b)
         \/ ReplaceLink(b) \/ Fail(b) \/ CrashBuilder(b)
  PROVE  GraphInv'
<1>0. RemovalsAreUnread' /\ LeasedGraphsStay'
  <2>1. UNCHANGED <<rows, workerVars>> /\ NoNewReaders
    BY DEF ReadLink, ListGenerations, StartRemoval, EndRemoval, CreateGeneration, FinishTiles,
       WriteMeta, StageLink, ReplaceLink, Fail, CrashBuilder, workerVars, NoNewReaders,
       ReadsUnderLease, Live
  <2>2. \A c \in Builders :
          bpc'[c] \in {"remove", "removing"} =>
            bpc[c] \in {"remove", "removing"} /\ target'[c] = target[c]
    BY DEF ReadLink, ListGenerations, StartRemoval, EndRemoval, CreateGeneration, FinishTiles,
       WriteMeta, StageLink, ReplaceLink, Fail, CrashBuilder, BuilderGoes, TypeOK
  <2>3. \A w \in Workers : ReadsUnderLease(w) => disk'[resolved[w]] = "complete"
    <3> SUFFICES ASSUME NEW w \in Workers, ReadsUnderLease(w)
                 PROVE  disk'[resolved[w]] = "complete"
      OBVIOUS
    <3>1. disk[resolved[w]] = "complete" /\ resolved[w] \in Generation
      BY DEF GraphInv, DirectoryInv, LeasedGraphsStay, ReadsUnderLease, TypeOK
    <3>2. CASE StartRemoval(b) \/ EndRemoval(b)
      <4>1. resolved[w] # target[b] /\ target[b] \in Generation
        BY <3>2, RemovalHurtsNobody DEF StartRemoval, EndRemoval, BuilderGoes
      <4> QED
        BY <3>1, <3>2, <4>1 DEF StartRemoval, EndRemoval, TypeOK
    <3>3. CASE CreateGeneration(b)
      <4>1. disk[nextName] = "absent"
        BY <3>3 DEF CreateGeneration, GraphInv, DirectoryInv, NamesInOrder, TypeOK, Generation
      <4> QED
        BY <3>1, <3>3, <4>1 DEF CreateGeneration, TypeOK
    <3>4. CASE FinishTiles(b)
      BY <3>1, <3>4 DEF FinishTiles, TypeOK
    <3>5. CASE UNCHANGED disk
      BY <3>1, <3>5
    <3> QED
      BY <3>2, <3>3, <3>4, <3>5 DEF ReadLink, ListGenerations, WriteMeta, StageLink, ReplaceLink,
         Fail, CrashBuilder
  <2> QED
    BY <2>1, <2>2, <2>3, ReadersStay DEF GraphInv, DirectoryInv
<1> USE <1>0
<1> USE DEF TypeOK, GraphInv, LeaseInv, DirectoryInv, BuilderGoes, builderVars, workerVars,
     BuildersHoldTheirRows, WorkersHoldTheirRows, NamesInOrder,
     PrunersKeepToOldGenerations, BuildersMakeNewGenerations, BuildInProgressSurvives,
     ExclusiveRowsAreOld, CurrentGraphIsComplete, Pruning, Building, HoldsRow
<1>1. CASE ReadLink(b)
  BY <1>1, UnchangedRows DEF ReadLink, SameRow
<1>2. CASE ListGenerations(b)
  BY <1>2, UnchangedRows DEF ListGenerations, Others, OnDisk, SameRow
<1>3. CASE StartRemoval(b)
  BY <1>3, UnchangedRows, RemovalHurtsNobody DEF StartRemoval, SameRow
<1>4. CASE EndRemoval(b)
  BY <1>4, UnchangedRows, RemovalHurtsNobody DEF EndRemoval, SameRow
<1>5. CASE CreateGeneration(b)
  <2>1. /\ nextName \in Nat /\ nextName + 1 > nextName
        /\ \A c \in Builders \ {b} : bpc[c] = "idle"
        /\ disk[nextName] = "absent"
    BY <1>5 DEF CreateGeneration, OneBuildAtATime
  <2>2. LeaseInv'
    BY <1>5, <2>1 DEF CreateGeneration, Compatible, Live, Generation
  <2>3. NamesInOrder'
    <3>1. link < nextName' /\ \A g \in Generation : g < nextName => g < nextName'
      <4>1. /\ link \in Int /\ nextName \in Int /\ Generation \subseteq Int
            /\ link < nextName /\ nextName' = nextName + 1
        BY <1>5, <2>1 DEF CreateGeneration, Generation, NoGeneration
      <4> HIDE DEF TypeOK, GraphInv, LeaseInv, DirectoryInv, NamesInOrder
      <4> QED
        BY ONLY <4>1
    <3>2. disk' = [disk EXCEPT ![nextName] = "building"] /\ link' = link
      BY <1>5 DEF CreateGeneration
    <3>3. nextName < nextName'
      BY <1>5, <2>1 DEF CreateGeneration
    <3> QED
      BY <3>1, <3>2, <3>3
  <2>4. PrunersKeepToOldGenerations'
    <3>1. bpc'[b] = "build" /\ \A c \in Builders \ {b} : bpc'[c] = "idle"
      BY <1>5, <2>1 DEF CreateGeneration
    <3> QED
      BY <3>1
  <2>5. BuildersMakeNewGenerations' /\ BuildInProgressSurvives'
    BY <1>5, <2>1 DEF CreateGeneration
  <2>6. CurrentGraphIsComplete'
    BY <1>5, <2>1 DEF CreateGeneration
  <2> QED
    BY <2>2, <2>3, <2>4, <2>5, <2>6
<1>6. CASE FinishTiles(b)
  BY <1>6, UnchangedRows DEF FinishTiles, SameRow, OneBuildAtATime
<1>7. CASE WriteMeta(b)
  BY <1>7, UnchangedRows DEF WriteMeta, SameRow
<1>8. CASE StageLink(b)
  BY <1>8, UnchangedRows DEF StageLink, SameRow, OneBuildAtATime
<1>9. CASE ReplaceLink(b)
  BY <1>9, UnchangedRows DEF ReplaceLink, SameRow, OneBuildAtATime
<1>10. CASE Fail(b)
  BY <1>10, UnchangedRows DEF Fail, SameRow
<1>11. CASE CrashBuilder(b)
  BY <1>11, UnchangedRows DEF CrashBuilder, SameRow
<1> QED
  BY <1>1, <1>2, <1>3, <1>4, <1>5, <1>6, <1>7, <1>8, <1>9, <1>10, <1>11

(* One builder's step: first the rows, then the directories.               *)
LEMMA BuilderStepInv ==
  ASSUME TypeOK, TypeOK', GraphInv, NEW b \in Builders,
         StartBuild(b) \/ SkipBuild(b) \/ BuilderStep(b) \/ CrashBuilder(b)
  PROVE  GraphInv'
<1> SUFFICES LeaseInv' /\ DirectoryInv'
  BY DEF GraphInv
<1>0. /\ Compatible(rows) /\ BuildersHoldTheirRows /\ WorkersHoldTheirRows
      /\ ExclusiveRowsAreOld /\ LeaseInv /\ DirectoryInv
  BY DEF GraphInv, LeaseInv
<1> USE <1>0 DEF BuilderGoes
<1>1. CASE StartBuild(b)
  <2>1. PICK i \in LockId : /\ Acquire(b, i, ProviderDir, "exclusive")
                            /\ buildLock' = [buildLock EXCEPT ![b] = i]
    BY <1>1 DEF StartBuild
  <2>2. /\ i \notin Remembered /\ i[1] = b
        /\ Live(rows', i) /\ rows'[i].path = ProviderDir /\ rows'[i].mode = "exclusive"
        /\ \A j \in LockId \ {i} : SameRow(j)
        /\ Compatible(rows')
    BY <2>1, AcquireRows DEF LockMode
  <2>3. BuildersHoldTheirRows'
    BY <1>1, <2>1, <2>2 DEF StartBuild, BuildersHoldTheirRows, TypeOK, SameRow,
       HoldsRow, Remembered
  <2>4. WorkersHoldTheirRows'
    BY <1>1, <2>2, WorkersKeepTheirRows DEF StartBuild, TypeOK, Remembered
  <2>5. ProviderDir \notin Generation
    BY DEF Generation
  <2>6. ExclusiveRowsAreOld'
    BY <1>1, <2>2, <2>5, OldRowsStayOld DEF StartBuild, SameRow, TypeOK, Building
  <2>7. RemovalsAreUnread' /\ LeasedGraphsStay'
    <3>1. NoNewReaders
      BY <1>1, <2>2, SameReaders DEF StartBuild, TypeOK, Remembered
    <3> QED
      BY <1>1, <3>1, ReadersStay DEF StartBuild, DirectoryInv, LeasedGraphsStay, TypeOK
  <2>8. DirectoryInv'
    BY <1>1, <2>7 DEF StartBuild, DirectoryInv, NamesInOrder, PrunersKeepToOldGenerations,
       BuildersMakeNewGenerations, BuildInProgressSurvives, CurrentGraphIsComplete,
       TypeOK, Pruning, Building
  <2> QED
    BY <2>2, <2>3, <2>4, <2>6, <2>8 DEF LeaseInv
<1>2. CASE SkipBuild(b)
  <2>1. Compatible(rows') /\ \A j \in LockId : SameRow(j)
    BY <1>2, RefusedRows DEF SkipBuild
  <2>2. BuildersHoldTheirRows' /\ WorkersHoldTheirRows'
    BY <1>2, <2>1, BuildersKeepTheirRows, WorkersKeepTheirRows DEF SkipBuild, TypeOK
  <2>3. ExclusiveRowsAreOld'
    BY <1>2, <2>1, OldRowsStayOld DEF SkipBuild, SameRow, builderVars
  <2>4. DirectoryInv'
    BY <1>2, <2>1, SameReaders, DirectoriesStay DEF SkipBuild, TypeOK
  <2> QED
    BY <2>1, <2>2, <2>3, <2>4 DEF LeaseInv
<1>3. CASE \/ ReadLink(b) \/ ListGenerations(b) \/ StartRemoval(b) \/ EndRemoval(b)
           \/ CreateGeneration(b) \/ FinishTiles(b) \/ WriteMeta(b) \/ StageLink(b)
           \/ ReplaceLink(b) \/ Fail(b) \/ CrashBuilder(b)
  BY <1>3, OneBuilder, QuietBuilderStepInv DEF GraphInv
<1>4. CASE LockTarget(b)
  <2>1. PICK g \in Generation, i \in LockId :
               /\ \/ BuilderGoes(b, "prune", "remove") /\ g \in NewestOf(todo[b])
                  \/ BuilderGoes(b, "wait", "remove") /\ g = target[b]
               /\ Acquire(b, i, g, "exclusive")
               /\ target' = [target EXCEPT ![b] = g]
               /\ pruneLock' = [pruneLock EXCEPT ![b] = i]
    BY <1>4 DEF LockTarget
  <2>2. /\ i \notin Remembered /\ i[1] = b
        /\ Live(rows', i) /\ rows'[i].path = g /\ rows'[i].mode = "exclusive"
        /\ \A j \in LockId \ {i} : SameRow(j)
        /\ Compatible(rows')
        /\ Grantable(rows, g, "exclusive")
    BY <2>1, AcquireRows DEF LockMode
  <2>3. /\ g \in todo[b] /\ g # link /\ g < nextName
        /\ bpc[b] \in {"prune", "wait"}
    BY <2>1 DEF NewestOf, DirectoryInv, PrunersKeepToOldGenerations, Pruning
  <2>4. \A c \in Builders : bpc[c] \notin Building
    BY <2>3, OneBuilder DEF OneBuildAtATime, Building
  <2>5. BuildersHoldTheirRows'
    <3>1. /\ bpc' = [bpc EXCEPT ![b] = "remove"] /\ pruneLock' = [pruneLock EXCEPT ![b] = i]
          /\ buildLock' = buildLock
      BY <1>4, <2>1 DEF LockTarget
    <3>2. \A c \in Builders : buildLock[c] # NoLock => buildLock[c] # i /\ SameRow(buildLock[c])
      BY <2>2 DEF Remembered, TypeOK
    <3> QED
      BY <2>1, <2>2, <2>3, <3>1, <3>2 DEF BuildersHoldTheirRows, TypeOK, SameRow, HoldsRow
  <2>6. WorkersHoldTheirRows'
    BY <1>4, <2>2, WorkersKeepTheirRows DEF LockTarget, TypeOK, Remembered
  <2>7. ExclusiveRowsAreOld'
    BY <1>4, <2>1, <2>2, <2>3, <2>4 DEF LockTarget, ExclusiveRowsAreOld, SameRow, TypeOK,
       Building
  <2>8. NoNewReaders
    BY <1>4, <2>2, SameReaders DEF LockTarget, TypeOK, Remembered
  <2>9. \A w \in Workers : ReadsUnderLease(w) => resolved[w] # g
    BY <2>2 DEF WorkersHoldTheirRows, ReadsUnderLease, HoldsRow, Grantable, Conflicts, TypeOK
  <2>10. RemovalsAreUnread'
    BY <1>4, <2>1, <2>8, <2>9 DEF LockTarget, RemovalsAreUnread, DirectoryInv, NoNewReaders, TypeOK
  <2>11. LeasedGraphsStay'
    BY <1>4, <2>8 DEF LockTarget, LeasedGraphsStay, DirectoryInv, NoNewReaders
  <2>12. DirectoryInv'
    BY <1>4, <2>1, <2>3, <2>10, <2>11 DEF LockTarget, DirectoryInv, NamesInOrder,
       PrunersKeepToOldGenerations, BuildersMakeNewGenerations, BuildInProgressSurvives,
       CurrentGraphIsComplete, TypeOK, Pruning, Building
  <2> QED
    BY <2>2, <2>5, <2>6, <2>7, <2>12 DEF LeaseInv
<1>5. CASE WaitForTarget(b) \/ GiveUpOnTarget(b)
  <2>1. Compatible(rows') /\ \A j \in LockId : SameRow(j)
    BY <1>5, RefusedRows DEF WaitForTarget, GiveUpOnTarget
  <2>2. BuildersHoldTheirRows'
    BY <1>5, <2>1 DEF WaitForTarget, GiveUpOnTarget, BuildersHoldTheirRows, TypeOK,
       SameRow, HoldsRow
  <2>3. WorkersHoldTheirRows'
    BY <1>5, <2>1, WorkersKeepTheirRows DEF WaitForTarget, GiveUpOnTarget, TypeOK
  <2>4. ExclusiveRowsAreOld'
    BY <1>5, <2>1, OldRowsStayOld DEF WaitForTarget, GiveUpOnTarget, SameRow, TypeOK,
       Building
  <2>5. NoNewReaders
    BY <1>5, <2>1, SameReaders DEF WaitForTarget, GiveUpOnTarget, TypeOK
  <2>6. RemovalsAreUnread' /\ LeasedGraphsStay'
    BY <1>5, <2>5, ReadersStay DEF WaitForTarget, GiveUpOnTarget, DirectoryInv, LeasedGraphsStay,
       TypeOK
  <2>7. DirectoryInv'
    BY <1>5, <2>6 DEF WaitForTarget, GiveUpOnTarget, NewestOf, DirectoryInv, NamesInOrder,
       PrunersKeepToOldGenerations, BuildersMakeNewGenerations, BuildInProgressSurvives,
       CurrentGraphIsComplete, TypeOK, Pruning, Building
  <2> QED
    BY <2>1, <2>2, <2>3, <2>4, <2>7 DEF LeaseInv
<1>6. CASE UnlockTarget(b)
  <2>1. pruneLock[b] \in LockId /\ pruneLock[b][1] = b /\ pruneLock[b] # buildLock[b]
    BY <1>6 DEF UnlockTarget, BuildersHoldTheirRows, TypeOK
  <2>2. /\ ~ Live(rows', pruneLock[b])
        /\ \A j \in LockId \ {pruneLock[b]} : SameRow(j)
        /\ Compatible(rows')
    BY <1>6, <2>1, ReleaseRows DEF UnlockTarget
  <2>7. \A w \in Workers : shareLock[w] # NoLock => shareLock[w] # pruneLock[b]
    BY <2>1 DEF WorkersHoldTheirRows
  <2>3. BuildersHoldTheirRows'
    <3>1. \A c \in Builders : buildLock[c] # NoLock => buildLock[c] # pruneLock[b]
      BY <2>1 DEF BuildersHoldTheirRows
    <3> QED
      BY <1>6, <2>1, <2>2, <3>1 DEF UnlockTarget, BuildersHoldTheirRows, TypeOK, SameRow,
         HoldsRow
  <2>4. WorkersHoldTheirRows'
    BY <1>6, <2>2, <2>7, WorkersKeepTheirRows DEF UnlockTarget, TypeOK
  <2>5. ExclusiveRowsAreOld'
    BY <1>6, <2>2, OldRowsStayOld DEF UnlockTarget, SameRow, TypeOK, Building
  <2>6. DirectoryInv'
    <3>1. NoNewReaders
      BY <1>6, <2>2, <2>7, SameReaders DEF UnlockTarget, TypeOK
    <3>2. RemovalsAreUnread' /\ LeasedGraphsStay'
      BY <1>6, <3>1, ReadersStay DEF UnlockTarget, DirectoryInv, LeasedGraphsStay, TypeOK
    <3> QED
      BY <1>6, <3>2 DEF UnlockTarget, DirectoryInv, NamesInOrder, PrunersKeepToOldGenerations,
         BuildersMakeNewGenerations, BuildInProgressSurvives, CurrentGraphIsComplete,
         TypeOK, Pruning, Building
  <2> QED
    BY <2>2, <2>3, <2>4, <2>5, <2>6 DEF LeaseInv
<1>7. CASE ReleaseBuildLock(b)
  <2>1. /\ buildLock[b] \in LockId /\ buildLock[b][1] = b
        /\ HoldsRow(buildLock[b], ProviderDir, "exclusive")
    BY <1>7 DEF ReleaseBuildLock, BuildersHoldTheirRows, TypeOK
  <2>2. /\ ~ Live(rows', buildLock[b])
        /\ \A j \in LockId \ {buildLock[b]} : SameRow(j)
        /\ Compatible(rows')
    BY <1>7, <2>1, ReleaseRows DEF ReleaseBuildLock
  <2>7. \A w \in Workers : shareLock[w] # NoLock => shareLock[w] # buildLock[b]
    BY <2>1 DEF WorkersHoldTheirRows
  <2>3. BuildersHoldTheirRows'
    <3>1. \A c \in Builders \ {b} : bpc[c] = "idle"
      BY <1>7, OneBuilder DEF ReleaseBuildLock, OneBuildAtATime
    <3> QED
      BY <1>7, <2>1, <2>2, <3>1 DEF ReleaseBuildLock, BuildersHoldTheirRows, TypeOK,
         SameRow, HoldsRow
  <2>4. WorkersHoldTheirRows'
    BY <1>7, <2>2, <2>7, WorkersKeepTheirRows DEF ReleaseBuildLock, TypeOK
  <2>5. ExclusiveRowsAreOld'
    BY <1>7, <2>2, OldRowsStayOld DEF ReleaseBuildLock, SameRow, TypeOK, Building
  <2>6. DirectoryInv'
    <3>1. NoNewReaders
      BY <1>7, <2>2, <2>7, SameReaders DEF ReleaseBuildLock, TypeOK
    <3>2. RemovalsAreUnread' /\ LeasedGraphsStay'
      BY <1>7, <3>1, ReadersStay DEF ReleaseBuildLock, DirectoryInv, LeasedGraphsStay, TypeOK
    <3> QED
      BY <1>7, <3>2 DEF ReleaseBuildLock, DirectoryInv, NamesInOrder, PrunersKeepToOldGenerations,
         BuildersMakeNewGenerations, BuildInProgressSurvives, CurrentGraphIsComplete,
         TypeOK, Pruning, Building
  <2> QED
    BY <2>2, <2>3, <2>4, <2>5, <2>6 DEF LeaseInv
<1> QED
  BY <1>1, <1>2, <1>3, <1>4, <1>5, <1>6, <1>7 DEF BuilderStep

(* One worker's step.                                                      *)
LEMMA WorkerStepInv ==
  ASSUME TypeOK, TypeOK', GraphInv, NEW w \in Workers,
         StartJob(w) \/ WorkerStep(w) \/ CrashWorker(w)
  PROVE  GraphInv'
<1> SUFFICES LeaseInv' /\ DirectoryInv'
  BY DEF GraphInv
<1>0. /\ Compatible(rows) /\ BuildersHoldTheirRows /\ WorkersHoldTheirRows
      /\ ExclusiveRowsAreOld /\ LeaseInv /\ DirectoryInv
  BY DEF GraphInv, LeaseInv
<1> USE <1>0 DEF WorkerGoes, NextAttempt
<1>1. CASE StartJob(w) \/ ResolveLink(w) \/ ResolveFails(w) \/ CheckCurrent(w)
           \/ CrashWorker(w)
  <2> USE DEF StartJob, ResolveLink, ResolveFails, CheckCurrent, CrashWorker
  <2>1. rows' = rows /\ UNCHANGED <<link, staged, disk, nextName, builderVars>>
    BY <1>1
  <2>2. Compatible(rows') /\ \A j \in LockId : SameRow(j)
    BY <2>1, UnchangedRows
  <2>3. BuildersHoldTheirRows'
    BY <2>1, <2>2, BuildersKeepTheirRows DEF TypeOK
  <2>4. WorkersHoldTheirRows'
    BY <1>1, <2>1 DEF WorkersHoldTheirRows, HoldsRow, TypeOK
  <2>5. ExclusiveRowsAreOld'
    BY <2>1, <2>2, OldRowsStayOld DEF SameRow, builderVars
  <2>6. DirectoryInv'
    <3>1. CASE wpc'[w] # "reading"
      <4>1. NoNewReaders
        BY <1>1, <2>1, <3>1 DEF NoNewReaders, ReadsUnderLease, Live, TypeOK
      <4> QED
        BY <2>1, <4>1, DirectoriesStay
    <3>2. CASE CheckCurrent(w) /\ wpc'[w] = "reading"
      <4>1. /\ resolved[w] = link /\ disk[link] = "complete" /\ link \in Generation
            /\ UNCHANGED <<resolved, shareLock>>
        BY <3>2 DEF IsCurrent, Resolvable, TypeOK, DirectoryInv, CurrentGraphIsComplete, NoGeneration
      <4>2. \A v \in Workers \ {w} : ReadsUnderLease(v)' => ReadsUnderLease(v)
        BY <2>1, <3>2 DEF ReadsUnderLease, Live, TypeOK
      <4>3. LeasedGraphsStay'
        BY <2>1, <4>1, <4>2 DEF DirectoryInv, LeasedGraphsStay
      <4>4. RemovalsAreUnread'
        <5>1. \A b \in Builders : bpc[b] \in {"remove", "removing"} => target[b] # link
          BY DEF DirectoryInv, PrunersKeepToOldGenerations, Pruning
        <5> QED
          BY <2>1, <4>1, <4>2, <5>1 DEF DirectoryInv, RemovalsAreUnread, builderVars
      <4> QED
        BY <2>1, <4>3, <4>4 DEF DirectoryInv, NamesInOrder, PrunersKeepToOldGenerations,
           BuildersMakeNewGenerations, BuildInProgressSurvives, CurrentGraphIsComplete, builderVars
    <3> QED
      BY <1>1, <3>1, <3>2 DEF TypeOK
  <2> QED
    BY <2>2, <2>3, <2>4, <2>5, <2>6 DEF LeaseInv
<1>2. CASE LockShared(w)
  <2>1. PICK i \in LockId : /\ Acquire(w, i, resolved[w], "shared")
                            /\ shareLock' = [shareLock EXCEPT ![w] = i]
    BY <1>2 DEF LockShared
  <2>2. resolved[w] \in Path
    BY <1>2 DEF LockShared, TypeOK
  <2>3. /\ i \notin Remembered /\ i[1] = w
        /\ Live(rows', i) /\ rows'[i].path = resolved[w] /\ rows'[i].mode = "shared"
        /\ \A j \in LockId \ {i} : SameRow(j)
        /\ Compatible(rows')
    BY <2>1, <2>2, AcquireRows DEF LockMode
  <2>4. BuildersHoldTheirRows'
    BY <1>2, <2>3, BuildersKeepTheirRows DEF LockShared, TypeOK, Remembered
  <2>5. WorkersHoldTheirRows'
    BY <1>2, <2>1, <2>3 DEF LockShared, WorkersHoldTheirRows, TypeOK, SameRow, HoldsRow,
       Remembered
  <2>6. ExclusiveRowsAreOld'
    BY <1>2, <2>3, OldRowsStayOld DEF LockShared, SameRow, builderVars
  <2>7. NoNewReaders
    BY <1>2, <2>1, <2>3 DEF LockShared, NoNewReaders, ReadsUnderLease, WorkersHoldTheirRows,
       SameRow, Remembered, TypeOK
  <2>8. DirectoryInv'
    BY <1>2, <2>7, DirectoriesStay DEF LockShared
  <2> QED
    BY <2>3, <2>4, <2>5, <2>6, <2>8 DEF LeaseInv
<1>3. CASE LockSharedTimesOut(w)
  <2>1. Compatible(rows') /\ \A j \in LockId : SameRow(j)
    BY <1>3, RefusedRows DEF LockSharedTimesOut
  <2>2. BuildersHoldTheirRows'
    BY <1>3, <2>1, BuildersKeepTheirRows DEF LockSharedTimesOut, TypeOK
  <2>3. WorkersHoldTheirRows'
    BY <1>3, <2>1 DEF LockSharedTimesOut, WorkersHoldTheirRows, TypeOK, SameRow, HoldsRow
  <2>4. ExclusiveRowsAreOld'
    BY <1>3, <2>1, OldRowsStayOld DEF LockSharedTimesOut, SameRow, builderVars
  <2>5. DirectoryInv'
    <3>1. NoNewReaders
      BY <1>3, <2>1 DEF LockSharedTimesOut, NoNewReaders, ReadsUnderLease, WorkersHoldTheirRows,
         SameRow, TypeOK
    <3> QED
      BY <1>3, <3>1, DirectoriesStay DEF LockSharedTimesOut
  <2> QED
    BY <2>1, <2>2, <2>3, <2>4, <2>5 DEF LeaseInv
<1>4. CASE DropLock(w) \/ FinishJob(w)
  <2> USE DEF DropLock, FinishJob
  <2>1. shareLock[w] \in LockId /\ shareLock[w][1] = w
    BY <1>4 DEF WorkersHoldTheirRows, TypeOK
  <2>2. /\ ~ Live(rows', shareLock[w])
        /\ \A j \in LockId \ {shareLock[w]} : SameRow(j)
        /\ Compatible(rows')
    BY <1>4, <2>1, ReleaseRows
  <2>3. BuildersHoldTheirRows'
    <3>1. \A b \in Builders : /\ buildLock[b] # NoLock => buildLock[b] # shareLock[w]
                              /\ pruneLock[b] # NoLock => pruneLock[b] # shareLock[w]
      BY <2>1 DEF BuildersHoldTheirRows
    <3> QED
      BY <1>4, <2>2, <3>1, BuildersKeepTheirRows DEF TypeOK
  <2>4. WorkersHoldTheirRows'
    <3>1. /\ wpc'[w] \in {"idle", "resolve"} /\ shareLock'[w] = NoLock
          /\ \A v \in Workers \ {w} : /\ wpc'[v] = wpc[v] /\ resolved'[v] = resolved[v]
                                      /\ shareLock'[v] = shareLock[v]
      BY <1>4 DEF TypeOK
    <3>2. ASSUME NEW v \in Workers \ {w}
          PROVE  /\ wpc'[v] \in {"check", "drop", "reading"} <=> shareLock'[v] # NoLock
                 /\ shareLock'[v] # NoLock =>
                      /\ shareLock'[v][1] = v
                      /\ TimelyJobs \/ Live(rows', shareLock'[v]) =>
                           /\ Live(rows', shareLock'[v])
                           /\ rows'[shareLock'[v]].path = resolved'[v]
                           /\ rows'[shareLock'[v]].mode = "shared"
      <4> HIDE DEF DropLock, FinishJob
      <4>1. /\ wpc[v] \in {"check", "drop", "reading"} <=> shareLock[v] # NoLock
            /\ shareLock[v] # NoLock =>
                 /\ shareLock[v] \in LockId
                 /\ shareLock[v][1] = v
                 /\ TimelyJobs \/ Live(rows, shareLock[v])
                      => HoldsRow(shareLock[v], resolved[v], "shared")
        BY DEF WorkersHoldTheirRows, TypeOK
      <4>2. shareLock[v] # NoLock => SameRow(shareLock[v])
        BY <2>1, <2>2, <4>1
      <4> QED
        BY <3>1, <4>1, <4>2 DEF SameRow, HoldsRow
    <3> QED
      BY <3>1, <3>2 DEF WorkersHoldTheirRows, HoldsRow
  <2>5. ExclusiveRowsAreOld'
    BY <1>4, <2>2, OldRowsStayOld DEF SameRow, builderVars
  <2>6. DirectoryInv'
    <3>1. NoNewReaders
      <4> SUFFICES ASSUME NEW v \in Workers, ReadsUnderLease(v)'
                   PROVE  ReadsUnderLease(v) /\ resolved'[v] = resolved[v]
        BY DEF NoNewReaders
      <4>1. /\ v # w
            /\ wpc'[v] = wpc[v] /\ resolved'[v] = resolved[v] /\ shareLock'[v] = shareLock[v]
        BY <1>4 DEF ReadsUnderLease, TypeOK
      <4>2. shareLock[v] \in LockId \ {shareLock[w]}
        BY <2>1, <4>1 DEF ReadsUnderLease, WorkersHoldTheirRows, TypeOK
      <4> QED
        BY <2>2, <4>1, <4>2 DEF ReadsUnderLease, SameRow
    <3> QED
      BY <1>4, <3>1, DirectoriesStay
  <2> QED
    BY <2>2, <2>3, <2>4, <2>5, <2>6 DEF LeaseInv
<1> QED
  BY <1>1, <1>2, <1>3, <1>4 DEF WorkerStep

(* A lease runs out, but not one that a builder takes for its build lock.  *)
LEMMA ExpireInv ==
  ASSUME TypeOK, TypeOK', GraphInv, TimelyBuilds, NEW i \in LockId, Expire(i)
  PROVE  GraphInv'
<1>0. /\ Compatible(rows) /\ BuildersHoldTheirRows /\ WorkersHoldTheirRows
      /\ ExclusiveRowsAreOld /\ DirectoryInv
  BY DEF GraphInv, LeaseInv
<1>1. /\ \A b \in Builders : i # buildLock[b]
      /\ TimelyJobs => \A w \in Workers : i # shareLock[w]
      /\ UNCHANGED <<link, staged, disk, nextName, builderVars, workerVars>>
  BY DEF Expire
<1>2. /\ ~ Live(rows', i)
      /\ \A j \in LockId \ {i} : SameRow(j)
      /\ Compatible(rows')
  BY <1>0, ExpireRows
<1>3. BuildersHoldTheirRows'
  BY <1>0, <1>1, <1>2 DEF BuildersHoldTheirRows, builderVars, SameRow, HoldsRow, TypeOK
<1>4. WorkersHoldTheirRows'
  BY <1>0, <1>1, <1>2 DEF WorkersHoldTheirRows, workerVars, SameRow, HoldsRow, TypeOK
<1>5. ExclusiveRowsAreOld'
  BY <1>0, <1>1, <1>2, OldRowsStayOld DEF SameRow, builderVars
<1>6. NoNewReaders
  BY <1>0, <1>1, <1>2 DEF NoNewReaders, ReadsUnderLease, WorkersHoldTheirRows, workerVars, SameRow,
     TypeOK
<1>7. DirectoryInv'
  BY <1>0, <1>1, <1>6, DirectoriesStay
<1> QED
  BY <1>2, <1>3, <1>4, <1>5, <1>7 DEF GraphInv, LeaseInv

LEMMA NextInv ==
  ASSUME TypeOK, TypeOK', GraphInv, TimelyBuilds, [Next]_vars
  PROVE  GraphInv'
<1>1. CASE UNCHANGED vars
  BY <1>1 DEF vars, builderVars, workerVars, GraphInv, LeaseInv, DirectoryInv,
     BuildersHoldTheirRows, WorkersHoldTheirRows, NamesInOrder,
     PrunersKeepToOldGenerations, BuildersMakeNewGenerations, BuildInProgressSurvives,
     ExclusiveRowsAreOld, CurrentGraphIsComplete, RemovalsAreUnread, LeasedGraphsStay,
     ReadsUnderLease, HoldsRow
<1> QED
  BY <1>1, BuilderStepInv, WorkerStepInv, ExpireInv DEF Next

(* Provided that no build lock runs out under its builder, the invariant   *)
(* holds for any number of builders, workers, generations and crashes,     *)
(* whoever else overruns a lease.                                          *)
THEOREM GraphInvHolds ==
  ASSUME TimelyBuilds
  PROVE  Spec => []GraphInv
<1>1. TypeOK /\ TypeOK' /\ GraphInv /\ [Next]_vars => GraphInv'
  BY NextInv
<1> QED
  BY <1>1, InitInv, TypeCorrect, PTL DEF Spec

-----------------------------------------------------------------------------
(* What follows from the invariant.                                        *)

(* The build lock admits a single build at a time.                         *)
THEOREM OneBuildHolds ==
  ASSUME TimelyBuilds
  PROVE  Spec => []OneBuildAtATime
<1>1. TypeOK /\ GraphInv => OneBuildAtATime
  BY OneBuilder DEF GraphInv, LeaseInv
<1> QED
  BY <1>1, TypeCorrect, GraphInvHolds, PTL

(* No reader loses its graph while its lease lasts, even should a pruner   *)
(* overrun its own lock on that graph's directory.                         *)
THEOREM LeasesKeepGraphs ==
  ASSUME TimelyBuilds
  PROVE  Spec => []LeasedGraphsStay
<1>1. GraphInv => LeasedGraphsStay
  BY DEF GraphInv, DirectoryInv
<1> QED
  BY <1>1, GraphInvHolds, PTL

(* So where no job outlives its lease, no reader loses its graph.          *)
THEOREM ReadersAreSafe ==
  ASSUME TimelyBuilds, TimelyJobs
  PROVE  Spec => []ReadersKeepTheirGraph
<1>1. GraphInv => ReadersKeepTheirGraph
  BY DEF GraphInv, LeaseInv, DirectoryInv, ReadersKeepTheirGraph, LeasedGraphsStay,
     ReadsUnderLease, WorkersHoldTheirRows, HoldsRow
<1> QED
  BY <1>1, GraphInvHolds, PTL

(* The symlink always leads to a whole graph.                              *)
THEOREM CurrentGraphIsServed ==
  ASSUME TimelyBuilds
  PROVE  Spec => []CurrentGraphIsComplete
<1>1. GraphInv => CurrentGraphIsComplete
  BY DEF GraphInv, DirectoryInv
<1> QED
  BY <1>1, GraphInvHolds, PTL

(* Nobody deletes what is being built.                                     *)
THEOREM BuildsInProgressSurvive ==
  ASSUME TimelyBuilds
  PROVE  Spec => []BuildInProgressSurvives
<1>1. GraphInv => BuildInProgressSurvives
  BY DEF GraphInv, DirectoryInv
<1> QED
  BY <1>1, GraphInvHolds, PTL

(* The current generation is never locked exclusively.                     *)
THEOREM CurrentGraphIsSpared ==
  ASSUME TimelyBuilds
  PROVE  Spec => []PrunersSpareTheCurrentGraph
<1>1. TypeOK /\ GraphInv => PrunersSpareTheCurrentGraph
  <2> SUFFICES ASSUME TypeOK, GraphInv, NEW i \in LockId,
                      Live(rows, i), rows[i].mode = "exclusive", rows[i].path = link
               PROVE  FALSE
    BY DEF PrunersSpareTheCurrentGraph
  <2>1. rows[i].path \in Path /\ link \in Generation \cup {NoGeneration}
    BY DEF TypeOK, LockTables, LockRow, Live
  <2>2. rows[i].path \in Generation
    BY <2>1 DEF Generation, NoGeneration
  <2> QED
    BY <2>2 DEF GraphInv, LeaseInv, ExclusiveRowsAreOld
<1> QED
  BY <1>1, TypeCorrect, GraphInvHolds, PTL

(* The current graph is only ever replaced by a newer one.                 *)
THEOREM LinkOnlyMovesForward ==
  ASSUME TimelyBuilds
  PROVE  Spec => LinkMovesForward
<1>1. TypeOK /\ GraphInv /\ [Next]_vars => [link' # link => link' > link]_vars
  <2> SUFFICES ASSUME TypeOK, GraphInv, Next, link' # link
               PROVE  link' > link
    BY DEF vars
  <2>1. PICK b \in Builders : ReplaceLink(b)
    BY DEF Next, BuilderStep, WorkerStep, StartBuild, SkipBuild, CrashBuilder, ReadLink,
       ListGenerations, LockTarget, WaitForTarget, GiveUpOnTarget, StartRemoval,
       EndRemoval, UnlockTarget, CreateGeneration, FinishTiles, WriteMeta, StageLink, Fail,
       ReleaseBuildLock, StartJob, ResolveLink, ResolveFails, LockShared,
       LockSharedTimesOut, CheckCurrent, DropLock, FinishJob, CrashWorker, Expire
  <2>2. bpc[b] = "replace" /\ link' = staged
    BY <2>1 DEF ReplaceLink, BuilderGoes
  <2>3. staged = made[b] /\ link < made[b] /\ made[b] \in Generation
    BY <2>2 DEF GraphInv, DirectoryInv, BuildInProgressSurvives,
       BuildersMakeNewGenerations, Building
  <2> QED
    BY <2>2, <2>3 DEF TypeOK, Generation, NoGeneration
<1> QED
  BY <1>1, TypeCorrect, GraphInvHolds, PTL DEF Spec, LinkMovesForward

(* A provider that is ready stays ready.                                   *)
THEOREM ReadinessHolds ==
  ASSUME TimelyBuilds
  PROVE  Spec => ReadyStaysReady
<1>1. TypeOK /\ GraphInv /\ GraphInv' /\ [link' # link => link' > link]_vars
        => [Resolvable => Resolvable']_vars
  BY DEF GraphInv, DirectoryInv, CurrentGraphIsComplete, Resolvable, TypeOK, Generation,
     NoGeneration, vars
<1> QED
  BY <1>1, TypeCorrect, GraphInvHolds, LinkOnlyMovesForward, PTL
     DEF LinkMovesForward, ReadyStaysReady

-----------------------------------------------------------------------------
(* The room a provider's graphs take on disk, for any KEEP_GENERATIONS:    *)
(* prune_generations leaves that many, and the build adds one.             *)

LEMMA DirectoriesAreFinite ==
  ASSUME NEW S \in SUBSET Generation
  PROVE  IsFiniteSet(S) /\ Cardinality(S) \in Nat
<1>1. IsFiniteSet(Generation)
  BY FS_Interval DEF Generation
<1>2. IsFiniteSet(S)
  BY <1>1, FS_Subset
<1> QED
  BY <1>2, FS_CardinalityType

LEMMA FewerDirectories ==
  ASSUME NEW S \in SUBSET Generation, NEW T \in SUBSET S
  PROVE  Cardinality(T) <= Cardinality(S)
  BY DirectoriesAreFinite, FS_Subset

(* The slice others[:KEEP_GENERATIONS - 1] of the list, newest first, has  *)
(* no more members than its length: the number of newer directories is     *)
(* another one for each of them.                                           *)
LEMMA RetainedAreFew ==
  ASSUME NEW S \in SUBSET Generation
  PROVE  Cardinality(Retained(S)) <= KeepGenerations - 1
<1> DEFINE Newer(g) == { h \in S : h > g }
           rank == [g \in Retained(S) |-> Cardinality(Newer(g))]
           ranks == 0..(KeepGenerations - 2)
<1>1. \A g \in Retained(S) : g \in S /\ g \in Int
  BY DEF Retained, Generation
<1>2. rank \in [Retained(S) -> ranks]
  <2> SUFFICES ASSUME NEW g \in Retained(S) PROVE Cardinality(Newer(g)) \in ranks
    OBVIOUS
  <2>1. Cardinality(Newer(g)) \in Nat
    BY DirectoriesAreFinite
  <2>2. Cardinality(Newer(g)) < KeepGenerations - 1
    BY DEF Retained
  <2> QED
    BY <2>1, <2>2
<1>3. ASSUME NEW g \in Retained(S), NEW h \in Retained(S), g < h
      PROVE  rank[g] # rank[h]
  <2>0. /\ g \in Int /\ h \in S /\ h \in Int
        /\ \A x \in S : x \in Int
    BY <1>1 DEF Generation
  <2>1. Newer(h) \in SUBSET Newer(g) /\ h \in Newer(g) /\ h \notin Newer(h)
    <3>1. \A x \in S : x > h => x > g
      BY <1>3, <2>0
    <3>2. h > g /\ ~ (h > h)
      BY <1>3, <2>0
    <3> QED
      BY <2>0, <3>1, <3>2, Zenon
  <2>2. IsFiniteSet(Newer(g))
    BY DirectoriesAreFinite
  <2>3. Newer(g) # Newer(h)
    BY <2>1
  <2> HIDE DEF Newer
  <2>4. Cardinality(Newer(g)) # Cardinality(Newer(h))
    BY <2>1, <2>2, <2>3, FS_Subset
  <2> QED
    BY <2>4
<1> HIDE DEF rank
<1>4. rank \in Injection(Retained(S), ranks)
  BY <1>1, <1>2, <1>3 DEF Injection, IsInjective
<1>5. IsFiniteSet(ranks) /\ Cardinality(ranks) = KeepGenerations - 1
  <2>1. 0 \in Int /\ KeepGenerations - 2 \in Int /\ KeepGenerations >= 1
    OBVIOUS
  <2>2. /\ IsFiniteSet(ranks)
        /\ Cardinality(ranks) = IF 0 > KeepGenerations - 2 THEN 0
                               ELSE (KeepGenerations - 2) - 0 + 1
    BY <2>1, FS_Interval
  <2> QED
    BY <2>1, <2>2
<1> QED
  BY <1>4, <1>5, FS_Injection

(* When the list is made, what is not to be pruned fits. *)
LEMMA ListLeavesRoom ==
  ASSUME NEW b \in Builders, TypeOK
  PROVE  Cardinality(OnDisk \ (Others(b) \ Retained(Others(b)))) <= KeepGenerations
<1> DEFINE kept == Retained(Others(b))
<1>1. Others(b) \in SUBSET Generation /\ kept \in SUBSET Generation
  BY DEF Others, OnDisk, Retained
<1>2. Cardinality(kept) <= KeepGenerations - 1
  BY <1>1, RetainedAreFew
<1>3. /\ IsFiniteSet(kept \cup {current[b]})
      /\ Cardinality(kept \cup {current[b]}) <= KeepGenerations
  <2>1. IsFiniteSet(kept) /\ Cardinality(kept) \in Nat
    BY <1>1, DirectoriesAreFinite
  <2> HIDE DEF kept
  <2>2. /\ IsFiniteSet(kept \cup {current[b]})
        /\ \/ Cardinality(kept \cup {current[b]}) = Cardinality(kept)
           \/ Cardinality(kept \cup {current[b]}) = Cardinality(kept) + 1
    BY <2>1, FS_AddElement
  <2>3. Cardinality(kept) <= KeepGenerations - 1
    BY <1>2 DEF kept
  <2> QED
    BY <2>1, <2>2, <2>3
<1>4. OnDisk \ (Others(b) \ kept) \in SUBSET (kept \cup {current[b]})
  BY DEF Others
<1> DEFINE left == OnDisk \ (Others(b) \ kept)
           room == kept \cup {current[b]}
<1> HIDE DEF left, room
<1>5. /\ Cardinality(left) <= Cardinality(room)
      /\ Cardinality(left) \in Nat
      /\ Cardinality(room) \in Nat
  BY <1>3, <1>4, FS_Subset, FS_CardinalityType DEF left, room
<1>6. Cardinality(room) <= KeepGenerations
  BY <1>3 DEF room
<1>7. Cardinality(left) <= KeepGenerations
  BY <1>5, <1>6
<1> QED
  BY <1>7 DEF left

LEMMA InitDisk == Init => DiskInv
<1> SUFFICES ASSUME Init PROVE DiskInv
  OBVIOUS
<1>1. OnDisk = {}
  BY DEF Init, OnDisk
<1> QED
  BY <1>1, FS_EmptySet DEF Init, DiskInv, AtMostKeepPlusOneOnDisk, PruningMakesRoom, Pruning

(* Steps that add no directory and let nobody off pruning the rest. *)
LEMMA NothingAdded ==
  ASSUME TypeOK, DiskInv, OnDisk' \in SUBSET OnDisk,
         \A b \in Builders :
           /\ bpc'[b] \in Pruning => bpc[b] \in Pruning /\ todo'[b] = todo[b]
           /\ bpc'[b] = "unlock" => target'[b] \notin OnDisk'
  PROVE  DiskInv'
<1>1. OnDisk \in SUBSET Generation
  BY DEF OnDisk
<1>2. Cardinality(OnDisk') <= Cardinality(OnDisk)
  BY <1>1, FewerDirectories
<1>3. Cardinality(OnDisk) \in Nat /\ Cardinality(OnDisk') \in Nat
  BY <1>1, DirectoriesAreFinite
<1>4. AtMostKeepPlusOneOnDisk'
  BY <1>2, <1>3 DEF DiskInv, AtMostKeepPlusOneOnDisk
<1>5. ASSUME NEW b \in Builders, bpc'[b] \in Pruning
      PROVE  Cardinality(OnDisk' \ todo'[b]) <= KeepGenerations
  <2>1. /\ todo'[b] = todo[b]
        /\ Cardinality(OnDisk \ todo[b]) <= KeepGenerations
    BY <1>5 DEF DiskInv, PruningMakesRoom
  <2>2. /\ OnDisk' \ todo[b] \in SUBSET (OnDisk \ todo[b])
        /\ OnDisk \ todo[b] \in SUBSET Generation
        /\ OnDisk' \ todo[b] \in SUBSET Generation
    BY <1>1
  <2>3. /\ Cardinality(OnDisk' \ todo[b]) <= Cardinality(OnDisk \ todo[b])
        /\ Cardinality(OnDisk' \ todo[b]) \in Nat
        /\ Cardinality(OnDisk \ todo[b]) \in Nat
    BY <2>2, FewerDirectories, DirectoriesAreFinite
  <2> QED
    BY <2>1, <2>3
<1> QED
  BY <1>4, <1>5 DEF DiskInv, PruningMakesRoom

LEMMA BuilderStepDisk ==
  ASSUME TypeOK, TypeOK', GraphInv, DiskInv, RmtreeIsReliable, NEW b \in Builders,
         StartBuild(b) \/ SkipBuild(b) \/ BuilderStep(b) \/ CrashBuilder(b)
  PROVE  DiskInv'
<1> USE DEF BuilderGoes, builderVars, Pruning
<1>1. CASE ListGenerations(b)
  <2>1. OnDisk' = OnDisk
    BY <1>1 DEF ListGenerations, OnDisk
  <2>2. Cardinality(OnDisk \ (Others(b) \ Retained(Others(b)))) <= KeepGenerations
    BY ListLeavesRoom
  <2> QED
    BY <1>1, <2>1, <2>2 DEF ListGenerations, DiskInv, AtMostKeepPlusOneOnDisk,
       PruningMakesRoom, TypeOK
<1>2. CASE StartRemoval(b)
  <2>1. OnDisk' = OnDisk
    BY <1>2 DEF StartRemoval, OnDisk, TypeOK
  <2> QED
    BY <1>2, <2>1, NothingAdded DEF StartRemoval, TypeOK, DiskInv, PruningMakesRoom
<1>3. CASE EndRemoval(b)
  <2>1. disk' = [disk EXCEPT ![target[b]] = "absent"]
    BY <1>3 DEF EndRemoval
  <2>2. OnDisk' \in SUBSET OnDisk /\ target[b] \notin OnDisk'
    BY <2>1 DEF OnDisk, TypeOK
  <2> QED
    BY <1>3, <2>2, NothingAdded DEF EndRemoval, TypeOK, DiskInv, PruningMakesRoom
<1>4. CASE UnlockTarget(b)
  <2>1. OnDisk' = OnDisk /\ target[b] \notin OnDisk
    BY <1>4 DEF UnlockTarget, OnDisk, DiskInv, PruningMakesRoom
  <2>2. OnDisk' \ todo'[b] = OnDisk \ todo[b]
    BY <1>4, <2>1 DEF UnlockTarget, TypeOK
  <2>3. Cardinality(OnDisk' \ todo'[b]) <= KeepGenerations
    BY <1>4, <2>2 DEF UnlockTarget, DiskInv, PruningMakesRoom
  <2> QED
    BY <1>4, <2>1, <2>3 DEF UnlockTarget, DiskInv, AtMostKeepPlusOneOnDisk,
       PruningMakesRoom, TypeOK
<1>5. CASE CreateGeneration(b)
  <2>1. Cardinality(OnDisk) <= KeepGenerations
    <3>1. OnDisk \ todo[b] = OnDisk
      BY <1>5 DEF CreateGeneration
    <3> QED
      BY <1>5, <3>1 DEF CreateGeneration, DiskInv, PruningMakesRoom
  <2>2. OnDisk' = OnDisk \cup {nextName} /\ OnDisk \in SUBSET Generation
    BY <1>5 DEF CreateGeneration, OnDisk, TypeOK
  <2>3. IsFiniteSet(OnDisk) /\ Cardinality(OnDisk) \in Nat
    BY <2>2, DirectoriesAreFinite
  <2>4. \/ Cardinality(OnDisk') = Cardinality(OnDisk)
        \/ Cardinality(OnDisk') = Cardinality(OnDisk) + 1
    BY <2>2, <2>3, FS_AddElement
  <2>5. \A c \in Builders : bpc'[c] \notin Pruning
    <3>1. \A c \in Builders \ {b} : bpc[c] = "idle"
      BY <1>5, OneBuilder DEF CreateGeneration, OneBuildAtATime, GraphInv, LeaseInv
    <3> QED
      BY <1>5, <3>1 DEF CreateGeneration, TypeOK
  <2> QED
    BY <2>1, <2>3, <2>4, <2>5 DEF DiskInv, AtMostKeepPlusOneOnDisk, PruningMakesRoom
<1>6. CASE FinishTiles(b)
  <2>1. OnDisk' = OnDisk
    BY <1>6 DEF FinishTiles, OnDisk, TypeOK
  <2> QED
    BY <1>6, <2>1, NothingAdded DEF FinishTiles, TypeOK, DiskInv, PruningMakesRoom
<1>7. CASE LockTarget(b)
  <2>1. OnDisk' = OnDisk
    BY <1>7 DEF LockTarget, OnDisk
  <2>2. \A c \in Builders : bpc'[c] = "unlock" => bpc[c] = "unlock" /\ target'[c] = target[c]
    BY <1>7 DEF LockTarget, TypeOK
  <2>3. \A c \in Builders : bpc'[c] \in Pruning => bpc[c] \in Pruning /\ todo' = todo
    BY <1>7 DEF LockTarget, TypeOK
  <2> QED
    BY <2>1, <2>2, <2>3, NothingAdded DEF DiskInv, PruningMakesRoom
<1>8. CASE \/ StartBuild(b) \/ SkipBuild(b) \/ ReadLink(b) \/ WaitForTarget(b)
           \/ GiveUpOnTarget(b) \/ WriteMeta(b) \/ StageLink(b) \/ ReplaceLink(b)
           \/ Fail(b) \/ ReleaseBuildLock(b) \/ CrashBuilder(b)
  <2> USE DEF StartBuild, SkipBuild, ReadLink, WaitForTarget, GiveUpOnTarget, WriteMeta,
     StageLink, ReplaceLink, Fail, ReleaseBuildLock, CrashBuilder
  <2>1. OnDisk' = OnDisk
    BY <1>8 DEF OnDisk
  <2>2. \A c \in Builders : bpc'[c] = "unlock" => bpc[c] = "unlock" /\ target'[c] = target[c]
    BY <1>8 DEF TypeOK
  <2>3. \A c \in Builders : bpc'[c] \in Pruning => bpc[c] \in Pruning /\ todo'[c] = todo[c]
    BY <1>8 DEF TypeOK
  <2> QED
    BY <2>1, <2>2, <2>3, NothingAdded DEF DiskInv, PruningMakesRoom
<1> QED
  BY <1>1, <1>2, <1>3, <1>4, <1>5, <1>6, <1>7, <1>8 DEF BuilderStep

LEMMA NextDisk ==
  ASSUME TypeOK, TypeOK', GraphInv, DiskInv, RmtreeIsReliable, [Next]_vars
  PROVE  DiskInv'
<1>1. CASE UNCHANGED <<disk, builderVars>>
  <2>1. OnDisk' = OnDisk
    BY <1>1 DEF OnDisk
  <2> QED
    BY <1>1, <2>1 DEF builderVars, DiskInv, AtMostKeepPlusOneOnDisk, PruningMakesRoom
<1>2. ASSUME NEW w \in Workers, StartJob(w) \/ WorkerStep(w) \/ CrashWorker(w)
      PROVE  UNCHANGED <<disk, builderVars>>
  BY <1>2 DEF StartJob, WorkerStep, CrashWorker, ResolveLink, ResolveFails, LockShared,
     LockSharedTimesOut, CheckCurrent, DropLock, FinishJob
<1>3. ASSUME NEW i \in LockId, Expire(i)
      PROVE  UNCHANGED <<disk, builderVars>>
  BY <1>3 DEF Expire
<1> QED
  BY <1>1, <1>2, <1>3, BuilderStepDisk DEF Next, vars

(* Provided that no lease runs out under a live holder and that rmtree     *)
(* deletes what it is told to, there are never more than KEEP_GENERATIONS  *)
(* graphs on disk beside the newest one, leftovers of dead builds included.*)
THEOREM DiskBoundHolds ==
  ASSUME TimelyBuilds, RmtreeIsReliable
  PROVE  Spec => []AtMostKeepPlusOneOnDisk
<1>1. TypeOK /\ TypeOK' /\ GraphInv /\ DiskInv /\ [Next]_vars => DiskInv'
  BY NextDisk
<1>2. DiskInv => AtMostKeepPlusOneOnDisk
  BY DEF DiskInv
<1> QED
  BY <1>1, <1>2, InitDisk, TypeCorrect, GraphInvHolds, PTL DEF Spec

-----------------------------------------------------------------------------
(* Builds and jobs get on, whether leases run out under them or not.       *)

(* A list of directories is no longer than there are generations, and one  *)
(* shorter without one of them.                                            *)
LEMMA ListsAreShort ==
  ASSUME NEW S \in SUBSET Generation
  PROVE  /\ Cardinality(S) \in Nat /\ Cardinality(S) <= MaxGenerations
         /\ S = {} => Cardinality(S) = 0
         /\ \A g \in S : Cardinality(S \ {g}) = Cardinality(S) - 1
<1>1. IsFiniteSet(Generation) /\ Cardinality(Generation) = MaxGenerations
  <2>1. IsFiniteSet(1 .. MaxGenerations)
        /\ Cardinality(1 .. MaxGenerations) = IF 1 > MaxGenerations THEN 0 ELSE MaxGenerations - 1 + 1
    BY FS_Interval
  <2> QED
    BY <2>1 DEF Generation
<1>2. IsFiniteSet(S) /\ Cardinality(S) <= MaxGenerations
  BY <1>1, FS_Subset
<1>3. Cardinality(S) \in Nat
  BY <1>2, FS_CardinalityType
<1>4. S = {} => Cardinality(S) = 0
  BY FS_EmptySet
<1>5. \A g \in S : Cardinality(S \ {g}) = Cardinality(S) - 1
  BY <1>2, FS_RemoveElement
<1> QED
  BY <1>2, <1>3, <1>4, <1>5

(* What the pruning loop is at is on its list.                             *)
TargetsAreListed ==
  \A b \in Builders : bpc[b] \in {"wait", "remove", "removing", "unlock"} => target[b] \in todo[b]

BuilderMoves(b) == StartBuild(b) \/ SkipBuild(b) \/ BuilderStep(b) \/ CrashBuilder(b)
WorkerMoves(w) == StartJob(w) \/ WorkerStep(w) \/ CrashWorker(w)

(* A process moves nobody but itself.                                      *)
LEMMA OneMoves ==
  ASSUME TypeOK
  PROVE  /\ \A b \in Builders : BuilderMoves(b) =>
              /\ UNCHANGED workerVars
              /\ \A c \in Builders \ {b} :
                   bpc'[c] = bpc[c] /\ todo'[c] = todo[c] /\ target'[c] = target[c]
         /\ \A w \in Workers : WorkerMoves(w) =>
              /\ UNCHANGED builderVars
              /\ \A v \in Workers \ {w} : wpc'[v] = wpc[v] /\ attempt'[v] = attempt[v]
         /\ \A i \in LockId : Expire(i) => UNCHANGED <<builderVars, workerVars>>
<1>1. ASSUME NEW b \in Builders, BuilderMoves(b)
      PROVE  /\ UNCHANGED workerVars
             /\ \A c \in Builders \ {b} :
                  bpc'[c] = bpc[c] /\ todo'[c] = todo[c] /\ target'[c] = target[c]
  <2> USE DEF TypeOK, BuilderGoes, builderVars, workerVars
  <2>1. CASE StartBuild(b) \/ SkipBuild(b) \/ CrashBuilder(b) \/ ReadLink(b) \/ ListGenerations(b)
    BY <2>1 DEF StartBuild, SkipBuild, CrashBuilder, ReadLink, ListGenerations
  <2>2. CASE LockTarget(b) \/ WaitForTarget(b) \/ GiveUpOnTarget(b) \/ StartRemoval(b)
    BY <2>2 DEF LockTarget, WaitForTarget, GiveUpOnTarget, StartRemoval
  <2>3. CASE EndRemoval(b) \/ UnlockTarget(b) \/ CreateGeneration(b) \/ FinishTiles(b)
    BY <2>3 DEF EndRemoval, UnlockTarget, CreateGeneration, FinishTiles
  <2>4. CASE WriteMeta(b) \/ StageLink(b) \/ ReplaceLink(b) \/ Fail(b) \/ ReleaseBuildLock(b)
    BY <2>4 DEF WriteMeta, StageLink, ReplaceLink, Fail, ReleaseBuildLock
  <2> QED
    BY <1>1, <2>1, <2>2, <2>3, <2>4 DEF BuilderMoves, BuilderStep
<1>2. ASSUME NEW w \in Workers, WorkerMoves(w)
      PROVE  /\ UNCHANGED builderVars
             /\ \A v \in Workers \ {w} : wpc'[v] = wpc[v] /\ attempt'[v] = attempt[v]
  BY <1>2 DEF TypeOK, WorkerMoves, WorkerStep, StartJob, CrashWorker, ResolveLink, ResolveFails,
     LockShared, LockSharedTimesOut, CheckCurrent, DropLock, FinishJob, WorkerGoes, NextAttempt
<1>3. ASSUME NEW i \in LockId, Expire(i) PROVE UNCHANGED <<builderVars, workerVars>>
  BY <1>3 DEF Expire
<1> QED
  BY <1>1, <1>2, <1>3

LEMMA WhoMoves ==
  Next <=> \/ \E b \in Builders : BuilderMoves(b)
           \/ \E w \in Workers : WorkerMoves(w)
           \/ \E i \in LockId : Expire(i)
  BY DEF Next, BuilderMoves, WorkerMoves

LEMMA NextListed == TypeOK /\ TargetsAreListed /\ [Next]_vars => TargetsAreListed'
<1> SUFFICES ASSUME TypeOK, TargetsAreListed, [Next]_vars PROVE TargetsAreListed'
  OBVIOUS
<1>1. ASSUME NEW b \in Builders, BuilderMoves(b) PROVE TargetsAreListed'
  <2>1. bpc'[b] \in {"wait", "remove", "removing", "unlock"} => target'[b] \in todo'[b]
    <3> USE DEF TypeOK, BuilderGoes, TargetsAreListed
    <3>1. CASE LockTarget(b) \/ WaitForTarget(b)
      BY <3>1 DEF LockTarget, WaitForTarget, NewestOf
    <3>2. CASE StartRemoval(b) \/ EndRemoval(b)
      BY <3>2 DEF StartRemoval, EndRemoval
    <3>3. CASE StartBuild(b) \/ SkipBuild(b) \/ CrashBuilder(b) \/ ReadLink(b) \/ ListGenerations(b)
               \/ GiveUpOnTarget(b) \/ UnlockTarget(b) \/ CreateGeneration(b)
      BY <3>3 DEF StartBuild, SkipBuild, CrashBuilder, ReadLink, ListGenerations, GiveUpOnTarget,
                  UnlockTarget, CreateGeneration, builderVars
    <3>4. CASE FinishTiles(b) \/ WriteMeta(b) \/ StageLink(b) \/ ReplaceLink(b) \/ Fail(b)
               \/ ReleaseBuildLock(b)
      BY <3>4 DEF FinishTiles, WriteMeta, StageLink, ReplaceLink, Fail, ReleaseBuildLock
    <3> QED
      BY <1>1, <3>1, <3>2, <3>3, <3>4 DEF BuilderMoves, BuilderStep
  <2> QED
    BY <1>1, <2>1, OneMoves DEF TargetsAreListed
<1>2. CASE UNCHANGED builderVars
  BY <1>2 DEF TargetsAreListed, builderVars
<1> QED
  BY <1>1, <1>2, OneMoves, WhoMoves DEF vars

(* How far each place in run_build is from its end.                        *)
LEMMA BuildWays ==
  ASSUME NEW n
  PROVE  /\ BuildWay("idle", n) = 0 /\ BuildWay("release", n) = 1 /\ BuildWay("replace", n) = 2
         /\ BuildWay("stage", n) = 3 /\ BuildWay("meta", n) = 4 /\ BuildWay("build", n) = 5
         /\ BuildWay("unlock", n) = 2 + 5 * n /\ BuildWay("removing", n) = 3 + 5 * n
         /\ BuildWay("remove", n) = 4 + 5 * n /\ BuildWay("wait", n) = 5 + 5 * n
         /\ BuildWay("prune", n) = 6 + 5 * n
         /\ BuildWay("list", n) = 7 + 5 * MaxGenerations
         /\ BuildWay("readlink", n) = 8 + 5 * MaxGenerations
  BY DEF BuildWay

LEMMA BuildStepGetsOn ==
  ASSUME TypeOK, TypeOK', TargetsAreListed, NEW b \in Builders, BuilderMoves(b), bpc[b] # "idle"
  PROVE  (bpc'[b] = bpc[b] /\ todo'[b] = todo[b]) \/ BuildLeft(b)' < BuildLeft(b)
<1> DEFINE n == Cardinality(todo[b])
           m == Cardinality(todo'[b])
           Moves(from, to) == bpc[b] = from /\ bpc'[b] = to
<1>1. /\ todo[b] \in SUBSET Generation /\ todo'[b] \in SUBSET Generation
      /\ MaxGenerations \in Nat
  BY DEF TypeOK
<1>2. n \in Nat /\ n <= MaxGenerations /\ m \in Nat /\ m <= MaxGenerations
  BY <1>1, ListsAreShort
<1>3. BuildLeft(b) = BuildWay(bpc[b], n) /\ BuildLeft(b)' = BuildWay(bpc'[b], m)
  BY DEF BuildLeft
<1>4. todo'[b] = todo[b] => m = n
  OBVIOUS
<1>5. ASSUME Moves("readlink", "list") \/ Moves("list", "prune") \/ Moves("build", "meta")
             \/ Moves("meta", "stage") \/ Moves("stage", "replace") \/ Moves("replace", "release")
             \/ Moves("release", "idle") \/ Moves("wait", "release")
      PROVE  BuildLeft(b)' < BuildLeft(b)
  <2> HIDE DEF n, m
  <2> QED
    BY <1>1, <1>2, <1>3, <1>5, BuildWays
<1>6. ASSUME Moves("prune", "remove") \/ Moves("prune", "wait") \/ Moves("wait", "remove")
             \/ Moves("remove", "removing") \/ Moves("removing", "unlock") \/ Moves("prune", "build"),
             todo' = todo
      PROVE  BuildLeft(b)' < BuildLeft(b)
  <2>1. m = n
    BY <1>4, <1>6
  <2> HIDE DEF n, m
  <2> QED
    BY <1>1, <1>2, <1>3, <1>6, <2>1, BuildWays
<1> USE DEF BuilderGoes
<1>7. CASE ReadLink(b) \/ ListGenerations(b) \/ FinishTiles(b) \/ WriteMeta(b) \/ StageLink(b)
           \/ ReplaceLink(b) \/ ReleaseBuildLock(b) \/ GiveUpOnTarget(b)
  BY <1>5, <1>7 DEF TypeOK, ReadLink, ListGenerations, FinishTiles, WriteMeta, StageLink, ReplaceLink,
     ReleaseBuildLock, GiveUpOnTarget
<1>8. CASE LockTarget(b) \/ WaitForTarget(b) \/ StartRemoval(b) \/ EndRemoval(b) \/ CreateGeneration(b)
  BY <1>6, <1>8 DEF TypeOK, LockTarget, WaitForTarget, StartRemoval, EndRemoval, CreateGeneration
<1>9. CASE UnlockTarget(b)
  <2>1. bpc[b] = "unlock" /\ bpc'[b] = "prune" /\ todo'[b] = todo[b] \ {target[b]} /\ target[b] \in todo[b]
    BY <1>9 DEF TypeOK, UnlockTarget, TargetsAreListed
  <2>2. m = n - 1
    BY <1>1, <2>1, ListsAreShort
  <2> HIDE DEF n, m
  <2> QED
    BY <1>2, <1>3, <2>1, <2>2, BuildWays
<1>10. CASE Fail(b) \/ CrashBuilder(b)
  <2>1. /\ bpc[b] \in BuilderPc \ {"idle"} /\ bpc'[b] \in {"release", "idle"}
        /\ bpc[b] = "release" => bpc'[b] = "idle"
    BY <1>10 DEF TypeOK, Fail, CrashBuilder
  <2> HIDE DEF n, m
  <2> QED
    BY <1>1, <1>2, <1>3, <2>1, BuildWays DEF BuilderPc
<1>11. CASE StartBuild(b) \/ SkipBuild(b)
  BY <1>11 DEF StartBuild, SkipBuild
<1> QED
  BY <1>7, <1>8, <1>9, <1>10, <1>11 DEF BuilderMoves, BuilderStep

(* No build goes on for ever, for any number of directories to prune and   *)
(* however often its locks are refused: it is over after as many steps as  *)
(* BuildLeft counts.                                                       *)
THEOREM BuildsDoGetOn == Spec => BuildsGetOn
<1> DEFINE GetsOn == \A b \in Builders :
                       bpc[b] # "idle"
                         => UNCHANGED <<bpc[b], todo[b]>> \/ BuildLeft(b)' < BuildLeft(b)
<1>1. TypeOK /\ TypeOK' /\ TargetsAreListed /\ [Next]_vars => [GetsOn]_vars
  <2> SUFFICES ASSUME TypeOK, TypeOK', TargetsAreListed, Next, NEW b \in Builders, bpc[b] # "idle"
               PROVE  (bpc'[b] = bpc[b] /\ todo'[b] = todo[b]) \/ BuildLeft(b)' < BuildLeft(b)
    OBVIOUS
  <2>1. CASE UNCHANGED builderVars
    BY <2>1 DEF builderVars
  <2> QED
    BY <2>1, BuildStepGetsOn, OneMoves, WhoMoves
<1>2. Init => TargetsAreListed
  BY DEF Init, TargetsAreListed
<1> QED
  BY <1>1, <1>2, NextListed, TypeCorrect, PTL DEF Spec, BuildsGetOn

(* How far each place in lock_generation_shared is from its end.           *)
LEMMA JobWays ==
  ASSUME NEW n
  PROVE  /\ JobWay("idle", n) = 0 /\ JobWay("reading", n) = 1
         /\ JobWay("drop", n) = 2 + 4 * (ResolveAttempts - 1 - n)
         /\ JobWay("check", n) = 3 + 4 * (ResolveAttempts - 1 - n)
         /\ JobWay("acquire", n) = 4 + 4 * (ResolveAttempts - 1 - n)
         /\ JobWay("resolve", n) = 5 + 4 * (ResolveAttempts - 1 - n)
  BY DEF JobWay

LEMMA JobStepGetsOn ==
  ASSUME TypeOK, TypeOK', NEW w \in Workers, WorkerMoves(w), wpc[w] # "idle"
  PROVE  JobLeft(w)' < JobLeft(w)
<1>1. /\ attempt[w] \in Nat /\ attempt[w] <= ResolveAttempts - 1 /\ attempt'[w] \in Nat
      /\ attempt'[w] <= ResolveAttempts - 1 /\ ResolveAttempts \in Nat
      /\ wpc[w] \in WorkerPc
  BY DEF TypeOK
<1>2. CASE CrashWorker(w) \/ FinishJob(w)
  <2>1. wpc'[w] = "idle"
    BY <1>2 DEF TypeOK, CrashWorker, FinishJob, WorkerGoes
  <2> QED
    BY <1>1, <2>1, JobWays DEF JobLeft, WorkerPc
<1>3. CASE ResolveLink(w) \/ LockShared(w) \/ CheckCurrent(w)
  <2>1. /\ attempt'[w] = attempt[w]
        /\ \/ wpc[w] = "resolve" /\ wpc'[w] = "acquire"
           \/ wpc[w] = "acquire" /\ wpc'[w] = "check"
           \/ wpc[w] = "check" /\ wpc'[w] \in {"reading", "drop"}
    BY <1>3 DEF TypeOK, ResolveLink, LockShared, CheckCurrent, WorkerGoes
  <2> QED
    BY <1>1, <2>1, JobWays DEF JobLeft
<1>4. CASE ResolveFails(w) \/ LockSharedTimesOut(w) \/ DropLock(w)
  <2>1. /\ wpc[w] \in {"resolve", "acquire", "drop"}
        /\ \/ wpc'[w] = "resolve" /\ attempt'[w] = attempt[w] + 1
           \/ wpc'[w] = "idle"
    BY <1>4 DEF TypeOK, ResolveFails, LockSharedTimesOut, DropLock, NextAttempt, WorkerGoes
  <2> QED
    BY <1>1, <2>1, JobWays DEF JobLeft
<1> QED
  BY <1>2, <1>3, <1>4 DEF WorkerMoves, WorkerStep, StartJob, WorkerGoes

(* No job looks for its generation for ever, however often the link moves  *)
(* or the lock is refused while it does.                                   *)
THEOREM JobsDoGetOn == Spec => JobsGetOn
<1> DEFINE GetsOn == \A w \in Workers :
                       wpc[w] # "idle"
                         => UNCHANGED <<wpc[w], attempt[w]>> \/ JobLeft(w)' < JobLeft(w)
<1>1. TypeOK /\ TypeOK' /\ [Next]_vars => [GetsOn]_vars
  <2> SUFFICES ASSUME TypeOK, TypeOK', Next, NEW w \in Workers, wpc[w] # "idle"
               PROVE  (wpc'[w] = wpc[w] /\ attempt'[w] = attempt[w]) \/ JobLeft(w)' < JobLeft(w)
    OBVIOUS
  <2>1. CASE UNCHANGED workerVars
    BY <2>1 DEF workerVars
  <2> QED
    BY <2>1, JobStepGetsOn, OneMoves, WhoMoves
<1> QED
  BY <1>1, TypeCorrect, PTL DEF Spec, JobsGetOn

-----------------------------------------------------------------------------
(* The service of leases.                                                  *)

(* A lock that is granted is a lease that the others admit. *)
LEMMA AcquireTakesLease ==
  ASSUME TypeOK, NEW holder, NEW i, NEW p \in Path, NEW m \in LockMode,
         Acquire(holder, i, p, m)
  PROVE  Service!Next
<1> DEFINE l == [id |-> i, path |-> p, mode |-> m]
<1>1. /\ i \in LockId /\ i \in Unused(rows) /\ Grantable(rows, p, m)
      /\ rows' = Granted(rows, i, p, m, Ttl) /\ rows \in LockTables /\ Ttl \in Nat \ {0}
  BY NextKeyIsFresh DEF Acquire, TypeOK, Ttl
<1>2. LeasesOf(rows') = LeasesOf(rows) \cup {l}
      /\ \A k \in LeasesOf(rows) :
           k.id # i /\ (k.path = p => k.mode = "shared" /\ m = "shared")
  BY <1>1, GrantTakesLease
<1>3. LeasesOf(rows)' = LeasesOf(rows')
  BY DEF LeasesOf, Live
<1>4. l \in Service!Lease
  BY <1>1 DEF Service!Lease, LockMode
<1>5. Service!Take(l)
  BY <1>2, <1>3 DEF Service!Take, Service!Admits
<1> QED
  BY <1>4, <1>5 DEF Service!Next

(* A step that writes no row and changes no live one ends leases at most. *)
LEMMA FewerRowsEndLeases ==
  ASSUME \A j \in LockId : Live(rows', j) => Live(rows, j) /\ rows'[j] = rows[j]
  PROVE  Service!Next \/ UNCHANGED LeasesOf(rows)
<1> DEFINE gone == LeasesOf(rows) \ LeasesOf(rows')
<1>1. LeasesOf(rows') \subseteq LeasesOf(rows)
  BY FewerLeases
<1>2. LeasesOf(rows)' = LeasesOf(rows')
  BY DEF LeasesOf, Live
<1>3. gone \in SUBSET LeasesOf(rows) /\ LeasesOf(rows)' = LeasesOf(rows) \ gone
  BY <1>1, <1>2
<1> QED
  BY <1>3 DEF Service!Next, Service!End

LEMMA RefusalEndsNone ==
  ASSUME TypeOK, NEW p, NEW m, Refused(p, m)
  PROVE  Service!Next \/ UNCHANGED LeasesOf(rows)
<1>1. rows \in LockTables /\ rows' = Denied(rows)
  BY DEF Refused, TypeOK
<1>2. \A j \in LockId : Live(rows', j) => Live(rows, j) /\ rows'[j] = rows[j]
  BY <1>1, DeniedRows
<1> QED
  BY <1>2, FewerRowsEndLeases

(* The DELETE of a key nobody has deletes nothing. *)
LEMMA ReleaseEndsLeases ==
  ASSUME TypeOK, NEW i, rows' = Released(rows, i)
  PROVE  Service!Next \/ UNCHANGED LeasesOf(rows)
<1>1. rows \in LockTables
  BY DEF TypeOK
<1>2. \A j \in LockId : Live(rows', j) => Live(rows, j) /\ rows'[j] = rows[j]
  BY <1>1 DEF Released, Live, LockTables
<1> QED
  BY <1>2, FewerRowsEndLeases

LEMMA StepLeases == TypeOK /\ [Next]_vars => [Service!Next]_(LeasesOf(rows))
<1> SUFFICES ASSUME TypeOK, [Next]_vars PROVE Service!Next \/ UNCHANGED LeasesOf(rows)
  OBVIOUS
<1>1. CASE UNCHANGED rows
  BY <1>1 DEF LeasesOf, Live
<1>2. ASSUME NEW b \in Builders, StartBuild(b) \/ SkipBuild(b) \/ BuilderStep(b) \/ CrashBuilder(b)
      PROVE  Service!Next \/ UNCHANGED LeasesOf(rows)
  <2>1. CASE StartBuild(b)
    BY <2>1, AcquireTakesLease DEF StartBuild, LockMode
  <2>2. CASE LockTarget(b)
    <3>1. PICK g \in Generation, i \in LockId : Acquire(b, i, g, "exclusive")
      BY <2>2 DEF LockTarget
    <3> QED
      BY <3>1, AcquireTakesLease DEF LockMode
  <2>3. CASE SkipBuild(b)
    BY <2>3, RefusalEndsNone DEF SkipBuild
  <2>4. CASE WaitForTarget(b)
    BY <2>4, RefusalEndsNone DEF WaitForTarget
  <2>5. CASE GiveUpOnTarget(b)
    BY <2>5, RefusalEndsNone DEF GiveUpOnTarget
  <2>6. CASE UnlockTarget(b)
    BY <2>6, ReleaseEndsLeases DEF UnlockTarget
  <2>7. CASE ReleaseBuildLock(b)
    BY <2>7, ReleaseEndsLeases DEF ReleaseBuildLock
  <2> QED
    BY <1>1, <1>2, <2>1, <2>2, <2>3, <2>4, <2>5, <2>6, <2>7
       DEF BuilderStep, ReadLink, ListGenerations, StartRemoval, EndRemoval, CreateGeneration,
           FinishTiles, WriteMeta, StageLink, ReplaceLink, Fail, CrashBuilder
<1>3. ASSUME NEW w \in Workers, StartJob(w) \/ WorkerStep(w) \/ CrashWorker(w)
      PROVE  Service!Next \/ UNCHANGED LeasesOf(rows)
  <2>1. CASE LockShared(w)
    <3>1. PICK i \in LockId : Acquire(w, i, resolved[w], "shared")
      BY <2>1 DEF LockShared
    <3>2. resolved[w] \in Path
      BY <2>1 DEF LockShared, WorkerGoes, TypeOK
    <3> QED
      BY <3>1, <3>2, AcquireTakesLease DEF LockMode
  <2>2. CASE LockSharedTimesOut(w)
    BY <2>2, RefusalEndsNone DEF LockSharedTimesOut
  <2>3. CASE DropLock(w) \/ FinishJob(w)
    BY <2>3, ReleaseEndsLeases DEF DropLock, FinishJob
  <2> QED
    BY <1>1, <1>3, <2>1, <2>2, <2>3
       DEF WorkerStep, StartJob, ResolveLink, ResolveFails, CheckCurrent, CrashWorker
<1>4. ASSUME NEW i \in LockId, Expire(i)
      PROVE  Service!Next \/ UNCHANGED LeasesOf(rows)
  <2>1. rows \in LockTables /\ rows' = [rows EXCEPT ![i].left = 0] /\ Live(rows, i)
    BY <1>4 DEF Expire, TypeOK
  <2>2. \A j \in LockId : Live(rows', j) => Live(rows, j) /\ rows'[j] = rows[j]
    BY <2>1 DEF LockTables, LockRow, Live
  <2> QED
    BY <2>2, FewerRowsEndLeases
<1> QED
  BY <1>1, <1>2, <1>3, <1>4 DEF Next, vars

(* Builders and workers get from graph_locks what the leases promise,      *)
(* however their locks expire and whoever is killed holding one.           *)
THEOREM GenerationsImplementLeases == Spec => ImplementsLeases
<1>1. Init => Service!Init
  BY DEF Init, Service!Init, LeasesOf, EmptyTable, Live
<1> QED
  BY <1>1, StepLeases, TypeCorrect, PTL DEF Spec, ImplementsLeases, Service!Spec

=============================================================================
