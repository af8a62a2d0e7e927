------------------------- MODULE GraphStore_proofs -------------------------
(***************************************************************************)
(* GraphGenerations implements GraphStore, for any number of builders,     *)
(* workers, generations, row keys and crashes: the locks, the staged link  *)
(* and the check after the lock add up to a store of whole graphs.         *)
(***************************************************************************)
EXTENDS GraphGenerations_proofs

USE GenerationsAssumption

(* Groups of variables, and abbreviations within an action. *)
USE DEF diskVars, locks, plan, Left, Used, MayRetry

(* The refinement mapping, by name. *)
Stored == { g \in Generation : disk[g] = "complete" }

Reading == [w \in Workers |-> IF ReadsUnderLease(w) THEN resolved[w] ELSE NoGeneration]

(* A step that leaves the symlink, the whole graphs and the readers alone. *)
Stutters == UNCHANGED <<link, Stored, Reading>>

LEMMA StutteringStep ==
  ASSUME Stutters
  PROVE  UNCHANGED Store!vars
  BY DEF Stutters, Stored, Reading, Store!vars

LEMMA InitImplements == Init => Store!Init
  BY DEF Init, Store!Init, NoGeneration, Store!NoGeneration, ReadsUnderLease

(* Nobody's row is touched by a step of somebody else: whoever reads under *)
(* a lease goes on.                                                        *)
LEMMA BuildersLeaveReaders ==
  ASSUME TypeOK, GraphInv, NEW b \in Builders,
         StartBuild(b) \/ SkipBuild(b) \/ BuilderStep(b) \/ CrashBuilder(b)
  PROVE  Reading' = Reading
<1>0. TypeOK /\ Compatible(rows) /\ BuildersHoldTheirRows /\ WorkersHoldTheirRows
  BY DEF GraphInv, LeaseInv
<1>1. UNCHANGED workerVars
  BY DEF StartBuild, SkipBuild, BuilderStep, CrashBuilder, ReadLink, ListGenerations, LockTarget,
     WaitForTarget, GiveUpOnTarget, StartRemoval, EndRemoval, UnlockTarget, CreateGeneration,
     FinishTiles, WriteMeta, StageLink, ReplaceLink, Fail, ReleaseBuildLock, builderVars, workerVars
<1>2. \A w \in Workers : shareLock[w] # NoLock => SameRow(shareLock[w])
  <2> SUFFICES ASSUME NEW w \in Workers, shareLock[w] # NoLock PROVE SameRow(shareLock[w])
    OBVIOUS
  <2>1. shareLock[w] \in LockId /\ shareLock[w][1] = w /\ shareLock[w] \in Remembered
    BY <1>0 DEF WorkersHoldTheirRows, TypeOK, Remembered
  <2>2. ASSUME NEW i, NEW p \in Path, Acquire(b, i, p, "exclusive")
        PROVE  SameRow(shareLock[w])
    BY <1>0, <2>1, <2>2, AcquireRows DEF LockMode
  <2>3. ASSUME NEW p, Refused(p, "exclusive") PROVE SameRow(shareLock[w])
    BY <1>0, <2>1, <2>3, RefusedRows
  <2>4. CASE StartBuild(b) \/ LockTarget(b)
    BY <2>2, <2>4 DEF StartBuild, LockTarget
  <2>5. CASE SkipBuild(b) \/ WaitForTarget(b) \/ GiveUpOnTarget(b)
    BY <2>3, <2>5 DEF SkipBuild, WaitForTarget, GiveUpOnTarget
  <2>6. CASE UnlockTarget(b)
    <3>1. pruneLock[b] \in LockId \ {shareLock[w]} /\ rows' = Released(rows, pruneLock[b])
      BY <1>0, <2>1, <2>6 DEF UnlockTarget, BuilderGoes, BuildersHoldTheirRows, TypeOK
    <3> QED
      BY <1>0, <2>1, <3>1, ReleaseRows
  <2>7. CASE ReleaseBuildLock(b)
    <3>1. buildLock[b] \in LockId \ {shareLock[w]} /\ rows' = Released(rows, buildLock[b])
      BY <1>0, <2>1, <2>7 DEF ReleaseBuildLock, BuilderGoes, BuildersHoldTheirRows, TypeOK
    <3> QED
      BY <1>0, <2>1, <3>1, ReleaseRows
  <2>8. CASE UNCHANGED rows
    BY <1>0, <2>1, <2>8, UnchangedRows
  <2> QED
    BY <2>4, <2>5, <2>6, <2>7, <2>8 DEF BuilderStep, CrashBuilder, ReadLink, ListGenerations,
       StartRemoval, EndRemoval, CreateGeneration, FinishTiles, WriteMeta, StageLink, ReplaceLink,
       Fail
<1>3. \A w \in Workers : ReadsUnderLease(w)' <=> ReadsUnderLease(w)
  BY <1>0, <1>1, <1>2 DEF ReadsUnderLease, WorkersHoldTheirRows, SameRow, workerVars
<1> QED
  BY <1>1, <1>3 DEF Reading, workerVars

LEMMA WorkersLeaveReaders ==
  ASSUME TypeOK, GraphInv, NEW w \in Workers,
         StartJob(w) \/ WorkerStep(w) \/ CrashWorker(w)
  PROVE  \A v \in Workers \ {w} : Reading'[v] = Reading[v]
<1> SUFFICES ASSUME NEW v \in Workers \ {w} PROVE Reading'[v] = Reading[v]
  OBVIOUS
<1>0. TypeOK /\ Compatible(rows) /\ WorkersHoldTheirRows
  BY DEF GraphInv, LeaseInv
<1>1. wpc'[v] = wpc[v] /\ resolved'[v] = resolved[v] /\ shareLock'[v] = shareLock[v]
  BY DEF StartJob, WorkerStep, CrashWorker, ResolveLink, ResolveFails, LockShared,
     LockSharedTimesOut, CheckCurrent, DropLock, FinishJob, WorkerGoes, NextAttempt, TypeOK
<1>2. ASSUME wpc[v] = "reading" PROVE SameRow(shareLock[v])
  <2>1. shareLock[v] \in LockId /\ shareLock[v][1] = v /\ shareLock[v] \in Remembered
    BY <1>0, <1>2 DEF WorkersHoldTheirRows, TypeOK, Remembered
  <2>2. CASE LockShared(w)
    <3>1. PICK i \in LockId : Acquire(w, i, resolved[w], "shared")
      BY <2>2 DEF LockShared
    <3>2. resolved[w] \in Path
      BY <2>2 DEF LockShared, WorkerGoes, TypeOK
    <3> QED
      BY <1>0, <2>1, <3>1, <3>2, AcquireRows DEF LockMode
  <2>3. CASE LockSharedTimesOut(w)
    BY <1>0, <2>1, <2>3, RefusedRows DEF LockSharedTimesOut
  <2>4. CASE DropLock(w) \/ FinishJob(w)
    <3>1. shareLock[w] \in LockId \ {shareLock[v]} /\ rows' = Released(rows, shareLock[w])
      BY <1>0, <2>1, <2>4 DEF DropLock, FinishJob, NextAttempt, WorkerGoes, WorkersHoldTheirRows, TypeOK
    <3> QED
      BY <1>0, <2>1, <3>1, ReleaseRows
  <2>5. CASE UNCHANGED rows
    BY <1>0, <2>1, <2>5, UnchangedRows
  <2> QED
    BY <2>2, <2>3, <2>4, <2>5 DEF StartJob, WorkerStep, CrashWorker, ResolveLink, ResolveFails,
       CheckCurrent
<1>3. ReadsUnderLease(v)' <=> ReadsUnderLease(v)
  BY <1>1, <1>2 DEF ReadsUnderLease, SameRow
<1> QED
  BY <1>1, <1>3 DEF Reading

(* A removal, begun or ended, gives a graph back that nobody needs. *)
LEMMA RemovalReclaims ==
  ASSUME TypeOK, GraphInv, NEW b \in Builders, bpc[b] \in {"remove", "removing"},
         NEW s \in DiskState \ {"complete"},
         disk' = [disk EXCEPT ![target[b]] = s],
         link' = link, Reading' = Reading
  PROVE  [Store!Next]_(Store!vars)
<1>1. /\ target[b] \in Generation
      /\ target[b] # link
      /\ \A w \in Workers : ReadsUnderLease(w) => resolved[w] # target[b]
  BY RemovalHurtsNobody
<1>2. Stored' = Stored \ {target[b]} /\ Reading' = Reading /\ link' = link
  BY <1>1 DEF Stored, TypeOK, DiskState
<1>3. CASE target[b] \notin Stored
  BY <1>2, <1>3, StutteringStep DEF Stutters
<1>4. CASE target[b] \in Stored
  <2>1. \A w \in Workers : Reading[w] # target[b]
    BY <1>1 DEF Reading, Generation, NoGeneration
  <2>2. PICK g \in Store!Generation : g = target[b]
    BY <1>1 DEF Store!Generation, Generation
  <2>3. Store!Reclaim(g)
    BY <1>1, <1>2, <1>4, <2>1, <2>2 DEF Store!Reclaim, Stored, Reading
  <2> QED
    BY <2>3 DEF Store!Next
<1> QED
  BY <1>3, <1>4

LEMMA BuilderImplements ==
  ASSUME TypeOK, GraphInv, NEW b \in Builders,
         StartBuild(b) \/ SkipBuild(b) \/ BuilderStep(b) \/ CrashBuilder(b)
  PROVE  [Store!Next]_(Store!vars)
<1> USE DEF BuilderGoes, workerVars
<1>0. Reading' = Reading
  BY BuildersLeaveReaders
<1>1. CASE FinishTiles(b)
  <2>1. made[b] \in Generation /\ link < made[b] /\ disk[made[b]] = "building"
    BY <1>1 DEF FinishTiles, GraphInv, DirectoryInv, BuildersMakeNewGenerations,
       BuildInProgressSurvives, Building
  <2>2. Stored' = Stored \cup {made[b]} /\ Reading' = Reading /\ link' = link
    BY <1>0, <1>1, <2>1 DEF FinishTiles, Stored, TypeOK
  <2>3. PICK g \in Store!Generation : g = made[b]
    BY <2>1 DEF Store!Generation, Generation
  <2>4. Store!Finish(g)
    BY <2>1, <2>2, <2>3 DEF Store!Finish, Stored, Reading, TypeOK, Generation, NoGeneration
  <2> QED
    BY <2>4 DEF Store!Next
<1>2. CASE ReplaceLink(b)
  <2>1. /\ made[b] \in Generation /\ link < made[b]
        /\ staged = made[b] /\ disk[made[b]] = "complete"
    BY <1>2 DEF ReplaceLink, GraphInv, DirectoryInv, BuildersMakeNewGenerations,
       BuildInProgressSurvives, Building
  <2>2. Stored' = Stored /\ Reading' = Reading /\ link' = made[b]
    BY <1>0, <1>2, <2>1 DEF ReplaceLink, Stored
  <2>3. PICK g \in Store!Generation : g = made[b]
    BY <2>1 DEF Store!Generation, Generation
  <2>4. Store!Publish(g)
    BY <2>1, <2>2, <2>3 DEF Store!Publish, Stored, Reading, TypeOK, Generation, NoGeneration
  <2> QED
    BY <2>4 DEF Store!Next
<1>3. CASE StartRemoval(b)
  BY <1>0, <1>3, RemovalReclaims DEF StartRemoval, DiskState
<1>4. CASE EndRemoval(b)
  BY <1>0, <1>4, RemovalReclaims DEF EndRemoval, DiskState
<1>5. CASE CreateGeneration(b)
  <2>1. nextName \in Generation /\ disk[nextName] = "absent"
    BY <1>5 DEF CreateGeneration, GraphInv, DirectoryInv, NamesInOrder, TypeOK, Generation
  <2>2. Stutters
    BY <1>0, <1>5, <2>1 DEF CreateGeneration, Stutters, Stored, TypeOK
  <2> QED
    BY <2>2, StutteringStep
<1>6. CASE StartBuild(b) \/ SkipBuild(b) \/ ReadLink(b) \/ ListGenerations(b)
           \/ LockTarget(b) \/ WaitForTarget(b) \/ GiveUpOnTarget(b) \/ UnlockTarget(b)
           \/ WriteMeta(b) \/ StageLink(b) \/ Fail(b) \/ ReleaseBuildLock(b)
           \/ CrashBuilder(b)
  <2>1. UNCHANGED <<link, disk>>
    BY <1>6 DEF StartBuild, SkipBuild, ReadLink, ListGenerations, LockTarget, WaitForTarget,
       GiveUpOnTarget, UnlockTarget, WriteMeta, StageLink, Fail, ReleaseBuildLock,
       CrashBuilder
  <2> QED
    BY <1>0, <2>1, StutteringStep DEF Stutters, Stored
<1> QED
  BY <1>1, <1>2, <1>3, <1>4, <1>5, <1>6 DEF BuilderStep

LEMMA WorkerImplements ==
  ASSUME TypeOK, GraphInv, NEW w \in Workers,
         StartJob(w) \/ WorkerStep(w) \/ CrashWorker(w)
  PROVE  [Store!Next]_(Store!vars)
<1> USE DEF WorkerGoes, NextAttempt
<1>0. link' = link /\ Stored' = Stored
  BY DEF StartJob, WorkerStep, CrashWorker, ResolveLink, ResolveFails, LockShared,
     LockSharedTimesOut, CheckCurrent, DropLock, FinishJob, Stored
<1> DEFINE mine == IF ReadsUnderLease(w) THEN resolved[w] ELSE NoGeneration
<1>1. Reading[w] = mine /\ Reading' = [Reading EXCEPT ![w] = mine']
  BY WorkersLeaveReaders DEF Reading
<1>2. CASE mine' = mine
  BY <1>0, <1>1, <1>2, StutteringStep DEF Stutters, Reading
<1>3. CASE mine' # mine /\ CheckCurrent(w)
  <2>1. /\ wpc[w] = "check" /\ ReadsUnderLease(w)' /\ resolved'[w] = resolved[w]
        /\ IsCurrent(resolved[w])
    BY <1>3 DEF CheckCurrent, ReadsUnderLease, TypeOK
  <2>2. mine = NoGeneration /\ mine' = link /\ link \in Stored
    BY <2>1 DEF ReadsUnderLease, IsCurrent, Resolvable, Stored, TypeOK, GraphInv, DirectoryInv,
       CurrentGraphIsComplete, NoGeneration
  <2>3. Store!Begin(w)
    BY <1>0, <1>1, <2>2 DEF Store!Begin, Stored, Reading, NoGeneration, Store!NoGeneration
  <2> QED
    BY <2>3 DEF Store!Next
<1>4. CASE mine' # mine /\ ~ CheckCurrent(w)
  <2>1. wpc'[w] # "reading" \/ UNCHANGED <<rows, wpc, resolved, shareLock>>
    BY <1>4 DEF StartJob, WorkerStep, CrashWorker, ResolveLink, ResolveFails, LockShared,
       LockSharedTimesOut, DropLock, FinishJob, TypeOK
  <2>2. mine' = NoGeneration /\ mine # NoGeneration
    BY <1>4, <2>1 DEF ReadsUnderLease, Live
  <2>3. Store!End(w)
    BY <1>0, <1>1, <2>2 DEF Store!End, Stored, Reading, NoGeneration, Store!NoGeneration
  <2> QED
    BY <2>3 DEF Store!Next
<1> QED
  BY <1>2, <1>3, <1>4

(* A job whose lease runs out stops reading as far as the store can tell.  *)
LEMMA ExpiryImplements ==
  ASSUME TypeOK, GraphInv, NEW i \in LockId, Expire(i)
  PROVE  [Store!Next]_(Store!vars)
<1>1. /\ UNCHANGED <<link, Stored, wpc, resolved, shareLock>>
      /\ ~ Live(rows', i) /\ \A j \in LockId \ {i} : SameRow(j)
  BY ExpireRows DEF Expire, workerVars, Stored, GraphInv, LeaseInv
<1>2. ASSUME NEW v \in Workers, shareLock[v] # i
      PROVE  Reading'[v] = Reading[v]
  <2>1. wpc[v] = "reading" => shareLock[v] \in LockId
    BY DEF GraphInv, LeaseInv, WorkersHoldTheirRows, TypeOK
  <2>2. ReadsUnderLease(v)' <=> ReadsUnderLease(v)
    BY <1>1, <1>2, <2>1 DEF ReadsUnderLease, SameRow
  <2> QED
    BY <1>1, <2>2 DEF Reading
<1>3. CASE \E w \in Workers : shareLock[w] = i /\ Reading[w] # NoGeneration
  <2>1. PICK w \in Workers : shareLock[w] = i /\ Reading[w] # NoGeneration
    BY <1>3
  <2>2. \A v \in Workers \ {w} : Reading'[v] = Reading[v]
    BY <1>2, <2>1 DEF GraphInv, LeaseInv, WorkersHoldTheirRows
  <2>3. Reading'[w] = NoGeneration
    BY <1>1, <2>1 DEF Reading, ReadsUnderLease
  <2>4. Reading' = [Reading EXCEPT ![w] = NoGeneration]
    BY <2>2, <2>3 DEF Reading
  <2>5. Store!End(w)
    BY <1>1, <2>1, <2>4 DEF Store!End, Stored, Reading, NoGeneration, Store!NoGeneration
  <2> QED
    BY <2>5 DEF Store!Next
<1>4. CASE \A w \in Workers : shareLock[w] = i => Reading[w] = NoGeneration
  <2>1. \A w \in Workers : shareLock[w] = i => Reading'[w] = NoGeneration
    BY <1>1 DEF Reading, ReadsUnderLease
  <2>2. \A w \in Workers : Reading'[w] = Reading[w]
    BY <1>2, <1>4, <2>1
  <2>3. Reading' = Reading
    BY <2>2 DEF Reading
  <2> QED
    BY <1>1, <2>3, StutteringStep DEF Stutters
<1> QED
  BY <1>3, <1>4

LEMMA StepImplements ==
  ASSUME TypeOK, GraphInv, [Next]_vars
  PROVE  [Store!Next]_(Store!vars)
<1>1. CASE UNCHANGED vars
  BY <1>1, StutteringStep DEF vars, workerVars, Stutters, Stored, Reading, ReadsUnderLease, Live
<1> QED
  BY <1>1, ExpiryImplements, BuilderImplements, WorkerImplements DEF Next

(* Provided that no build lock runs out under its builder, jobs with a     *)
(* lease see a store of whole graphs: run_build and lock_generation_shared *)
(* take steps of the store or none that the store can tell.                *)
THEOREM GenerationsImplementStore ==
  ASSUME TimelyBuilds
  PROVE  Spec => ImplementsStore
<1>1. TypeOK /\ GraphInv /\ [Next]_vars => [Store!Next]_(Store!vars)
  BY StepImplements
<1> QED
  BY <1>1, InitImplements, TypeCorrect, GraphInvHolds, PTL
     DEF Spec, ImplementsStore, Store!Spec

=============================================================================
