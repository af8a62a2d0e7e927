------------------------- MODULE GraphGenerations -------------------------
(***************************************************************************)
(* One provider's graph generations: the builders that prune, build and    *)
(* publish them (graph_build/__main__.py, graph_build/builder.py) and the  *)
(* workers that package tiles from them (utils/lock_utils.py, worker.py).  *)
(* They run in different containers and coordinate over two things only,   *)
(* the graph symlink and the rows of graph_locks.                          *)
(*                                                                         *)
(* Time is abstract here: a lease is live or expired, a waiting process    *)
(* retries or gives up, and a generation's timestamp is its place in the   *)
(* order of creation.  GraphLocks models the clock.                        *)
(***************************************************************************)
EXTENDS LockTable, FiniteSets

CONSTANTS
  Builders,          \* builder containers of this provider
  Workers,           \* packaging workers
  ProviderDir,       \* the path of the build lock
  NoLock,            \* lock_id is None
  KeysEach,          \* bound: how many of its rows a process can have at once
  MaxGenerations,    \* bound: how many generations are ever created
  KeepGenerations,   \* builder.KEEP_GENERATIONS
  ResolveAttempts,   \* lock_utils.RESOLVE_ATTEMPTS
  MaxCrashes,        \* bound: how many processes are killed
  TimelyBuilds,      \* no build lock runs out under the builder that has it
  TimelyJobs,        \* no shared lock runs out under the worker that has it
  RmtreeIsReliable   \* rmtree(ignore_errors=True) leaves nothing behind

Generation == 1..MaxGenerations
NoGeneration == 0

ASSUME GenerationsAssumption ==
  /\ Path = Generation \cup {ProviderDir}
  /\ ProviderDir \notin Int
  /\ Builders \cap Workers = {}
  /\ LockId = (Builders \cup Workers) \X (1..KeysEach)
  /\ NoLock \notin LockId
  /\ KeysEach \in Nat
  /\ MaxGenerations \in Nat
  /\ KeepGenerations \in Nat \ {0}
  /\ ResolveAttempts \in Nat \ {0}
  /\ MaxCrashes \in Nat
  /\ TimelyBuilds \in BOOLEAN
  /\ TimelyJobs \in BOOLEAN
  /\ RmtreeIsReliable \in BOOLEAN

VARIABLES
  rows,         \* the graph_locks table
  link,         \* what the graph symlink points at
  staged,       \* what the graph.tmp symlink points at
  disk,         \* what is in each generation directory
  nextName,     \* the timestamp the next generation directory gets
  bpc,          \* builder -> its place in run_build
  buildLock,    \* builder -> its row for the provider directory
  pruneLock,    \* builder -> its row for the generation it removes
  current,      \* builder -> where it saw the symlink point when pruning began
  todo,         \* builder -> generations still to prune
  target,       \* builder -> the generation prune_generations is at
  made,         \* builder -> the generation build_graph creates
  wpc,          \* worker -> its place in lock_generation_shared
  resolved,     \* worker -> the generation it resolved the symlink to
  shareLock,    \* worker -> its row for that generation
  attempt,      \* worker -> attempts it has used up
  crashes       \* how many processes were killed so far

diskVars == <<link, staged, disk, nextName>>
locks == <<buildLock, pruneLock>>
plan == <<current, todo, target, made>>
builderVars == <<bpc, locks, plan>>
workerVars == <<wpc, resolved, shareLock, attempt>>
vars == <<rows, diskVars, builderVars, workerVars, crashes>>

(* A "partial" directory is one rmtree has started on. *)
DiskState == {"absent", "building", "complete", "partial"}

BuilderPc ==
  {"idle", "readlink", "list", "prune", "wait", "remove", "removing", "unlock",
   "build", "meta", "stage", "replace", "release"}

WorkerPc == {"idle", "resolve", "acquire", "check", "drop", "reading"}

TypeOK ==
  /\ rows \in LockTables
  /\ link \in Generation \cup {NoGeneration}
  /\ staged \in Generation \cup {NoGeneration}
  /\ disk \in [Generation -> DiskState]
  /\ nextName \in 1..(MaxGenerations + 1)
  /\ bpc \in [Builders -> BuilderPc]
  /\ buildLock \in [Builders -> LockId \cup {NoLock}]
  /\ pruneLock \in [Builders -> LockId \cup {NoLock}]
  /\ current \in [Builders -> Generation \cup {NoGeneration}]
  /\ todo \in [Builders -> SUBSET Generation]
  /\ target \in [Builders -> Generation \cup {NoGeneration}]
  /\ made \in [Builders -> Generation \cup {NoGeneration}]
  /\ wpc \in [Workers -> WorkerPc]
  /\ resolved \in [Workers -> Generation \cup {NoGeneration}]
  /\ \A w \in Workers : resolved[w] = NoGeneration => wpc[w] \in {"idle", "resolve"}
  /\ shareLock \in [Workers -> LockId \cup {NoLock}]
  /\ attempt \in [Workers -> 0..(ResolveAttempts - 1)]
  /\ crashes \in 0..MaxCrashes

Init ==
  /\ rows = EmptyTable
  /\ link = NoGeneration
  /\ staged = NoGeneration
  /\ disk = [g \in Generation |-> "absent"]
  /\ nextName = 1
  /\ bpc = [b \in Builders |-> "idle"]
  /\ buildLock = [b \in Builders |-> NoLock]
  /\ pruneLock = [b \in Builders |-> NoLock]
  /\ current = [b \in Builders |-> NoGeneration]
  /\ todo = [b \in Builders |-> {}]
  /\ target = [b \in Builders |-> NoGeneration]
  /\ made = [b \in Builders |-> NoGeneration]
  /\ wpc = [w \in Workers |-> "idle"]
  /\ resolved = [w \in Workers |-> NoGeneration]
  /\ shareLock = [w \in Workers |-> NoLock]
  /\ attempt = [w \in Workers |-> 0]
  /\ crashes = 0

-----------------------------------------------------------------------------
(* Taking and giving up leases.                                            *)

(* The row ids some live process will still delete by. *)
Remembered ==
  { buildLock[b] : b \in Builders } \cup { pruneLock[b] : b \in Builders }
    \cup { shareLock[w] : w \in Workers }

Fresh == Unused(rows) \ Remembered

(* The primary key of the next row.  The column is a serial, so a key that *)
(* a process remembers never names somebody else's row; here it is named   *)
(* for its holder and counted from there.                                  *)
KeysOf(holder) == { i \in Fresh : i[1] = holder }

NextKey(holder) == { i \in KeysOf(holder) : \A j \in KeysOf(holder) : i[2] <= j[2] }

Ttl == 1

(* _try_acquire: i is the key of the row it inserts. *)
Acquire(holder, i, p, m) ==
  /\ Grantable(rows, p, m)
  /\ i \in NextKey(holder)
  /\ rows' = Granted(rows, i, p, m, Ttl)

(* An attempt that is refused still commits the reaping. *)
Refused(p, m) ==
  /\ ~ Grantable(rows, p, m)
  /\ rows' = Denied(rows)

(* A lease runs out.  Nobody watches the clock while it works. *)
Expire(i) ==
  /\ Live(rows, i)
  /\ TimelyBuilds => \A b \in Builders : i # buildLock[b]
  /\ TimelyJobs => \A w \in Workers : i # shareLock[w]
  /\ rows' = [rows EXCEPT ![i].left = 0]
  /\ UNCHANGED <<diskVars, builderVars, workerVars, crashes>>

-----------------------------------------------------------------------------
(* The builder: run_build.                                                 *)

BuilderGoes(b, from, to) ==
  /\ bpc[b] = from
  /\ bpc' = [bpc EXCEPT ![b] = to]

(* The build lock is granted. *)
StartBuild(b) ==
  /\ BuilderGoes(b, "idle", "readlink")
  /\ \E i \in LockId :
       /\ Acquire(b, i, ProviderDir, "exclusive")
       /\ buildLock' = [buildLock EXCEPT ![b] = i]
  /\ UNCHANGED <<diskVars, pruneLock, plan, workerVars, crashes>>

(* Another build holds the lock: the run does nothing. *)
SkipBuild(b) ==
  /\ bpc[b] = "idle"
  /\ Refused(ProviderDir, "exclusive")
  /\ UNCHANGED <<diskVars, builderVars, workerVars, crashes>>

(* prune_generations resolves the symlink ... *)
ReadLink(b) ==
  /\ BuilderGoes(b, "readlink", "list")
  /\ current' = [current EXCEPT ![b] = link]
  /\ UNCHANGED <<rows, diskVars, locks, todo, target, made, workerVars, crashes>>

OnDisk == { g \in Generation : disk[g] # "absent" }

(* Mutation: the generation the symlink points at is listed with the others. *)
AllDirectories(b) == OnDisk

(* ... and lists the directories that are not current, of which it retains *)
(* the newest KEEP_GENERATIONS - 1.                                        *)
Others(b) == OnDisk \ {current[b]}

(* Mutation: KEEP_GENERATIONS of them. *)
RetainedMore(others) ==
  { g \in others : Cardinality({ h \in others : h > g }) < KeepGenerations }

Retained(others) ==
  { g \in others : Cardinality({ h \in others : h > g }) < KeepGenerations - 1 }

ListGenerations(b) ==
  /\ BuilderGoes(b, "list", "prune")
  /\ todo' = [todo EXCEPT ![b] = Others(b) \ Retained(Others(b))]
  /\ UNCHANGED <<rows, diskVars, locks, current, target, made, workerVars, crashes>>

(* The loop takes the newest generation left. *)
NewestOf(S) == { g \in S : \A h \in S : h <= g }

(* Its exclusive lock is granted, at once or while waiting. *)
LockTarget(b) ==
  /\ \E g \in Generation, i \in LockId :
       /\ \/ BuilderGoes(b, "prune", "remove") /\ g \in NewestOf(todo[b])
          \/ BuilderGoes(b, "wait", "remove") /\ g = target[b]
       /\ Acquire(b, i, g, "exclusive")
       /\ target' = [target EXCEPT ![b] = g]
       /\ pruneLock' = [pruneLock EXCEPT ![b] = i]
  /\ UNCHANGED <<diskVars, buildLock, current, todo, made, workerVars, crashes>>

(* A packaging job holds it: wait, for GRAPH_PRUNE_TIMEOUT at most. *)
WaitForTarget(b) ==
  /\ BuilderGoes(b, "prune", "wait")
  /\ \E g \in NewestOf(todo[b]) :
       /\ Refused(g, "exclusive")
       /\ target' = [target EXCEPT ![b] = g]
  /\ UNCHANGED <<diskVars, locks, current, todo, made, workerVars, crashes>>

(* The last attempt before the timeout is refused as well: BuildError. *)
GiveUpOnTarget(b) ==
  /\ BuilderGoes(b, "wait", "release")
  /\ Refused(target[b], "exclusive")
  /\ UNCHANGED <<diskVars, locks, plan, workerVars, crashes>>

(* rmtree deletes file after file, so the directory is broken before it is *)
(* gone, and ignores what it cannot delete.                                *)
StartRemoval(b) ==
  /\ BuilderGoes(b, "remove", "removing")
  /\ disk' = [disk EXCEPT ![target[b]] = IF @ = "absent" THEN @ ELSE "partial"]
  /\ UNCHANGED <<rows, link, staged, nextName, locks, plan, workerVars, crashes>>

EndRemoval(b) ==
  /\ BuilderGoes(b, "removing", "unlock")
  /\ \E left \in {"absent"} \cup (IF RmtreeIsReliable THEN {} ELSE {"partial"}) :
       disk' = [disk EXCEPT ![target[b]] = left]
  /\ UNCHANGED <<rows, link, staged, nextName, locks, plan, workerVars, crashes>>

(* Mutation: the loop stays at the generation it has just removed. *)
Stays(b) == todo[b]

Left(b) == todo[b] \ {target[b]}

UnlockTarget(b) ==
  /\ BuilderGoes(b, "unlock", "prune")
  /\ rows' = Released(rows, pruneLock[b])
  /\ pruneLock' = [pruneLock EXCEPT ![b] = NoLock]
  /\ todo' = [todo EXCEPT ![b] = Left(b)]
  /\ target' = [target EXCEPT ![b] = NoGeneration]
  /\ UNCHANGED <<diskVars, buildLock, current, made, workerVars, crashes>>

(* Pruning is over and the PBF is up to date: build_graph makes a fresh    *)
(* directory.  Nobody locks it while it is being filled.                   *)
CreateGeneration(b) ==
  /\ BuilderGoes(b, "prune", "build")
  /\ todo[b] = {}
  /\ nextName \in Generation
  /\ disk' = [disk EXCEPT ![nextName] = "building"]
  /\ made' = [made EXCEPT ![b] = nextName]
  /\ nextName' = nextName + 1
  /\ current' = [current EXCEPT ![b] = NoGeneration]
  /\ UNCHANGED <<rows, link, staged, locks, todo, target, workerVars, crashes>>

(* The last subprocess succeeds.  Should another builder have taken the    *)
(* directory away meanwhile, what is left of it is no graph.               *)
FinishTiles(b) ==
  /\ BuilderGoes(b, "build", "meta")
  /\ disk' = [disk EXCEPT ![made[b]] = IF @ = "building" THEN "complete" ELSE @]
  /\ UNCHANGED <<rows, link, staged, nextName, locks, plan, workerVars, crashes>>

(* write_build_meta needs the directory to be there. *)
WriteMeta(b) ==
  /\ BuilderGoes(b, "meta", "stage")
  /\ disk[made[b]] # "absent"
  /\ UNCHANGED <<rows, diskVars, locks, plan, workerVars, crashes>>

(* swap_graph_link: a second symlink is staged and renamed onto the first. *)
StageLink(b) ==
  /\ BuilderGoes(b, "stage", "replace")
  /\ staged' = made[b]
  /\ UNCHANGED <<rows, link, disk, nextName, locks, plan, workerVars, crashes>>

ReplaceLink(b) ==
  /\ BuilderGoes(b, "replace", "release")
  /\ staged # NoGeneration
  /\ link' = staged
  /\ staged' = NoGeneration
  /\ UNCHANGED <<rows, disk, nextName, locks, plan, workerVars, crashes>>

(* A step raises: a subprocess fails or is terminated, the database or the *)
(* disk refuses.  Whatever is on disk stays there.                         *)
Fail(b) ==
  /\ bpc[b] \in {"readlink", "list", "prune", "wait", "build", "meta", "stage",
                 "replace"}
  /\ bpc' = [bpc EXCEPT ![b] = "release"]
  /\ UNCHANGED <<rows, diskVars, locks, plan, workerVars, crashes>>

(* The builder leaves the block of the build lock. *)
ReleaseBuildLock(b) ==
  /\ BuilderGoes(b, "release", "idle")
  /\ rows' = Released(rows, buildLock[b])
  /\ buildLock' = [buildLock EXCEPT ![b] = NoLock]
  /\ current' = [current EXCEPT ![b] = NoGeneration]
  /\ todo' = [todo EXCEPT ![b] = {}]
  /\ target' = [target EXCEPT ![b] = NoGeneration]
  /\ made' = [made EXCEPT ![b] = NoGeneration]
  /\ UNCHANGED <<diskVars, pruneLock, workerVars, crashes>>

(* The process is killed: its rows and its files stay. *)
CrashBuilder(b) ==
  /\ bpc[b] # "idle"
  /\ crashes < MaxCrashes
  /\ crashes' = crashes + 1
  /\ bpc' = [bpc EXCEPT ![b] = "idle"]
  /\ buildLock' = [buildLock EXCEPT ![b] = NoLock]
  /\ pruneLock' = [pruneLock EXCEPT ![b] = NoLock]
  /\ current' = [current EXCEPT ![b] = NoGeneration]
  /\ todo' = [todo EXCEPT ![b] = {}]
  /\ target' = [target EXCEPT ![b] = NoGeneration]
  /\ made' = [made EXCEPT ![b] = NoGeneration]
  /\ UNCHANGED <<rows, diskVars, workerVars>>

-----------------------------------------------------------------------------
(* The worker: lock_generation_shared around the body of create_package.   *)

WorkerGoes(w, from, to) ==
  /\ wpc[w] = from
  /\ wpc' = [wpc EXCEPT ![w] = to]

(* Mutations: attempts are not counted; the last one is not noticed. *)
NotCounted(w) == attempt[w]

Used(w) == attempt[w] + 1

OneMore(w) == Used(w) <= ResolveAttempts

MayRetry(w) == Used(w) < ResolveAttempts

(* continue: another attempt, or the error is raised after the last one. *)
NextAttempt(w, from) ==
  /\ resolved' = [resolved EXCEPT ![w] = NoGeneration]
  /\ WorkerGoes(w, from, IF MayRetry(w) THEN "resolve" ELSE "idle")
  /\ attempt' = [attempt EXCEPT ![w] = IF MayRetry(w) THEN Used(w) ELSE 0]

(* link.resolve(strict=True) succeeds. *)
Resolvable == link # NoGeneration /\ disk[link] # "absent"

StartJob(w) ==
  /\ WorkerGoes(w, "idle", "resolve")
  /\ UNCHANGED <<rows, diskVars, builderVars, resolved, shareLock, attempt, crashes>>

ResolveLink(w) ==
  /\ Resolvable
  /\ WorkerGoes(w, "resolve", "acquire")
  /\ resolved' = [resolved EXCEPT ![w] = link]
  /\ UNCHANGED <<rows, diskVars, builderVars, shareLock, attempt, crashes>>

ResolveFails(w) ==
  /\ ~ Resolvable
  /\ NextAttempt(w, "resolve")
  /\ UNCHANGED <<rows, diskVars, builderVars, shareLock, crashes>>

LockShared(w) ==
  /\ WorkerGoes(w, "acquire", "check")
  /\ \E i \in LockId :
       /\ Acquire(w, i, resolved[w], "shared")
       /\ shareLock' = [shareLock EXCEPT ![w] = i]
  /\ UNCHANGED <<diskVars, builderVars, resolved, attempt, crashes>>

(* A pruner holds the generation until SHARED_LOCK_TIMEOUT is over. *)
LockSharedTimesOut(w) ==
  /\ NextAttempt(w, "acquire")
  /\ Refused(resolved[w], "shared")
  /\ UNCHANGED <<diskVars, builderVars, shareLock, crashes>>

(* Mutation: the directory is looked for, and not the symlink. *)
StillThere(g) == disk[g] # "absent"

(* _is_current: the symlink may have moved before the lock was granted. *)
IsCurrent(g) == Resolvable /\ link = g

CheckCurrent(w) ==
  /\ WorkerGoes(w, "check", IF IsCurrent(resolved[w]) THEN "reading" ELSE "drop")
  /\ UNCHANGED <<rows, diskVars, builderVars, resolved, shareLock, attempt, crashes>>

DropLock(w) ==
  /\ NextAttempt(w, "drop")
  /\ rows' = Released(rows, shareLock[w])
  /\ shareLock' = [shareLock EXCEPT ![w] = NoLock]
  /\ UNCHANGED <<diskVars, builderVars, crashes>>

(* The package is done, or making it failed: both leave the with block. *)
FinishJob(w) ==
  /\ WorkerGoes(w, "reading", "idle")
  /\ rows' = Released(rows, shareLock[w])
  /\ shareLock' = [shareLock EXCEPT ![w] = NoLock]
  /\ resolved' = [resolved EXCEPT ![w] = NoGeneration]
  /\ attempt' = [attempt EXCEPT ![w] = 0]
  /\ UNCHANGED <<diskVars, builderVars, crashes>>

CrashWorker(w) ==
  /\ wpc[w] # "idle"
  /\ crashes < MaxCrashes
  /\ crashes' = crashes + 1
  /\ wpc' = [wpc EXCEPT ![w] = "idle"]
  /\ resolved' = [resolved EXCEPT ![w] = NoGeneration]
  /\ shareLock' = [shareLock EXCEPT ![w] = NoLock]
  /\ attempt' = [attempt EXCEPT ![w] = 0]
  /\ UNCHANGED <<rows, diskVars, builderVars>>

-----------------------------------------------------------------------------
BuilderStep(b) ==
  \/ ReadLink(b) \/ ListGenerations(b)
  \/ LockTarget(b) \/ WaitForTarget(b) \/ GiveUpOnTarget(b)
  \/ StartRemoval(b) \/ EndRemoval(b) \/ UnlockTarget(b)
  \/ CreateGeneration(b) \/ FinishTiles(b) \/ WriteMeta(b)
  \/ StageLink(b) \/ ReplaceLink(b) \/ Fail(b) \/ ReleaseBuildLock(b)

WorkerStep(w) ==
  \/ ResolveLink(w) \/ ResolveFails(w)
  \/ LockShared(w) \/ LockSharedTimesOut(w)
  \/ CheckCurrent(w) \/ DropLock(w) \/ FinishJob(w)

Next ==
  \/ \E b \in Builders : StartBuild(b) \/ SkipBuild(b) \/ BuilderStep(b) \/ CrashBuilder(b)
  \/ \E w \in Workers : StartJob(w) \/ WorkerStep(w) \/ CrashWorker(w)
  \/ \E i \in LockId : Expire(i)

Spec == Init /\ [][Next]_vars

(* A process that is at work and alive goes on, and time passes.  Nobody   *)
(* has to start a build or a job, and nothing has to succeed.              *)
Fairness ==
  /\ \A b \in Builders : WF_vars(BuilderStep(b))
  /\ \A w \in Workers : WF_vars(WorkerStep(w))
  /\ \A i \in LockId : WF_vars(Expire(i))

FairSpec == Spec /\ Fairness

-----------------------------------------------------------------------------
(* Safety.                                                                 *)

(* The build lock admits one builder between its grant and its release,    *)
(* whoever else tries, crashes or times out meanwhile (run_build).         *)
OneBuildAtATime ==
  \A b, c \in Builders : bpc[b] # "idle" /\ bpc[c] # "idle" => b = c

(* A worker inside lock_generation_shared reads a whole graph to the end:  *)
(* no builder, however it interleaves with the resolving, the locking and  *)
(* the check, starts to delete the directory under it.                     *)
ReadersKeepTheirGraph ==
  \A w \in Workers : wpc[w] = "reading" => disk[resolved[w]] = "complete"

(* A job can overrun its lease, for it watches no clock, and so can a       *)
(* pruner in the middle of rmtree.  It is only ever the job whose own lease *)
(* ran out that loses its graph: not the one that was granted a lock on a   *)
(* directory after the pruner's lock on it had run out, for such a job      *)
(* finds that the symlink has moved (lock_generation_shared, _is_current).  *)
ReadsUnderLease(w) == wpc[w] = "reading" /\ Live(rows, shareLock[w])

LeasedGraphsStay ==
  \A w \in Workers : ReadsUnderLease(w) => disk[resolved[w]] = "complete"

(* The symlink points at nothing before the first build and at a whole     *)
(* graph ever after: never at a directory that is unfinished, half removed *)
(* or gone, not even after a build died between two steps.                 *)
CurrentGraphIsComplete ==
  link # NoGeneration => disk[link] = "complete"

(* build_graph fills its directory without a lock.  What keeps it and, once *)
(* staged, graph.tmp from everybody else is the build lock alone.          *)
BuildInProgressSurvives ==
  \A b \in Builders :
    /\ bpc[b] = "build" => disk[made[b]] = "building"
    /\ bpc[b] \in {"meta", "stage", "replace"} => disk[made[b]] = "complete"
    /\ bpc[b] = "replace" => staged = made[b]

(* No two full graphs beside the one being built: leftovers of failed and  *)
(* killed builds count, for they take the same room (prune_generations).   *)
AtMostKeepPlusOneOnDisk ==
  Cardinality(OnDisk) <= KeepGenerations + 1

(* Nobody holds the current generation exclusively, so a job that resolves *)
(* the symlink is only ever made to wait for a generation that has been    *)
(* replaced since.                                                         *)
PrunersSpareTheCurrentGraph ==
  \A i \in LockId :
    Live(rows, i) /\ rows[i].mode = "exclusive" => rows[i].path # link

(* The current graph is only ever replaced by a newer one (ReplaceLink is  *)
(* a rename of whatever graph.tmp points at by then).                      *)
LinkMovesForward == [][link' # link => link' > link]_vars

(* /ready answers 200 for a provider whose graph it can resolve: once it   *)
(* does, no build, failure or crash makes it answer 503 again.             *)
ReadyStaysReady == [][Resolvable => Resolvable']_vars

(* Builders and workers use graph_locks as the leases they are promised to *)
(* be (module Leases), which GraphLocks provides under a clock: that they  *)
(* run out at any time is all that is left of time here.                   *)
Service == INSTANCE Leases WITH leases <- LeasesOf(rows)

ImplementsLeases == Service!Spec

(* The whole is an implementation of the store. *)
Store ==
  INSTANCE GraphStore WITH
    current <- link,
    stored <- { g \in Generation : disk[g] = "complete" },
    reading <- [w \in Workers |-> IF ReadsUnderLease(w) THEN resolved[w]
                                  ELSE NoGeneration]

ImplementsStore == Store!Spec

-----------------------------------------------------------------------------
(* The inductive invariant behind the safety properties.  It needs         *)
(* TimelyBuilds: a builder past the build lock still has its row.          *)

Pruning == {"prune", "wait", "remove", "removing", "unlock"}

Building == {"build", "meta", "stage", "replace"}

HoldsRow(i, p, m) == Live(rows, i) /\ rows[i].path = p /\ rows[i].mode = m

BuildersHoldTheirRows ==
  \A b \in Builders :
    /\ bpc[b] = "idle" <=> buildLock[b] = NoLock
    /\ bpc[b] \in {"remove", "removing", "unlock"} <=> pruneLock[b] # NoLock
    /\ buildLock[b] # NoLock =>
         buildLock[b][1] = b /\ HoldsRow(buildLock[b], ProviderDir, "exclusive")
    /\ pruneLock[b] # NoLock => pruneLock[b][1] = b /\ pruneLock[b] # buildLock[b]

WorkersHoldTheirRows ==
  \A w \in Workers :
    /\ wpc[w] \in {"check", "drop", "reading"} <=> shareLock[w] # NoLock
    /\ shareLock[w] # NoLock =>
         /\ shareLock[w][1] = w
         /\ TimelyJobs \/ Live(rows, shareLock[w]) => HoldsRow(shareLock[w], resolved[w], "shared")

(* Once its lock was granted a generation stays without readers, for it is  *)
(* not current: the pruner does not have to hold the lock any longer.       *)
RemovalsAreUnread ==
  \A b \in Builders, w \in Workers :
    bpc[b] \in {"remove", "removing"} /\ ReadsUnderLease(w) => resolved[w] # target[b]

(* Nothing is asked for that has not been created. *)
NamesInOrder ==
  /\ link < nextName
  /\ \A g \in Generation : disk[g] # "absent" => g < nextName

(* What a pruner is after is neither current nor yet to come. *)
PrunersKeepToOldGenerations ==
  \A b \in Builders :
    /\ bpc[b] \in {"list"} \cup Pruning => current[b] = link
    /\ bpc[b] \in Pruning =>
         link \notin todo[b] /\ \A g \in todo[b] : g < nextName
    /\ bpc[b] \in {"wait", "remove", "removing", "unlock"} => target[b] \in todo[b]

BuildersMakeNewGenerations ==
  \A b \in Builders :
    bpc[b] \in Building => made[b] \in Generation /\ link < made[b] /\ made[b] < nextName

(* Nor do the rows of killed pruners stand in the way of a new generation. *)
ExclusiveRowsAreOld ==
  \A i \in LockId :
    Live(rows, i) /\ rows[i].mode = "exclusive" /\ rows[i].path \in Generation =>
      /\ rows[i].path < nextName
      /\ rows[i].path # link
      /\ \A b \in Builders : bpc[b] \in Building => rows[i].path # made[b]

(* The leases are what the processes take them for ...                     *)
LeaseInv ==
  /\ Compatible(rows)
  /\ BuildersHoldTheirRows
  /\ WorkersHoldTheirRows
  /\ ExclusiveRowsAreOld

(* ... and so the directories are what the symlink and the readers need.   *)
DirectoryInv ==
  /\ NamesInOrder
  /\ PrunersKeepToOldGenerations
  /\ BuildersMakeNewGenerations
  /\ BuildInProgressSurvives
  /\ CurrentGraphIsComplete
  /\ RemovalsAreUnread
  /\ LeasedGraphsStay

(* Everything at once: the parts need one another, so a step of run_build  *)
(* or lock_generation_shared that broke one would sooner or later take a   *)
(* directory away from a reader.                                           *)
GraphInv == LeaseInv /\ DirectoryInv

(* With RmtreeIsReliable as well, what the pruning leaves on disk leaves   *)
(* room for one more generation by the time todo is empty.                 *)
PruningMakesRoom ==
  \A b \in Builders :
    /\ bpc[b] \in Pruning => Cardinality(OnDisk \ todo[b]) <= KeepGenerations
    /\ bpc[b] = "unlock" => target[b] \notin OnDisk

DiskInv == AtMostKeepPlusOneOnDisk /\ PruningMakesRoom

-----------------------------------------------------------------------------
(* Liveness.                                                               *)

(* No build waits for ever: not for a packaging job, not for a row a dead  *)
(* process left behind, and not in the pruning loop.                       *)
BuildsEnd == \A b \in Builders : bpc[b] # "idle" ~> bpc[b] = "idle"

(* No packaging job waits for ever for its generation. *)
JobsEnd == \A w \in Workers : wpc[w] # "idle" ~> wpc[w] = "idle"

(* Whoever held the build lock and however they ended, it can be taken     *)
(* again: a killed build blocks its successors for one lease at most.      *)
BuildLockComesFree ==
  []<>Grantable(rows, ProviderDir, "exclusive")

(* What these rest on, beside the fairness: every step of a build brings   *)
(* it nearer to its end.  The pruning loop goes through its list once,     *)
(* and there is no way back into it, so that a build is over after         *)
(* 8 + 5 * MaxGenerations steps, on whichever way of waiting and failing.  *)
BuildWay(step, listed) ==
  [ idle |-> 0, release |-> 1, replace |-> 2, stage |-> 3, meta |-> 4, build |-> 5,
    unlock |-> 2 + 5 * listed, removing |-> 3 + 5 * listed, remove |-> 4 + 5 * listed,
    wait |-> 5 + 5 * listed, prune |-> 6 + 5 * listed,
    list |-> 7 + 5 * MaxGenerations, readlink |-> 8 + 5 * MaxGenerations ][step]

BuildLeft(b) == BuildWay(bpc[b], Cardinality(todo[b]))

BuildsGetOn ==
  [][\A b \in Builders :
       bpc[b] # "idle"
         => UNCHANGED <<bpc[b], todo[b]>> \/ BuildLeft(b)' < BuildLeft(b)]_vars

(* A job goes through the link, the lock and the check again only as often *)
(* as it has attempts left (lock_generation_shared).                       *)
JobWay(step, used) ==
  LET again == 4 * (ResolveAttempts - 1 - used) IN
  [ idle |-> 0, reading |-> 1, drop |-> 2 + again, check |-> 3 + again,
    acquire |-> 4 + again, resolve |-> 5 + again ][step]

JobLeft(w) == JobWay(wpc[w], attempt[w])

JobsGetOn ==
  [][\A w \in Workers :
       wpc[w] # "idle"
         => UNCHANGED <<wpc[w], attempt[w]>> \/ JobLeft(w)' < JobLeft(w)]_vars

=============================================================================
