------------------------------- MODULE BuildRun -------------------------------
(***************************************************************************)
(* The graph build process from main to its exit code: the schedule or the *)
(* single run, the build lock, the PBF, the chain of subprocesses, the     *)
(* swap, the enqueueing of the package updates, signals, and the status    *)
(* file that the health endpoint reads.                                    *)
(*                                                                         *)
(* Every builder of a provider keeps its own status in memory and writes   *)
(* all of it to the one file at every step.  Generations and the locks on  *)
(* them are in GraphGenerations; here a build lock is held by a builder or *)
(* by nobody, and a graph is a number.                                     *)
(*                                                                         *)
(* MaxStarts, MaxGraphs and MaxFaults bound the model.                     *)
(***************************************************************************)
EXTENDS Naturals, FiniteSets

CONSTANTS
    Scheduled,       \* builders that loop on GRAPH_BUILD_CRON
    Once,            \* builders started with --once
    MaxPasses,       \* PBF_MAX_UPDATE_PASSES
    Elevation,       \* USE_ELEVATION
    MaxStarts,       \* how often a builder is started, all together
    MaxGraphs,       \* builds that succeed
    MaxFaults,       \* builders killed, writes lost, calls of Postgres that fail
    Nobody           \* holds the build lock when no builder does

Builders == Scheduled \cup Once

ASSUME BuildAssumption ==
    /\ IsFiniteSet(Builders) /\ Scheduled \cap Once = {} /\ Nobody \notin Builders
    /\ MaxPasses \in Nat /\ MaxStarts \in Nat /\ MaxGraphs \in Nat /\ MaxFaults \in Nat
    /\ Elevation \in BOOLEAN

VARIABLES
    pc,         \* where a builder is
    pass,       \* passes of update_pbf so far
    stop,       \* _stop
    terminated, \* the subprocess got a SIGTERM
    swapped,    \* the last run moved the graph link
    exit,       \* what a builder that is off ended with
    started,    \* the builders that were ever started
    starts,     \* how often one was
    memory,     \* BUILD_STATUS of the process
    file,       \* build_status.json
    missed,     \* the last that was to be written to it was not
    faults,
    lock,       \* who holds the build lock
    pbf,        \* the PBF of the provider
    graphs,     \* how often the link was swapped
    updates,    \* update_all_packages tasks enqueued
    lost        \* swaps that will never have one

run    == <<pc, pass, swapped>>
life   == <<stop, terminated, exit, started, starts>>
status == <<memory, file, missed, faults>>
world  == <<lock, pbf, graphs, updates, lost>>
vars   == <<run, life, status, world>>

(* The stage a step writes to the status file when it begins. *)
StageOf ==
    [prune |-> "pruning", download |-> "downloading_pbf", update |-> "updating_pbf",
     config |-> "building_tiles", elevation |-> "building_elevation",
     enhance |-> "enhancing_tiles", swap |-> "swapping"]

Subprocess == {"download", "update", "config", "tiles", "elevation", "enhance"}
Locked     == Subprocess \cup {"prune", "meta", "swap", "unlock", "raise"}
Steps      == Locked \cup {"off", "sleep", "attempt", "report", "enqueue", "caught", "after"}

Stages == {"none"} \cup {StageOf[s] : s \in DOMAIN StageOf}
StatusData == [state: {"unknown", "idle", "building", "failed"}, stage: Stages,
               next: {"none", "cron", "external"}, error: BOOLEAN]
Reset == [state |-> "unknown", stage |-> "none", next |-> "none", error |-> FALSE]

TypeOK ==
    /\ pc \in [Builders -> Steps]
    /\ pass \in [Builders -> Nat]
    /\ \A b \in Builders : pass[b] = 0 \/ (pc[b] = "update" /\ pass[b] < MaxPasses)
    /\ stop \in [Builders -> BOOLEAN] /\ swapped \in [Builders -> BOOLEAN]
    /\ terminated \in [Builders -> BOOLEAN]
    /\ \A b \in Builders : terminated[b] => stop[b] /\ pc[b] \in Subprocess
    /\ exit \in [Builders -> {"none", "ok", "failed", "locked", "killed"}]
    /\ \A b \in Builders : pc[b] # "off" => exit[b] = "none"
    /\ started \subseteq Builders /\ starts \in 0 .. MaxStarts
    /\ memory \in [Builders -> StatusData] /\ file \in StatusData
    /\ missed \in BOOLEAN /\ faults \in 0 .. MaxFaults
    /\ lock \in Builders \cup {Nobody}
    /\ pbf \in {"missing", "partial", "behind", "current"}
    /\ graphs \in 0 .. MaxGraphs /\ updates \in 0 .. graphs /\ lost \in 0 .. graphs

Init ==
    /\ pc = [b \in Builders |-> "off"] /\ pass = [b \in Builders |-> 0]
    /\ swapped = [b \in Builders |-> FALSE]
    /\ stop = [b \in Builders |-> FALSE] /\ terminated = [b \in Builders |-> FALSE]
    /\ exit = [b \in Builders |-> "none"]
    /\ started = {} /\ starts = 0
    /\ memory = [b \in Builders |-> Reset] /\ file = Reset /\ missed = FALSE /\ faults = 0
    /\ lock = Nobody /\ pbf \in {"missing", "behind"}
    /\ graphs = 0 /\ updates = 0 /\ lost = 0

-----------------------------------------------------------------------------
(* BUILD_STATUS: each operation changes the data and writes all of it,     *)
(* unless the volume is full or gone, which nobody is told: then the file  *)
(* is as it was until the next write.                                      *)

Fault == faults < MaxFaults /\ faults' = faults + 1

Write(b, data) ==
    /\ memory' = [memory EXCEPT ![b] = data]
    /\ \/ file' = data /\ missed' = FALSE /\ UNCHANGED faults
       \/ UNCHANGED file /\ missed' = TRUE /\ Fault

(* Mutant: only the first build of a process sets the state. *)
StagedOnce(data, s) ==
    [data EXCEPT !.state = IF @ = "unknown" THEN "building" ELSE @,
                 !.stage = s, !.next = "none", !.error = @ /\ data.state = "building"]

Staged(data, s) ==
    [data EXCEPT !.state = "building", !.stage = s, !.next = "none",
                 !.error = @ /\ data.state = "building"]
(* Mutant: idle forgets the error. *)
IdledClean(data, when) ==
    [data EXCEPT !.state = "idle", !.stage = "none", !.next = when, !.error = FALSE]

Idled(data, when) == [data EXCEPT !.state = "idle", !.stage = "none", !.next = when]
Failed(data) == [data EXCEPT !.state = "failed", !.error = TRUE]

Goes(b, step) == pc' = [pc EXCEPT ![b] = step]

Enter(b, step) ==
    /\ Goes(b, step)
    /\ IF step \in DOMAIN StageOf
       THEN Write(b, Staged(memory[b], StageOf[step]))
       ELSE UNCHANGED status

Exits(b, code) == Goes(b, "off") /\ exit' = [exit EXCEPT ![b] = code]

(* There is a subprocess, whose lines are logged. *)
Talks(b) == pc[b] \in Subprocess /\ ~ (pc[b] = "update" /\ MaxPasses = 0)

(* A builder refreshes the file while a subprocess talks: it writes what it *)
(* remembers over whatever another one wrote.  A write that does not work   *)
(* changes nothing.                                                         *)
Heartbeat(b) ==
    /\ Talks(b) /\ (file # memory[b] \/ missed)
    /\ file' = memory[b] /\ missed' = FALSE
    /\ UNCHANGED <<run, life, memory, faults, world>>

-----------------------------------------------------------------------------
(* main, run_once and run_scheduled. *)

(* A scheduled builder builds at once when there is no graph and otherwise  *)
(* goes to sleep first; it does not touch the status file until it builds.  *)
Start(b) ==
    /\ pc[b] = "off" /\ starts < MaxStarts
    /\ starts' = starts + 1 /\ started' = started \cup {b}
    /\ stop' = [stop EXCEPT ![b] = FALSE]
    /\ exit' = [exit EXCEPT ![b] = "none"]
    /\ memory' = [memory EXCEPT ![b] = Reset]
    /\ swapped' = [swapped EXCEPT ![b] = FALSE]
    /\ Goes(b, IF b \in Scheduled /\ graphs > 0 THEN "sleep" ELSE "attempt")
    /\ UNCHANGED <<pass, terminated, file, missed, faults, world>>

(* Mutant: the loop goes on whatever the signal said. *)
LoopsAnyway(b) == TRUE

(* while not _stop *)
Loops(b) == ~ stop[b]

Wake(b) ==
    /\ pc[b] = "sleep" /\ Loops(b)
    /\ Goes(b, "attempt")
    /\ UNCHANGED <<pass, swapped, life, status, world>>

(* Mutant: a sleeping builder does not look at _stop. *)
NotAsleep == {"attempt", "after"}

(* The loop of run_scheduled and the sleep in it look at _stop. *)
LooksAtStop == {"sleep", "attempt", "after"}

Quit(b) ==
    /\ b \in Scheduled /\ stop[b]
    /\ pc[b] \in LooksAtStop
    /\ Exits(b, "ok")
    /\ UNCHANGED <<pass, swapped, stop, terminated, started, starts, status, world>>

MayAttempt(b) == pc[b] = "attempt" /\ (b \in Once \/ Loops(b))

Skip(b) ==
    /\ MayAttempt(b) /\ lock # Nobody
    /\ swapped' = [swapped EXCEPT ![b] = FALSE]
    /\ IF b \in Once
       THEN Exits(b, "locked")
       ELSE Goes(b, "after") /\ UNCHANGED exit
    /\ UNCHANGED <<pass, stop, terminated, started, starts, status, world>>

(* After a run, whatever came of it, a scheduled builder is idle until the  *)
(* next one.                                                                *)
GoToSleep(b) ==
    /\ b \in Scheduled /\ pc[b] = "after" /\ Loops(b)
    /\ Write(b, Idled(memory[b], "cron"))
    /\ Goes(b, "sleep")
    /\ UNCHANGED <<pass, swapped, life, world>>

Leave(b) ==
    /\ b \in Once /\ pc[b] = "after"
    /\ Write(b, Idled(memory[b], "external"))
    /\ Exits(b, "ok")
    /\ UNCHANGED <<pass, swapped, stop, terminated, started, starts, world>>

(* Where the exceptions of run_build end up. *)
Caught(b) ==
    /\ pc[b] = "caught"
    /\ Write(b, Failed(memory[b]))
    /\ IF b \in Once
       THEN Exits(b, "failed")
       ELSE Goes(b, "after") /\ UNCHANGED exit
    /\ UNCHANGED <<pass, swapped, stop, terminated, started, starts, world>>

-----------------------------------------------------------------------------
(* run_build. *)

(* The directory of the generations cannot be made, or Postgres does not    *)
(* answer: whether it put the row in is unknown.                            *)
AttemptFails(b) ==
    /\ MayAttempt(b) /\ Fault
    /\ lock' \in {lock, IF lock = Nobody THEN b ELSE lock}
    /\ swapped' = [swapped EXCEPT ![b] = FALSE]
    /\ Goes(b, "caught")
    /\ UNCHANGED <<pass, life, memory, file, missed, pbf, graphs, updates, lost>>

(* The data in a PBF are a run older by the time of the next run. *)
TakeLock(b) ==
    /\ MayAttempt(b) /\ lock = Nobody
    /\ lock' = b
    /\ pbf' = IF pbf = "current" THEN "behind" ELSE pbf
    /\ swapped' = [swapped EXCEPT ![b] = FALSE]
    /\ Enter(b, "prune")
    /\ UNCHANGED <<pass, life, graphs, updates, lost>>

Prune(b) ==
    /\ pc[b] = "prune"
    /\ Enter(b, IF pbf = "missing" THEN "download" ELSE "update")
    /\ UNCHANGED <<pass, swapped, life, world>>

(* Any step may fail; the lock is released on the way out.  The subprocess  *)
(* of a step that got a SIGTERM does fail.                                  *)
Raise(b) ==
    /\ Goes(b, "raise")
    /\ pass' = [pass EXCEPT ![b] = 0]
    /\ terminated' = [terminated EXCEPT ![b] = FALSE]

StepFails(b) ==
    /\ pc[b] \in {"prune", "meta", "swap"} \/ (Talks(b) /\ pc[b] # "download")
    /\ Raise(b)
    /\ UNCHANGED <<swapped, stop, exit, started, starts, status, world>>

(* wget creates its output file first. *)
DownloadFails(b) ==
    /\ pc[b] = "download"
    /\ pbf' = "partial"
    /\ Raise(b)
    /\ UNCHANGED <<swapped, stop, exit, started, starts, status, lock, graphs, updates, lost>>

Download(b) ==
    /\ pc[b] = "download" /\ ~ terminated[b]
    /\ pbf' = "current"
    /\ Enter(b, "config")
    /\ UNCHANGED <<pass, swapped, life, lock, graphs, updates, lost>>

(* Mutant: exit code 1 is taken for done. *)
AsItWas == pbf

Updated == IF pbf = "behind" /\ MaxPasses > 0 THEN "current" ELSE pbf

(* pyosmium-up-to-date: 0 when the file is current, 1 when there is more to *)
(* fetch; a file that was cut short it may well take for a current one.     *)
(* No pass at all means that nobody wants the file updated.                 *)
UpdateIsDone(b) ==
    /\ pc[b] = "update" /\ ~ terminated[b]
    /\ pbf' = Updated
    /\ pass' = [pass EXCEPT ![b] = 0]
    /\ Enter(b, "config")
    /\ UNCHANGED <<swapped, life, lock, graphs, updates, lost>>

(* Mutant: one pass too many. *)
OnePassMore(b) == pass[b] < MaxPasses

PassesLeft(b) == pass[b] + 1 < MaxPasses

MoreToUpdate(b) ==
    /\ pc[b] = "update" /\ PassesLeft(b) /\ ~ terminated[b]
    /\ pass' = [pass EXCEPT ![b] = @ + 1]
    /\ UNCHANGED <<pc, swapped, life, status, world>>

(* build_graph and write_build_meta. *)
NextStep ==
    [config |-> "tiles", tiles |-> IF Elevation THEN "elevation" ELSE "enhance",
     elevation |-> "enhance", enhance |-> "meta", meta |-> "swap"]

BuildStep(b) ==
    /\ pc[b] \in DOMAIN NextStep /\ ~ terminated[b]
    /\ Enter(b, NextStep[pc[b]])
    /\ UNCHANGED <<pass, swapped, life, world>>

Swap(b) ==
    /\ pc[b] = "swap" /\ graphs < MaxGraphs
    /\ graphs' = graphs + 1
    /\ swapped' = [swapped EXCEPT ![b] = TRUE]
    /\ Goes(b, "unlock")
    /\ UNCHANGED <<pass, life, status, lock, pbf, updates, lost>>

(* Mutant: what releases the lock swallows the exception as well. *)
ReportsAnyway(b) == "report"

AfterUnlock(b) == IF pc[b] = "unlock" THEN "report" ELSE "caught"

Unlock(b) ==
    /\ pc[b] \in {"unlock", "raise"}
    /\ lock' = Nobody
    /\ Goes(b, AfterUnlock(b))
    /\ UNCHANGED <<pass, swapped, life, status, pbf, graphs, updates, lost>>

(* Postgres does not answer; the row may be gone or not.  After a swap this *)
(* is the end of the run as well, and nothing is enqueued.                  *)
UnlockFails(b) ==
    /\ pc[b] \in {"unlock", "raise"} /\ Fault
    /\ lock' \in {lock, Nobody}
    /\ lost' = IF pc[b] = "unlock" THEN lost + 1 ELSE lost
    /\ Goes(b, "caught")
    /\ UNCHANGED <<pass, swapped, life, memory, file, missed, pbf, graphs, updates>>

Report(b) ==
    /\ pc[b] = "report"
    /\ Write(b, Idled(memory[b], "none"))
    /\ Goes(b, "enqueue")
    /\ UNCHANGED <<pass, swapped, life, world>>

Enqueue(b) ==
    /\ pc[b] = "enqueue"
    /\ updates' = updates + 1
    /\ Goes(b, "after")
    /\ UNCHANGED <<pass, swapped, life, status, lock, pbf, graphs, lost>>

(* Mutant: a failure to enqueue is logged and forgotten. *)
Forgotten == "after"

EnqueueRaises == "caught"

(* Redis does not answer. *)
EnqueueFails(b) ==
    /\ pc[b] = "enqueue"
    /\ lost' = lost + 1
    /\ Goes(b, EnqueueRaises)
    /\ UNCHANGED <<pass, swapped, life, status, lock, pbf, graphs, updates>>

-----------------------------------------------------------------------------
(* SIGTERM and SIGINT: the flag, and the subprocess if there is one to be   *)
(* seen; it is not between its start and the assignment to _current.        *)
Signal(b) ==
    /\ pc[b] # "off" /\ ~ stop[b]
    /\ stop' = [stop EXCEPT ![b] = TRUE]
    /\ \/ Talks(b) /\ terminated' = [terminated EXCEPT ![b] = TRUE]
       \/ UNCHANGED terminated
    /\ UNCHANGED <<run, exit, started, starts, status, world>>

AfterSwap == {"unlock", "report", "enqueue"}

Crash(b) ==
    /\ pc[b] # "off" /\ Fault
    /\ lost' = IF pc[b] \in AfterSwap THEN lost + 1 ELSE lost
    /\ pbf' = IF pc[b] = "download" THEN "partial" ELSE pbf
    /\ Exits(b, "killed")
    /\ pass' = [pass EXCEPT ![b] = 0]
    /\ terminated' = [terminated EXCEPT ![b] = FALSE]
    /\ UNCHANGED <<swapped, stop, started, starts, memory, file, missed, lock, graphs, updates>>

(* The lock of a builder that was killed, or could not release it, runs out. *)
LeaseExpires ==
    /\ lock # Nobody /\ pc[lock] \notin Locked
    /\ lock' = Nobody
    /\ UNCHANGED <<run, life, status, pbf, graphs, updates, lost>>

-----------------------------------------------------------------------------
BuilderStep(b) ==
    \/ Wake(b) \/ Quit(b) \/ Skip(b) \/ GoToSleep(b) \/ Leave(b) \/ Caught(b)
    \/ AttemptFails(b) \/ TakeLock(b) \/ Prune(b) \/ StepFails(b) \/ DownloadFails(b) \/ Download(b)
    \/ UpdateIsDone(b) \/ MoreToUpdate(b) \/ BuildStep(b)
    \/ Swap(b) \/ Unlock(b) \/ UnlockFails(b) \/ Report(b) \/ Enqueue(b) \/ EnqueueFails(b)

Next ==
    \/ \E b \in Builders :
         BuilderStep(b) \/ Start(b) \/ Heartbeat(b) \/ Signal(b) \/ Crash(b)
    \/ LeaseExpires

(* A builder that runs goes on, its subprocesses end, and leases run out.   *)
Fairness ==
    /\ \A b \in Builders : WF_vars(BuilderStep(b))
    /\ WF_vars(LeaseExpires)

Spec == Init /\ [][Next]_vars /\ Fairness

-----------------------------------------------------------------------------
Alone(b) == started \subseteq {b}

(* Every swap has its task, or failed or died on the way to it, or is on    *)
(* that way; and the exit codes of --once builders tell which: 0, the link  *)
(* was swapped, and for each of these there is a task of its own; 75, the   *)
(* run did nothing; and for each 1 that comes after a swap there is a swap  *)
(* that has no task.                                                        *)
SwapsAreAccountedFor ==
    /\ graphs = updates + lost + Cardinality({b \in Builders : pc[b] \in AfterSwap})
    /\ \A b \in Once :
         /\ exit[b] = "ok" => swapped[b]
         /\ exit[b] = "locked" => ~ swapped[b]
    /\ Cardinality({b \in Once : exit[b] = "ok"}) <= updates
    /\ Cardinality({b \in Once : exit[b] = "failed" /\ swapped[b]}) <= lost

(* A run that exits with 1 left the previous graph serving.                 *)
FailedRunsKeepTheGraph == \A b \in Once : exit[b] = "failed" => ~ swapped[b]

(* The status file says idle only while no build runs, as long as one       *)
(* builder does the provider's builds and unless its last write was lost:   *)
(* signals, failures, restarts, late heartbeats and writes that were lost   *)
(* earlier leave nothing behind.                                            *)
IdleMeansNoBuild ==
    \A b \in Builders : Alone(b) /\ file.state = "idle" /\ ~ missed => pc[b] \notin Locked

(* Tiles are built from a PBF that was brought up to date in the same run,  *)
(* whoever built or failed before; one that a failed download cut short is  *)
(* the exception.                                                           *)
TilesComeFromFreshData ==
    \A b \in Builders :
      pc[b] \in {"config", "tiles", "elevation", "enhance"} /\ MaxPasses > 0
        => pbf \in {"current", "partial"}

(* The error of a build that failed stays in the file until that builder's  *)
(* next build begins, through the sleep, skipped runs and lost writes in    *)
(* between, as long as one builder does the provider's builds and knows of  *)
(* the error: one that was started again does not.                          *)
ErrorsAreKept ==
    [][\A b \in Builders :
         Alone(b) /\ memory[b].error /\ file.error /\ ~ file'.error => pc'[b] = "prune"]_vars

(* What the worker counts on (module Publications, which PackageJobs is     *)
(* built on): update_all_packages is enqueued after the link was swapped,   *)
(* at most once for each swap, whatever fails, dies or is started again.    *)
Published == INSTANCE Publications WITH sent <- updates

ImplementsPublications == Published!Spec

(* A builder that was told to stop does, however often builds fail.         *)
SignalledBuildersStop == \A b \in Builders : stop[b] ~> pc[b] = "off"

(* A builder that was told to stop, or was started for one build, never    *)
(* goes back: each of its steps brings it nearer to its end, so that from   *)
(* the signal on it takes at most MaxPasses + 15 of them, on whichever way  *)
(* of success and failure.                                                  *)
Way(step, passes) ==
    [off |-> 0, after |-> 1, caught |-> 2, raise |-> 3, enqueue |-> 3, report |-> 4,
     unlock |-> 5, swap |-> 6, meta |-> 7, enhance |-> 8, elevation |-> 9, tiles |-> 10,
     config |-> 11, download |-> 12, update |-> 12 + MaxPasses - passes,
     prune |-> 13 + MaxPasses, attempt |-> 14 + MaxPasses, sleep |-> 15 + MaxPasses][step]

StepsLeft(b) == Way(pc[b], pass[b])

LastRunsGetOn ==
    [][\A b \in Builders :
         pc[b] # "off" /\ (stop[b] \/ b \in Once)
           => <<pc[b], pass[b]>>' = <<pc[b], pass[b]>> \/ StepsLeft(b)' < StepsLeft(b)]_vars

(* A builder that sleeps is not reported to be building, as long as it is   *)
(* the only one: the file is what the builder is currently doing.           *)
SleepersDoNotBuild ==
    \A b \in Builders : Alone(b) /\ pc[b] = "sleep" => file.state # "building"
=============================================================================
