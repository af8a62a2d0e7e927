----------------------------- MODULE PackageJobs -----------------------------
(***************************************************************************)
(* The life of a package: the jobs API writes a row to Postgres, a         *)
(* directory to the output volume and a task to Redis; the arq worker      *)
(* turns the task into a zip; update_all_packages does it again after      *)
(* every graph build; a DELETE takes all of it away.  Nothing but the      *)
(* order of the steps keeps the three stores in agreement.                 *)
(*                                                                         *)
(* A name stands for provider and name together, which is what the         *)
(* directory, the zip and the arq id are called.  A job is a row of the    *)
(* jobs table: the k-th one posted under its name.                         *)
(*                                                                         *)
(* The API server is one process with one event loop, so the handlers      *)
(* interleave where they await Redis and nowhere else.  The coroutines of  *)
(* the worker never await: a worker runs one job at a time.                *)
(*                                                                         *)
(* Redis as arq uses it is external: the key of a task, the entry in the   *)
(* queue, the in-progress key and the result, one of each per arq id.      *)
(* MaxGraphs, PostsPerName and MaxFaults bound the model.                  *)
(***************************************************************************)
EXTENDS Naturals, FiniteSets

CONSTANTS
    Names,          \* provider and name of a package
    Requests,       \* POSTs and DELETEs the server handles at a time
    Workers,        \* arq workers; the compose files start one
    PostsPerName,   \* how often a name is posted
    MaxGraphs,      \* graph builds that succeed
    MaxFaults,      \* processes killed, transactions refused, directories that stay
    NoJob           \* neither a row nor a task

Jobs == Names \X (1 .. PostsPerName)
NameOf(j) == j[1]

Statuses == {"Queued", "Compressing", "Completed", "Failed"}
Row == [status: Statuses, update: BOOLEAN]

ASSUME PackageAssumption ==
    /\ PostsPerName \in Nat /\ MaxGraphs \in Nat /\ MaxFaults \in Nat
    /\ NoJob \notin Jobs \cup Row

(* What a package's directory holds: nothing at all because there is no     *)
(* directory, no file, a zip cut short, a zip two processes wrote into, a   *)
(* zip with its metadata, or the metadata alone.                            *)
Contents == {"none", "empty", "partial", "garbled", "whole", "stray"}

VARIABLES
    rows,        \* the jobs table: status and the update flag, or NoJob
    posts,       \* how often a name was posted so far
    output,      \* the package's directory in the output volume
    madeFrom,    \* the graph the zip was made from
    kept,        \* the names whose last create could not remove its directory
    task,        \* arq:job, the job the task is about
    queued,      \* the names in arq:queue
    inProgress,  \* arq:in-progress, the job that was picked
    result,      \* the names with an arq:result
    updates,     \* update_all_packages tasks nobody picked yet
    graph,       \* the generation the graph link points at
    sent,        \* how often update_all_packages was enqueued
    announced,   \* the graph there was when it last was
    request,     \* what the server does for a request
    errors,      \* names a client got an error for
    pc, job, updating, todo, source, file, ok,   \* of a worker
    faults

redis == <<task, queued, inProgress, result, updates>>
disk  == <<output, madeFrom, kept>>
table == <<rows, posts>>
build == <<graph, sent, announced>>
api   == <<request, errors>>
work  == <<pc, job, updating, todo, source, file, ok>>
vars  == <<table, disk, redis, build, api, work, faults>>

(* A request is idle or between two awaits of its handler. *)
RequestSteps == {"idle", "enqueue", "drop", "remove", "empty", "rmdir"}
WorkerSteps  == {"idle", "next", "begin", "lock", "open", "write", "meta",
                 "cleanup", "commit", "finish"}
Idle == [at |-> "idle", for |-> NoJob]

TypeOK ==
    /\ rows \in [Jobs -> Row \cup {NoJob}]
    /\ posts \in [Names -> 0 .. PostsPerName]
    /\ output \in [Names -> Contents]
    /\ madeFrom \in [Names -> 0 .. MaxGraphs] /\ kept \subseteq Names
    /\ task \in [Names -> Jobs \cup {NoJob}]
    /\ inProgress \in [Names -> Jobs \cup {NoJob}]
    /\ queued \subseteq Names /\ result \subseteq Names
    /\ graph \in 0 .. MaxGraphs /\ announced \in 0 .. graph
    /\ sent \in 0 .. graph /\ updates \in 0 .. sent
    /\ request \in [Requests -> [at: RequestSteps, for: Jobs \cup {NoJob}]]
    /\ \A r \in Requests : request[r].for = NoJob <=> request[r].at = "idle"
    /\ errors \subseteq Names
    /\ pc \in [Workers -> WorkerSteps]
    /\ job \in [Workers -> Jobs \cup {NoJob}]
    /\ \A w \in Workers : job[w] = NoJob <=> pc[w] \in {"idle", "next"}
    /\ updating \in [Workers -> BOOLEAN] /\ ok \in [Workers -> BOOLEAN]
    /\ todo \in [Workers -> SUBSET Jobs]
    /\ source \in [Workers -> 0 .. MaxGraphs]
    /\ file \in [Workers -> {"closed", "linked", "unlinked"}]
    /\ faults \in 0 .. MaxFaults

Init ==
    /\ rows = [j \in Jobs |-> NoJob] /\ posts = [n \in Names |-> 0]
    /\ output = [n \in Names |-> "none"] /\ madeFrom = [n \in Names |-> 0] /\ kept = {}
    /\ task = [n \in Names |-> NoJob] /\ inProgress = [n \in Names |-> NoJob]
    /\ queued = {} /\ result = {} /\ updates = 0
    /\ graph = 0 /\ sent = 0 /\ announced = 0
    /\ request = [r \in Requests |-> Idle] /\ errors = {}
    /\ pc = [w \in Workers |-> "idle"] /\ job = [w \in Workers |-> NoJob]
    /\ updating = [w \in Workers |-> FALSE] /\ todo = [w \in Workers |-> {}]
    /\ source = [w \in Workers |-> 0] /\ ok = [w \in Workers |-> FALSE]
    /\ file = [w \in Workers |-> "closed"]
    /\ faults = 0

Exists(j) == rows[j] # NoJob

Fault == faults < MaxFaults /\ faults' = faults + 1

(* The zip of n has no name any more: who has it open writes to nowhere. *)
Unlink(n) ==
    file' = [w \in Workers |->
               IF job[w] # NoJob /\ NameOf(job[w]) = n /\ file[w] = "linked"
               THEN "unlinked" ELSE file[w]]

-----------------------------------------------------------------------------
(* The jobs API.  A handler past its last await keeps the event loop, so    *)
(* no other handler moves until it is done.                                 *)

LoopIsFree(r) == \A q \in Requests \ {r} : request[q].at \notin {"empty", "rmdir"}

Answer(r) == request' = [request EXCEPT ![r] = Idle]
GoOn(r, step) == request' = [request EXCEPT ![r].at = step]
Report(n) == errors' = errors \cup {n}

MakeDirectory(n) ==
    /\ output[n] = "none"
    /\ output' = [output EXCEPT ![n] = "empty"]
    /\ kept' = kept \ {n}

(* post_job up to its await: mkdir refuses a name that has a directory, and *)
(* nothing else does.                                                       *)
Post(r, n, u) ==
    /\ request[r] = Idle /\ LoopIsFree(r)
    /\ posts[n] < PostsPerName
    /\ LET j == <<n, posts[n] + 1>> IN
         /\ rows' = [rows EXCEPT ![j] = [status |-> "Queued", update |-> u]]
         /\ request' = [request EXCEPT ![r] = [at |-> "enqueue", for |-> j]]
    /\ posts' = [posts EXCEPT ![n] = @ + 1]
    /\ MakeDirectory(n)
    /\ UNCHANGED <<madeFrom, redis, build, errors, work, faults>>

(* The directory is there and Postgres refuses the row. *)
PostFails(r, n) ==
    /\ request[r] = Idle /\ LoopIsFree(r)
    /\ posts[n] < PostsPerName
    /\ posts' = [posts EXCEPT ![n] = @ + 1]
    /\ MakeDirectory(n)
    /\ Report(n) /\ Fault
    /\ UNCHANGED <<rows, madeFrom, redis, build, request, work>>

(* enqueue_job with a _job_id does nothing, and says nothing, when arq has  *)
(* a task or a result of that id.                                           *)
Enqueue(r) ==
    LET j == request[r].for
        n == NameOf(j)
        fresh == task[n] = NoJob /\ n \notin result
    IN
    /\ request[r].at = "enqueue"
    /\ task' = [task EXCEPT ![n] = IF fresh THEN j ELSE @]
    /\ queued' = IF fresh THEN queued \cup {n} ELSE queued
    /\ Answer(r)
    /\ UNCHANGED <<table, disk, inProgress, result, updates, build, errors, work, faults>>

(* delete_job reads the row and awaits the deletion of the task's key.  The *)
(* entry in the queue and the in-progress key stay.                         *)
StartDelete(r, j) ==
    /\ request[r] = Idle /\ LoopIsFree(r)
    /\ Exists(j)
    /\ request' = [request EXCEPT ![r] = [at |-> "drop", for |-> j]]
    /\ UNCHANGED <<table, disk, redis, build, errors, work, faults>>

DropTask(r) ==
    /\ request[r].at = "drop"
    /\ task' = [task EXCEPT ![NameOf(request[r].for)] = NoJob]
    /\ GoOn(r, "remove")
    /\ UNCHANGED <<table, disk, queued, inProgress, result, updates, build, errors, work, faults>>

RemoveRow(r) ==
    /\ request[r].at = "remove" /\ LoopIsFree(r)
    /\ rows' = [rows EXCEPT ![request[r].for] = NoJob]
    /\ GoOn(r, "empty")
    /\ UNCHANGED <<posts, disk, redis, build, errors, work, faults>>

RemoveRowFails(r) ==
    /\ request[r].at = "remove" /\ LoopIsFree(r)
    /\ Report(NameOf(request[r].for)) /\ Answer(r) /\ Fault
    /\ UNCHANGED <<table, disk, redis, build, work>>

(* rmtree unlinks the files it finds, then removes the directory: that      *)
(* fails when a worker put a file there in between.                         *)
EmptyDirectory(r) ==
    LET n == NameOf(request[r].for) IN
    /\ request[r].at = "empty"
    /\ IF output[n] = "none"
       THEN Answer(r) /\ UNCHANGED <<output, file>>
       ELSE GoOn(r, "rmdir") /\ Unlink(n) /\ output' = [output EXCEPT ![n] = "empty"]
    /\ UNCHANGED <<table, madeFrom, kept, redis, build, errors, pc, job, updating, todo, source, ok, faults>>

RemoveDirectory(r) ==
    LET n == NameOf(request[r].for) IN
    /\ request[r].at = "rmdir"
    /\ IF output[n] = "empty"
       THEN output' = [output EXCEPT ![n] = "none"] /\ UNCHANGED errors
       ELSE Report(n) /\ UNCHANGED output
    /\ Answer(r)
    /\ UNCHANGED <<table, madeFrom, kept, redis, build, work, faults>>

(* The server is killed with every request it was handling. *)
CrashServer ==
    /\ \E r \in Requests : request[r] # Idle
    /\ errors' = errors \cup {NameOf(request[r].for) : r \in {q \in Requests : request[q] # Idle}}
    /\ request' = [r \in Requests |-> Idle]
    /\ Fault
    /\ UNCHANGED <<table, disk, redis, build, work>>

-----------------------------------------------------------------------------
(* The worker: what arq does around a task, and create_package. *)

Goes(w, step) == pc' = [pc EXCEPT ![w] = step]
At(w, step) == pc[w] = step
Mine(w) == NameOf(job[w])

(* A task whose key is gone is refused as expired, which leaves a result. *)
DropExpired(w, n) ==
    /\ At(w, "idle")
    /\ n \in queued /\ inProgress[n] = NoJob /\ task[n] = NoJob
    /\ queued' = queued \ {n} /\ result' = result \cup {n}
    /\ UNCHANGED <<table, disk, task, inProgress, updates, build, api, work, faults>>

PickCreate(w, n) ==
    /\ At(w, "idle")
    /\ n \in queued /\ inProgress[n] = NoJob /\ task[n] # NoJob
    /\ inProgress' = [inProgress EXCEPT ![n] = task[n]]
    /\ job' = [job EXCEPT ![w] = task[n]]
    /\ Goes(w, "begin")
    /\ UNCHANGED <<table, disk, task, queued, result, updates, build, api, updating, todo, source, file, ok, faults>>

(* update_all_packages reads the rows to update once. *)
UpdateJobs == {j \in Jobs : Exists(j) /\ rows[j].update}

PickUpdate(w) ==
    /\ At(w, "idle") /\ updates > 0
    /\ updates' = updates - 1
    /\ todo' = [todo EXCEPT ![w] = UpdateJobs]
    /\ updating' = [updating EXCEPT ![w] = TRUE]
    /\ Goes(w, "next")
    /\ UNCHANGED <<table, disk, task, queued, inProgress, result, build, api, job, source, file, ok, faults>>

NextUpdate(w, j) ==
    /\ At(w, "next") /\ j \in todo[w]
    /\ todo' = [todo EXCEPT ![w] = @ \ {j}]
    /\ job' = [job EXCEPT ![w] = j]
    /\ Goes(w, "begin")
    /\ UNCHANGED <<table, disk, redis, build, api, updating, source, file, ok, faults>>

UpdateDone(w) ==
    /\ At(w, "next") /\ todo[w] = {}
    /\ updating' = [updating EXCEPT ![w] = FALSE]
    /\ Goes(w, "idle")
    /\ UNCHANGED <<table, disk, redis, build, api, job, todo, source, file, ok, faults>>

(* Where create_package returns to, whether it raises or not. *)
Return(w) ==
    /\ IF updating[w]
       THEN Goes(w, "next") /\ job' = [job EXCEPT ![w] = NoJob]
       ELSE Goes(w, "finish") /\ UNCHANGED job
    /\ source' = [source EXCEPT ![w] = 0] /\ ok' = [ok EXCEPT ![w] = FALSE]

(* Mutant: an update leaves the status of the row alone. *)
StartedQuietly(w) == IF updating[w] THEN rows[job[w]].status ELSE "Compressing"

Started(w) == "Compressing"

Begin(w) ==
    /\ At(w, "begin") /\ Exists(job[w])
    /\ rows' = [rows EXCEPT ![job[w]].status = Started(w)]
    /\ Goes(w, "lock")
    /\ UNCHANGED <<posts, disk, redis, build, api, job, updating, todo, source, file, ok, faults>>

JobIsGone(w) ==
    /\ At(w, "begin") /\ ~ Exists(job[w])
    /\ Return(w)
    /\ UNCHANGED <<table, disk, redis, build, api, updating, todo, file, faults>>

(* The shared lock on the generation behind the link (module                *)
(* GraphGenerations), and the tiles of the bounding box.                    *)
LockGraph(w) ==
    /\ At(w, "lock") /\ graph > 0
    /\ source' = [source EXCEPT ![w] = graph]
    /\ Goes(w, "open")
    /\ UNCHANGED <<table, disk, redis, build, api, job, updating, todo, file, ok, faults>>

(* No graph, no lock in time, or no tile in the bounding box. *)
NoTiles(w) ==
    /\ At(w, "lock")
    /\ Goes(w, "cleanup")
    /\ UNCHANGED <<table, disk, redis, build, api, job, updating, todo, source, file, ok, faults>>

Writers(n) == {w \in Workers : job[w] # NoJob /\ Mine(w) = n /\ file[w] = "linked"}

(* Mutant: make_zip makes the directory it does not find. *)
MakesDirectory(w) == TRUE

HasDirectory(w) == output[Mine(w)] # "none"

(* make_zip opens the zip for writing: an older one is cut to nothing. *)
OpenZip(w) ==
    /\ At(w, "open") /\ HasDirectory(w)
    /\ output' = [output EXCEPT ![Mine(w)] = IF Writers(Mine(w)) = {} THEN "partial" ELSE "garbled"]
    /\ madeFrom' = [madeFrom EXCEPT ![Mine(w)] = source[w]]
    /\ file' = [file EXCEPT ![w] = "linked"]
    /\ Goes(w, "write")
    /\ UNCHANGED <<table, kept, redis, build, api, job, updating, todo, source, ok, faults>>

NoDirectory(w) ==
    /\ At(w, "open") /\ ~ HasDirectory(w)
    /\ Goes(w, "cleanup")
    /\ UNCHANGED <<table, disk, redis, build, api, job, updating, todo, source, file, ok, faults>>

CloseZip(w) ==
    /\ At(w, "write")
    /\ output' = IF file[w] = "linked" /\ output[Mine(w)] = "partial"
                 THEN [output EXCEPT ![Mine(w)] = "whole"] ELSE output
    /\ file' = [file EXCEPT ![w] = "closed"]
    /\ Goes(w, "meta")
    /\ UNCHANGED <<table, madeFrom, kept, redis, build, api, job, updating, todo, source, ok, faults>>

(* A full disk, a tile that cannot be read: what was written stays. *)
ZipFails(w) ==
    /\ At(w, "write")
    /\ file' = [file EXCEPT ![w] = "closed"]
    /\ Goes(w, "cleanup")
    /\ UNCHANGED <<table, disk, redis, build, api, job, updating, todo, source, ok, faults>>

WriteMeta(w) ==
    /\ At(w, "meta")
    /\ IF output[Mine(w)] = "none"
       THEN Goes(w, "cleanup") /\ UNCHANGED <<output, ok>>
       ELSE /\ output' = [output EXCEPT ![Mine(w)] = IF @ = "empty" THEN "stray" ELSE @]
            /\ ok' = [ok EXCEPT ![w] = TRUE]
            /\ Goes(w, "commit")
    /\ UNCHANGED <<table, madeFrom, kept, redis, build, api, job, updating, todo, source, file, faults>>

(* Mutant: the directory of a job that did not succeed stays. *)
RemovesNothing(w) == FALSE

Removes(w) == ~ updating[w]

(* A job that did not succeed takes its directory with it unless it was     *)
(* an update, which leaves what was there before.                           *)
Cleanup(w) ==
    /\ At(w, "cleanup")
    /\ IF Removes(w)
       THEN output' = [output EXCEPT ![Mine(w)] = "none"] /\ Unlink(Mine(w))
       ELSE UNCHANGED <<output, file>>
    /\ Goes(w, "commit")
    /\ UNCHANGED <<table, madeFrom, kept, redis, build, api, job, updating, todo, source, ok, faults>>

(* rmtree ignores its errors: the zip, the metadata or no more than the     *)
(* directory may still be there, and the job goes on as if none of it were. *)
CleanupFails(w) ==
    /\ At(w, "cleanup") /\ Removes(w) /\ output[Mine(w)] # "none"
    /\ \E left \in {"empty", "stray", output[Mine(w)]} :
         /\ output[Mine(w)] = "empty" => left = "empty"
         /\ output' = [output EXCEPT ![Mine(w)] = left]
         /\ IF left = output[Mine(w)] THEN UNCHANGED file ELSE Unlink(Mine(w))
    /\ kept' = kept \cup {Mine(w)} /\ Fault
    /\ Goes(w, "commit")
    /\ UNCHANGED <<table, madeFrom, redis, build, api, job, updating, todo, source, ok>>

(* Mutant: an update that failed says Completed, for the package is there.  *)
CompletesAnyway(w) == IF updating[w] \/ ok[w] THEN "Completed" ELSE "Failed"

FinalStatus(w) == IF ok[w] THEN "Completed" ELSE "Failed"

(* Mutant: the final status is written where create_package succeeds only. *)
CommitsSuccess(w) == Exists(job[w]) /\ ok[w]

Commits(w) == Exists(job[w])

(* The commit of a row that was deleted meanwhile raises and writes nothing. *)
Commit(w) ==
    /\ At(w, "commit")
    /\ rows' = IF Commits(w) THEN [rows EXCEPT ![job[w]].status = FinalStatus(w)] ELSE rows
    /\ Return(w)
    /\ UNCHANGED <<posts, disk, redis, build, api, updating, todo, file, faults>>

(* arq's finish_job: by arq id, whichever job the task is about by now. *)
Finish(w) ==
    /\ At(w, "finish")
    /\ task' = [task EXCEPT ![Mine(w)] = NoJob]
    /\ inProgress' = [inProgress EXCEPT ![Mine(w)] = NoJob]
    /\ queued' = queued \ {Mine(w)}
    /\ result' = result \cup {Mine(w)}
    /\ job' = [job EXCEPT ![w] = NoJob]
    /\ Goes(w, "idle")
    /\ UNCHANGED <<table, disk, updates, build, api, updating, todo, source, file, ok, faults>>

(* The worker is killed and its container starts another. *)
CrashWorker(w) ==
    /\ ~ At(w, "idle") /\ Fault
    /\ Goes(w, "idle")
    /\ job' = [job EXCEPT ![w] = NoJob]
    /\ file' = [file EXCEPT ![w] = "closed"]
    /\ updating' = [updating EXCEPT ![w] = FALSE] /\ todo' = [todo EXCEPT ![w] = {}]
    /\ source' = [source EXCEPT ![w] = 0] /\ ok' = [ok EXCEPT ![w] = FALSE]
    /\ UNCHANGED <<table, disk, redis, build, api>>

-----------------------------------------------------------------------------
(* Redis and the graph builder. *)

InHand(n) == \E w \in Workers : job[w] # NoJob /\ ~ updating[w] /\ Mine(w) = n

(* The in-progress key of a worker that died outlives the task it picked:   *)
(* that one expires a day after it was enqueued, the key a day and ten      *)
(* seconds after it was picked.                                             *)
InProgressExpires(n) ==
    /\ inProgress[n] # NoJob /\ ~ InHand(n)
    /\ task' = [task EXCEPT ![n] = IF @ = inProgress[n] THEN NoJob ELSE @]
    /\ inProgress' = [inProgress EXCEPT ![n] = NoJob]
    /\ UNCHANGED <<table, disk, queued, result, updates, build, api, work, faults>>

(* An hour after a task ended. *)
ResultExpires(n) ==
    /\ n \in result
    /\ result' = result \ {n}
    /\ UNCHANGED <<table, disk, task, queued, inProgress, updates, build, api, work, faults>>

(* The builds swap the graph and enqueue the updates as BuildRun does it:   *)
(* the next swap may come first, and an enqueueing that failed never comes. *)
Builds == INSTANCE Publications WITH graphs <- graph

SwapGraph ==
    /\ Builds!Swap
    /\ UNCHANGED <<table, disk, redis, announced, api, work, faults>>

(* Mutant: an enqueueing that went through is tried again. *)
TwoMoreUpdates == updates + 2

(* Mutant: update_all_packages is enqueued under an id of its own, so that  *)
(* arq drops a second one.                                                  *)
OneUpdate == IF \E w \in Workers : updating[w] THEN updates ELSE 1

OneMoreUpdate == updates + 1

EnqueueUpdates ==
    /\ Builds!Announce
    /\ updates' = OneMoreUpdate /\ announced' = graph
    /\ UNCHANGED <<table, disk, task, queued, inProgress, result, api, work, faults>>

-----------------------------------------------------------------------------
ServerGoesOn(r) ==
    \/ Enqueue(r) \/ DropTask(r) \/ RemoveRow(r)
    \/ EmptyDirectory(r) \/ RemoveDirectory(r)

WorkerGoesOn(w) ==
    \/ Begin(w) \/ JobIsGone(w) \/ LockGraph(w) \/ NoTiles(w)
    \/ OpenZip(w) \/ NoDirectory(w) \/ CloseZip(w) \/ ZipFails(w)
    \/ WriteMeta(w) \/ Cleanup(w) \/ CleanupFails(w) \/ Commit(w) \/ Finish(w)
    \/ PickUpdate(w) \/ UpdateDone(w)
    \/ \E j \in Jobs : NextUpdate(w, j)
    \/ \E n \in Names : DropExpired(w, n) \/ PickCreate(w, n)

Next ==
    \/ \E r \in Requests :
         \/ ServerGoesOn(r)
         \/ \E n \in Names, u \in BOOLEAN : Post(r, n, u)
         \/ \E n \in Names : PostFails(r, n)
         \/ \E j \in Jobs : StartDelete(r, j)
         \/ RemoveRowFails(r)
    \/ \E w \in Workers : WorkerGoesOn(w) \/ CrashWorker(w)
    \/ \E n \in Names : InProgressExpires(n) \/ ResultExpires(n)
    \/ CrashServer \/ SwapGraph \/ EnqueueUpdates

(* Requests that were accepted are handled, workers are up and poll, and    *)
(* keys expire.  Nobody has to post, delete or build.                       *)
Fairness ==
    /\ \A r \in Requests : WF_vars(ServerGoesOn(r))
    /\ \A w \in Workers : WF_vars(WorkerGoesOn(w))
    /\ \A n \in Names : WF_vars(InProgressExpires(n))

Spec == Init /\ [][Next]_vars /\ Fairness

-----------------------------------------------------------------------------
(* A package whose job is Completed can be downloaded, with all its tiles,  *)
(* while others are updated, created or deleted and processes die; as long  *)
(* as nobody posts its name a second time.                                  *)
CompletedPackagesAreWhole ==
    \A j \in Jobs :
      Exists(j) /\ rows[j].status = "Completed" /\ posts[NameOf(j)] = 1
        => output[NameOf(j)] = "whole"

(* A package that could not be created frees its name: until somebody posts *)
(* it again, nothing is left behind the row of one that is not updated,     *)
(* unless it was the removal that failed.                                   *)
Latest(j) == j[2] = posts[NameOf(j)]

FailedCreatesFreeTheName ==
    \A j \in Jobs :
      Exists(j) /\ Latest(j) /\ rows[j].status = "Failed" /\ ~ rows[j].update
        => output[NameOf(j)] = "none" \/ NameOf(j) \in kept

(* What is on disk without a row is work in progress, or somebody was told: *)
(* a request was answered with an error, or went down with the server.      *)
OrphansAreReported ==
    \A n \in Names :
      output[n] # "none" /\ (\A j \in Jobs : NameOf(j) = n => ~ Exists(j))
        => \/ n \in errors
           \/ \E r \in Requests : request[r] # Idle /\ NameOf(request[r].for) = n

(* Once update_all_packages went through, no package is left on a graph     *)
(* older than the one there was when it was enqueued, whatever was posted,  *)
(* created or deleted meanwhile: it is made from that graph or a newer one, *)
(* or its job says Failed.                                                  *)
PackagesKeepUp ==
    (updates = 0 /\ faults = 0 /\ \A w \in Workers : ~ updating[w])
      => \A j \in UpdateJobs : rows[j].status = "Completed" => madeFrom[NameOf(j)] >= announced

(* No job is forgotten while nothing fails: one that says Compressing is in *)
(* a worker's hands on the way to its last commit; one that says Queued has *)
(* its task in the queue, or a request that is about to put it there or to  *)
(* delete the row, or a worker is about to begin with it.  A name posted    *)
(* twice is the exception.                                                  *)
Working == {"lock", "open", "write", "meta", "cleanup", "commit"}

InWork(j, steps) == \E w \in Workers : job[w] = j /\ pc[w] \in steps

WaitingJobsAreInWork ==
    faults = 0 =>
      \A j \in Jobs : Exists(j) =>
        /\ rows[j].status = "Compressing" => InWork(j, Working)
        /\ rows[j].status = "Queued" /\ posts[NameOf(j)] = 1 =>
             \/ task[NameOf(j)] = j /\ NameOf(j) \in queued
             \/ \E r \in Requests : request[r].for = j /\ request[r].at \in {"enqueue", "remove"}
             \/ InWork(j, {"begin"})

(* A job that is Queued or Compressing gets out of it, unless a process     *)
(* died or Postgres refused something.                                      *)
Waits(j) == Exists(j) /\ rows[j].status \in {"Queued", "Compressing"}

JobsComeToAnEnd == \A j \in Jobs : Waits(j) ~> ~ Waits(j) \/ faults > 0

(* What clients can count on (module PackageLife): the status of a job      *)
(* takes no other way, Completed is said of a package that was made since   *)
(* the job was last set to work, nobody writes over a package that is about *)
(* to be reported, and no package is replaced by one from an older graph.   *)
StateOf(j) ==
    IF Exists(j) THEN rows[j].status
    ELSE IF j[2] <= posts[NameOf(j)] THEN "gone" ELSE "unborn"

Life == INSTANCE PackageLife WITH
    state <- [j \in Jobs |-> StateOf(j)],
    from  <- madeFrom,
    made  <- {job[w] : w \in {v \in Workers : ok[v]}}

ImplementsLife == Life!Spec

(* A name belongs to one job at a time. *)
NamesAreUnique ==
    \A i, j \in Jobs : Exists(i) /\ Exists(j) /\ NameOf(i) = NameOf(j) => i = j
=============================================================================
