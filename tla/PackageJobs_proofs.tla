------------------------- MODULE PackageJobs_proofs -------------------------
(***************************************************************************)
(* What the order of the steps of the jobs API and of the worker promises, *)
(* for any number of names, of requests and of posts.  The first part is   *)
(* about any number of workers, the second about the one worker that the   *)
(* compose files start.                                                    *)
(***************************************************************************)
EXTENDS PackageJobs, TLAPS

USE PackageAssumption

-----------------------------------------------------------------------------
(* The inductive invariant, whatever the number of workers.                *)

Posted(j) == j[2] <= posts[NameOf(j)]

(* Whatever anybody knows of a job, the job was posted, so that the next   *)
(* one posted under its name is another.                                   *)
JobsAreNumbered ==
  /\ \A j \in Jobs : Exists(j) => Posted(j)
  /\ \A n \in Names : task[n] # NoJob => Posted(task[n])
  /\ \A r \in Requests : request[r].for # NoJob => Posted(request[r].for)
  /\ \A w \in Workers : /\ job[w] # NoJob => Posted(job[w])
                        /\ \A j \in todo[w] : Posted(j)

(* An update is of jobs that ask for updates, and it ends before the worker *)
(* takes something else.                                                   *)
UpdatesAreWanted ==
  \A w \in Workers :
    /\ pc[w] \in {"idle", "finish"} => ~ updating[w]
    /\ pc[w] = "next" => updating[w]
    /\ updating[w] =>
         \A j \in Jobs : (j \in todo[w] \/ j = job[w]) /\ Exists(j) => rows[j].update

(* The directory of a create that fails is gone before its row says so, or *)
(* could not be removed.                                                   *)
Freed(n) == output[n] = "none" \/ n \in kept

FailuresAreCleanedUp ==
  \A w \in Workers :
    pc[w] = "commit" /\ ~ ok[w] /\ ~ updating[w] /\ Latest(job[w])
      => Freed(NameOf(job[w]))

(* A directory without a row was reported, or is being removed.            *)
OrphansAreUnderWay ==
  \A n \in Names :
    output[n] # "none" /\ (\A j \in Jobs : NameOf(j) = n => ~ Exists(j))
      => \/ n \in errors
         \/ \E r \in Requests :
              request[r].at \in {"empty", "rmdir"} /\ NameOf(request[r].for) = n

JobsInv ==
  /\ JobsAreNumbered /\ UpdatesAreWanted /\ FailuresAreCleanedUp
  /\ FailedCreatesFreeTheName /\ OrphansAreUnderWay

-----------------------------------------------------------------------------
(* The inductive invariant of one worker.                                  *)

OneWorker == \A v, w \in Workers : v = w

(* The row of a job at work says so, and a job whose directory goes has no *)
(* row.                                                                    *)
RowsAreTrue ==
  /\ \A w \in Workers :
       /\ pc[w] \in Working /\ Exists(job[w]) => rows[job[w]].status = "Compressing"
       /\ file[w] # "closed" => pc[w] = "write"
       /\ ok[w] => pc[w] = "commit"
  /\ \A r \in Requests : request[r].at \in {"empty", "rmdir"} => ~ Exists(request[r].for)

(* How far the zip of a name that was posted once is.                      *)
ZipsGrow ==
  \A w \in Workers :
    job[w] # NoJob /\ Exists(job[w]) /\ posts[Mine(w)] = 1 =>
      /\ pc[w] = "write" => file[w] = "linked" /\ output[Mine(w)] = "partial"
      /\ pc[w] = "meta" \/ (pc[w] = "commit" /\ ok[w]) => output[Mine(w)] = "whole"

WholeInv == RowsAreTrue /\ ZipsGrow /\ CompletedPackagesAreWhole

(* What is at work is at work on the latest graph there are no updates     *)
(* queued for.                                                             *)
WorkIsUpToDate ==
  faults = 0 /\ updates = 0 =>
    \A w \in Workers :
      /\ pc[w] \in {"open", "write", "meta"} => source[w] >= announced
      /\ pc[w] \in {"write", "meta"} \/ (pc[w] = "commit" /\ ok[w])
           => madeFrom[Mine(w)] >= announced

(* A package on an older graph has its update before it.                   *)
UpdatesAreAhead ==
  faults = 0 /\ updates = 0 =>
    \A j \in UpdateJobs :
      rows[j].status = "Completed" =>
        \/ madeFrom[NameOf(j)] >= announced
        \/ \E w \in Workers : updating[w] /\ (j \in todo[w] \/ (j = job[w] /\ pc[w] = "begin"))

KeepUpInv == WorkIsUpToDate /\ UpdatesAreAhead

-----------------------------------------------------------------------------
(* Type correctness.                                                       *)

LEMMA RowTypes ==
  ASSUME TypeOK, NEW j \in Jobs
  PROVE  Exists(j) => rows[j] \in Row /\ rows[j].status \in Statuses /\ rows[j].update \in BOOLEAN
  BY DEF TypeOK, Exists, Row

LEMMA InitType == Init => TypeOK
  BY DEF Init, TypeOK, Idle, RequestSteps, WorkerSteps, Contents

(* Who is at work has a job; who is between two awaits has one, too.       *)
LEMMA Hands ==
  ASSUME TypeOK
  PROVE  /\ \A w \in Workers : pc[w] \notin {"idle", "next"} => job[w] \in Jobs /\ Mine(w) \in Names
         /\ \A r \in Requests : request[r].at # "idle" =>
              request[r].for \in Jobs /\ NameOf(request[r].for) \in Names
         /\ \A r \in Requests : request[r] = Idle <=> request[r].at = "idle"
  BY DEF TypeOK, Mine, Idle, Jobs, NameOf

(* The handlers of the jobs API.                                           *)
LEMMA ServerType ==
  ASSUME TypeOK, NEW r \in Requests,
         \/ ServerGoesOn(r) \/ RemoveRowFails(r)
         \/ \E n \in Names, u \in BOOLEAN : Post(r, n, u)
         \/ \E n \in Names : PostFails(r, n)
         \/ \E j \in Jobs : StartDelete(r, j)
  PROVE  TypeOK'
<1> USE DEF RequestSteps, Contents
<1>1. ASSUME NEW n \in Names, NEW u \in BOOLEAN, Post(r, n, u) PROVE TypeOK'
  <2> DEFINE j == <<n, posts[n] + 1>>
             row == [status |-> "Queued", update |-> u]
             call == [at |-> "enqueue", for |-> j]
  <2>1. /\ rows' = [rows EXCEPT ![j] = row] /\ request' = [request EXCEPT ![r] = call]
        /\ posts' = [posts EXCEPT ![n] = @ + 1] /\ output' = [output EXCEPT ![n] = "empty"]
        /\ posts[n] < PostsPerName /\ kept' = kept \ {n}
        /\ UNCHANGED <<madeFrom, redis, build, errors, work, faults>>
    BY <1>1 DEF Post, MakeDirectory
  <2>2. j \in Jobs
    BY <2>1 DEF TypeOK, Jobs
  <2>3. row \in Row /\ call \in [at: RequestSteps, for: Jobs \cup {NoJob}]
        /\ call.for = j /\ call.at = "enqueue" /\ j # NoJob
    BY <2>2 DEF Row, Statuses
  <2>4. rows' \in [Jobs -> Row \cup {NoJob}] /\ posts' \in [Names -> 0 .. PostsPerName]
        /\ output' \in [Names -> Contents]
    BY <2>1, <2>2, <2>3 DEF TypeOK
  <2>5. request' \in [Requests -> [at: RequestSteps, for: Jobs \cup {NoJob}]]
        /\ \A q \in Requests : request'[q].for = NoJob <=> request'[q].at = "idle"
    BY <2>1, <2>3 DEF TypeOK
  <2> QED
    BY <2>1, <2>4, <2>5 DEF TypeOK, redis, build, work
<1>2. ASSUME NEW n \in Names, PostFails(r, n) PROVE TypeOK'
  BY <1>2 DEF TypeOK, PostFails, MakeDirectory, Report, Fault, redis, build, work
<1>3. CASE Enqueue(r)
  <2>1. request[r].for \in Jobs /\ NameOf(request[r].for) \in Names
    BY <1>3, Hands DEF Enqueue
  <2>2. task' \in [Names -> Jobs \cup {NoJob}] /\ queued' \subseteq Names
    BY <1>3, <2>1 DEF TypeOK, Enqueue
  <2>3. request' = [request EXCEPT ![r] = Idle]
        /\ UNCHANGED <<table, disk, inProgress, result, updates, build, errors, work, faults>>
    BY <1>3 DEF Enqueue, Answer
  <2> QED
    BY <2>2, <2>3 DEF TypeOK, Idle, table, disk, build, work
<1>4. ASSUME NEW j \in Jobs, StartDelete(r, j) PROVE TypeOK'
  <2> QED
    BY <1>4 DEF TypeOK, StartDelete, table, disk, redis, build, work
<1>5. CASE DropTask(r)
  <2>1. request[r].at = "drop" /\ request[r].for \in Jobs /\ NameOf(request[r].for) \in Names
    BY <1>5, Hands DEF DropTask
  <2> QED
    BY <1>5, <2>1 DEF TypeOK, DropTask, GoOn, table, disk, build, work
<1>6. CASE RemoveRow(r)
  <2>1. request[r].at = "remove" /\ request[r].for \in Jobs
    BY <1>6, Hands DEF RemoveRow
  <2> QED
    <3>1. rows' \in [Jobs -> Row \cup {NoJob}]
      BY <1>6, <2>1 DEF TypeOK, RemoveRow
    <3> QED
      BY <1>6, <2>1, <3>1 DEF TypeOK, RemoveRow, GoOn, disk, redis, build, work
<1>7. CASE RemoveRowFails(r)
  <2>1. NameOf(request[r].for) \in Names
    BY <1>7, Hands DEF RemoveRowFails
  <2> QED
    BY <1>7, <2>1 DEF TypeOK, RemoveRowFails, Answer, Idle, Report, Fault, table, disk, redis, build, work
<1>8. CASE EmptyDirectory(r)
  <2>1. request[r].at = "empty" /\ request[r].for \in Jobs /\ NameOf(request[r].for) \in Names
    BY <1>8, Hands DEF EmptyDirectory
  <2>2. file' \in [Workers -> {"closed", "linked", "unlinked"}] /\ output' \in [Names -> Contents]
    BY <1>8, <2>1 DEF TypeOK, EmptyDirectory, Unlink
  <2>3. request' = [request EXCEPT ![r] = Idle] \/ request' = [request EXCEPT ![r].at = "rmdir"]
    BY <1>8 DEF EmptyDirectory, Answer, GoOn
  <2>4. request' \in [Requests -> [at: RequestSteps, for: Jobs \cup {NoJob}]]
        /\ \A q \in Requests : request'[q].for = NoJob <=> request'[q].at = "idle"
    <3>1. CASE request' = [request EXCEPT ![r] = Idle]
      BY <3>1 DEF TypeOK, Idle
    <3>2. CASE request' = [request EXCEPT ![r].at = "rmdir"]
      BY <2>1, <3>2 DEF TypeOK
    <3> QED
      BY <2>3, <3>1, <3>2
  <2>5. UNCHANGED <<table, madeFrom, kept, redis, build, errors, pc, job, updating, todo, source, ok, faults>>
    BY <1>8 DEF EmptyDirectory
  <2> QED
    BY <2>2, <2>4, <2>5 DEF TypeOK, table, redis, build
<1>9. CASE RemoveDirectory(r)
  <2>1. NameOf(request[r].for) \in Names
    BY <1>9, Hands DEF RemoveDirectory
  <2>2. \/ output' = [output EXCEPT ![NameOf(request[r].for)] = "none"] /\ errors' = errors
        \/ output' = output /\ errors' = errors \cup {NameOf(request[r].for)}
    BY <1>9 DEF RemoveDirectory, Report
  <2>3. output' \in [Names -> Contents] /\ errors' \subseteq Names
    BY <2>1, <2>2 DEF TypeOK
  <2> QED
    BY <1>9, <2>3 DEF TypeOK, RemoveDirectory, Answer, Idle, table, redis, build, work
<1> QED
  BY <1>1, <1>2, <1>3, <1>4, <1>5, <1>6, <1>7, <1>8, <1>9 DEF ServerGoesOn

(* The worker.                                                             *)
LEMMA ReturnType ==
  ASSUME TypeOK, NEW w \in Workers, Return(w), pc[w] \in {"begin", "commit"}
  PROVE  /\ pc' \in [Workers -> WorkerSteps] /\ job' \in [Workers -> Jobs \cup {NoJob}]
         /\ \A v \in Workers : job'[v] = NoJob <=> pc'[v] \in {"idle", "next"}
         /\ source' \in [Workers -> 0 .. MaxGraphs] /\ ok' \in [Workers -> BOOLEAN]
         /\ pc'[w] \in {"next", "finish"} /\ ~ ok'[w]
         /\ \A v \in Workers \ {w} : pc'[v] = pc[v] /\ job'[v] = job[v] /\ ok'[v] = ok[v]
<1> USE DEF WorkerSteps
<1>1. /\ source' = [source EXCEPT ![w] = 0] /\ ok' = [ok EXCEPT ![w] = FALSE]
      /\ \/ pc' = [pc EXCEPT ![w] = "next"] /\ job' = [job EXCEPT ![w] = NoJob]
         \/ pc' = [pc EXCEPT ![w] = "finish"] /\ job' = job
  BY DEF Return, Goes
<1>2. source' \in [Workers -> 0 .. MaxGraphs] /\ ok' \in [Workers -> BOOLEAN] /\ ~ ok'[w]
      /\ \A v \in Workers \ {w} : ok'[v] = ok[v]
  BY <1>1 DEF TypeOK
<1>3. CASE pc' = [pc EXCEPT ![w] = "next"] /\ job' = [job EXCEPT ![w] = NoJob]
  BY <1>2, <1>3 DEF TypeOK
<1>4. CASE pc' = [pc EXCEPT ![w] = "finish"] /\ job' = job
  BY <1>2, <1>4 DEF TypeOK
<1> QED
  BY <1>1, <1>3, <1>4

(* What a removal that fails does to the directory.                        *)
LEMMA CleanupFailsStep ==
  ASSUME TypeOK, NEW w \in Workers, CleanupFails(w)
  PROVE  /\ pc[w] = "cleanup" /\ pc' = [pc EXCEPT ![w] = "commit"]
         /\ job[w] \in Jobs /\ Mine(w) \in Names /\ ~ updating[w]
         /\ \E left \in Contents \ {"none"} : output' = [output EXCEPT ![Mine(w)] = left]
         /\ output[Mine(w)] # "none" /\ kept' = kept \cup {Mine(w)}
         /\ file' = file \/ Unlink(Mine(w))
         /\ faults < MaxFaults /\ faults' = faults + 1
         /\ UNCHANGED <<table, madeFrom, redis, build, api, job, updating, todo, source, ok>>
<1>1. pc[w] = "cleanup" /\ job[w] \in Jobs /\ Mine(w) \in Names
  BY Hands DEF CleanupFails, At
<1>2. /\ \E left \in Contents \ {"none"} : output' = [output EXCEPT ![Mine(w)] = left]
      /\ file' = file \/ Unlink(Mine(w))
  <2>1. output[Mine(w)] \in Contents \ {"none"}
    BY <1>1 DEF CleanupFails, TypeOK
  <2>2. PICK left \in {"empty", "stray", output[Mine(w)]} :
          /\ output' = [output EXCEPT ![Mine(w)] = left]
          /\ IF left = output[Mine(w)] THEN UNCHANGED file ELSE Unlink(Mine(w))
    BY DEF CleanupFails
  <2> QED
    BY <2>1, <2>2 DEF Contents
<1> QED
  BY <1>1, <1>2 DEF CleanupFails, Removes, Goes, Fault

LEMMA WorkerType ==
  ASSUME TypeOK, NEW w \in Workers, WorkerGoesOn(w) \/ CrashWorker(w)
  PROVE  TypeOK'
<1> USE DEF WorkerSteps, Contents, Goes, At
<1>0. pc[w] \notin {"idle", "next"} => job[w] \in Jobs /\ job[w] # NoJob /\ Mine(w) \in Names
  BY Hands
<1>1. ASSUME NEW n \in Names, DropExpired(w, n) PROVE TypeOK'
  BY <1>1 DEF TypeOK, DropExpired, table, disk, build, api, work
<1>2. ASSUME NEW n \in Names, PickCreate(w, n) PROVE TypeOK'
  <2>1. task[n] \in Jobs /\ task[n] # NoJob
    BY <1>2 DEF TypeOK, PickCreate
  <2> QED
    BY <1>2, <2>1 DEF TypeOK, PickCreate, table, disk, build, api
<1>3. CASE PickUpdate(w)
  <2>1. UpdateJobs \in SUBSET Jobs /\ updates - 1 \in 0 .. sent
    BY <1>3 DEF TypeOK, PickUpdate, UpdateJobs
  <2>2. todo' \in [Workers -> SUBSET Jobs]
    BY <1>3, <2>1 DEF TypeOK, PickUpdate
  <2> QED
    BY <1>3, <2>1, <2>2 DEF TypeOK, PickUpdate, table, disk, build, api
<1>4. ASSUME NEW j \in Jobs, NextUpdate(w, j) PROVE TypeOK'
  <2>1. todo' \in [Workers -> SUBSET Jobs]
    BY <1>4 DEF TypeOK, NextUpdate
  <2> QED
    BY <1>4, <2>1 DEF TypeOK, NextUpdate, table, disk, redis, build, api
<1>5. CASE UpdateDone(w)
  BY <1>5 DEF TypeOK, UpdateDone, table, disk, redis, build, api
<1>6. CASE Begin(w)
  <2>1. rows' \in [Jobs -> Row \cup {NoJob}]
    <3>1. rows[job[w]] \in Row /\ job[w] \in Jobs /\ rows' = [rows EXCEPT ![job[w]].status = "Compressing"]
      BY <1>0, <1>6, RowTypes DEF Begin, Started
    <3> QED
      BY <3>1 DEF TypeOK, Row, Statuses
  <2> QED
    BY <1>0, <1>6, <2>1 DEF TypeOK, Begin, disk, redis, build, api
<1>7. CASE JobIsGone(w)
  BY <1>7, ReturnType DEF TypeOK, JobIsGone, table, disk, redis, build, api
<1>8. CASE LockGraph(w)
  BY <1>0, <1>8 DEF TypeOK, LockGraph, table, disk, redis, build, api
<1>9. CASE NoTiles(w) \/ NoDirectory(w)
  BY <1>0, <1>9 DEF TypeOK, NoTiles, NoDirectory, table, disk, redis, build, api
<1>10. CASE OpenZip(w)
  <2>1. output' \in [Names -> Contents] /\ madeFrom' \in [Names -> 0 .. MaxGraphs]
    BY <1>0, <1>10 DEF TypeOK, OpenZip
  <2> QED
    BY <1>0, <1>10, <2>1 DEF TypeOK, OpenZip, table, redis, build, api
<1>11. CASE CloseZip(w)
  <2>1. output' \in [Names -> Contents]
    BY <1>0, <1>11 DEF TypeOK, CloseZip
  <2> QED
    BY <1>0, <1>11, <2>1 DEF TypeOK, CloseZip, table, redis, build, api
<1>12. CASE ZipFails(w)
  BY <1>0, <1>12 DEF TypeOK, ZipFails, table, disk, redis, build, api
<1>13. CASE WriteMeta(w)
  <2>1. output' \in [Names -> Contents] /\ ok' \in [Workers -> BOOLEAN]
    <3>1. CASE output[Mine(w)] = "none"
      BY <1>13, <3>1 DEF TypeOK, WriteMeta
    <3>2. CASE output[Mine(w)] # "none"
      <4>1. ok' = [ok EXCEPT ![w] = TRUE]
            /\ (output' = output \/ output' = [output EXCEPT ![Mine(w)] = "stray"])
        BY <1>0, <1>13, <3>2 DEF TypeOK, WriteMeta
      <4> QED
        BY <1>0, <4>1 DEF TypeOK
    <3> QED
      BY <3>1, <3>2
  <2>2. pc' = [pc EXCEPT ![w] = "cleanup"] \/ pc' = [pc EXCEPT ![w] = "commit"]
    BY <1>13 DEF WriteMeta
  <2> QED
    BY <1>0, <1>13, <2>1, <2>2 DEF TypeOK, WriteMeta, table, redis, build, api
<1>14. CASE Cleanup(w)
  <2>1. output' \in [Names -> Contents] /\ file' \in [Workers -> {"closed", "linked", "unlinked"}]
    BY <1>0, <1>14 DEF TypeOK, Cleanup, Unlink
  <2> QED
    BY <1>0, <1>14, <2>1 DEF TypeOK, Cleanup, table, redis, build, api
<1>18. CASE CleanupFails(w)
  <2>1. /\ pc[w] = "cleanup" /\ pc' = [pc EXCEPT ![w] = "commit"] /\ Mine(w) \in Names
        /\ kept' = kept \cup {Mine(w)} /\ faults < MaxFaults /\ faults' = faults + 1
        /\ UNCHANGED <<table, madeFrom, redis, build, api, job, updating, todo, source, ok>>
    BY <1>18, CleanupFailsStep
  <2>2. output' \in [Names -> Contents]
    <3>1. PICK left \in Contents \ {"none"} : output' = [output EXCEPT ![Mine(w)] = left]
      BY <1>18, CleanupFailsStep
    <3> QED
      BY <3>1 DEF TypeOK
  <2>3. file' \in [Workers -> {"closed", "linked", "unlinked"}]
    <3>1. file' = file \/ Unlink(Mine(w))
      BY <1>18, CleanupFailsStep
    <3> QED
      BY <3>1 DEF TypeOK, Unlink
  <2>4. /\ kept' \subseteq Names /\ faults' \in 0 .. MaxFaults /\ pc' \in [Workers -> WorkerSteps]
        /\ \A v \in Workers : job'[v] = NoJob <=> pc'[v] \in {"idle", "next"}
    BY <2>1 DEF TypeOK
  <2> QED
    BY <2>1, <2>2, <2>3, <2>4 DEF TypeOK, table, redis, build, api
<1>15. CASE Commit(w)
  <2>1. rows' \in [Jobs -> Row \cup {NoJob}]
    <3>1. CASE Exists(job[w])
      <4>1. rows[job[w]] \in Row /\ job[w] \in Jobs /\ FinalStatus(w) \in Statuses
            /\ rows' = [rows EXCEPT ![job[w]].status = FinalStatus(w)]
        BY <1>0, <1>15, <3>1, RowTypes DEF Commit, Commits, FinalStatus, Statuses
      <4> QED
        BY <4>1 DEF TypeOK, Row
    <3>2. CASE ~ Exists(job[w])
      BY <1>15, <3>2 DEF TypeOK, Commit, Commits
    <3> QED
      BY <3>1, <3>2
  <2> QED
    BY <1>15, <2>1, ReturnType DEF TypeOK, Commit, disk, redis, build, api
<1>16. CASE Finish(w)
  BY <1>0, <1>16 DEF TypeOK, Finish, table, disk, build, api
<1>17. CASE CrashWorker(w)
  BY <1>17 DEF TypeOK, CrashWorker, Fault, table, disk, redis, build, api
<1> QED
  BY <1>1, <1>2, <1>3, <1>4, <1>5, <1>6, <1>7, <1>8, <1>9, <1>10, <1>11, <1>12, <1>13, <1>14,
     <1>15, <1>16, <1>17, <1>18 DEF WorkerGoesOn

(* What neither a handler nor a worker does.                               *)
Elsewhere ==
  \/ \E n \in Names : InProgressExpires(n) \/ ResultExpires(n)
  \/ SwapGraph \/ EnqueueUpdates

LEMMA ElsewhereType ==
  ASSUME TypeOK, Elsewhere \/ CrashServer \/ UNCHANGED vars
  PROVE  TypeOK'
<1>1. ASSUME NEW n \in Names, InProgressExpires(n) \/ ResultExpires(n) PROVE TypeOK'
  BY <1>1 DEF TypeOK, InProgressExpires, ResultExpires, table, disk, build, api, work
<1>2. CASE SwapGraph
  BY <1>2 DEF TypeOK, SwapGraph, Builds!Swap, table, disk, redis, api, work
<1>3. CASE EnqueueUpdates
  BY <1>3 DEF TypeOK, EnqueueUpdates, Builds!Announce, OneMoreUpdate, table, disk, api, work
<1>4. CASE CrashServer
  <2>1. \A r \in Requests : request[r] # Idle => NameOf(request[r].for) \in Names
    BY Hands
  <2>2. errors' \subseteq Names
    BY <1>4, <2>1 DEF TypeOK, CrashServer
  <2> QED
    BY <1>4, <2>2 DEF TypeOK, CrashServer, Idle, RequestSteps, Fault, table, disk, redis, build, work
<1>5. CASE UNCHANGED vars
  BY <1>5 DEF TypeOK, vars, table, disk, redis, build, api, work
<1> QED
  BY <1>1, <1>2, <1>3, <1>4, <1>5 DEF Elsewhere

(* Who takes a step.                                                       *)
Serves(r) ==
  \/ ServerGoesOn(r) \/ RemoveRowFails(r)
  \/ \E n \in Names, u \in BOOLEAN : Post(r, n, u)
  \/ \E n \in Names : PostFails(r, n)
  \/ \E j \in Jobs : StartDelete(r, j)

Works(w) == WorkerGoesOn(w) \/ CrashWorker(w)

LEMMA WhoSteps ==
  Next <=> (\E r \in Requests : Serves(r)) \/ (\E w \in Workers : Works(w)) \/ CrashServer \/ Elsewhere
  BY DEF Next, Serves, Works, Elsewhere

LEMMA NextType == TypeOK /\ [Next]_vars => TypeOK'
  BY WhoSteps, ServerType, WorkerType, ElsewhereType DEF Serves, Works

(* Rows, directories, tasks and the places of handlers and workers are of  *)
(* their types; no more updates wait than were enqueued.                   *)
THEOREM TypeCorrect == Spec => []TypeOK
  BY InitType, NextType, PTL DEF Spec

-----------------------------------------------------------------------------
(* What a handler and a worker may do.                                     *)

(* A handler posts a row with a number nobody knew, or removes the row of  *)
(* its job, or leaves the rows alone; and likewise the directories.        *)
PostsRow(r, j) ==
  /\ j[2] = posts[NameOf(j)] + 1 /\ posts' = [posts EXCEPT ![NameOf(j)] = @ + 1]
  /\ output[NameOf(j)] = "none" /\ \A n \in Names \ {NameOf(j)} : output'[n] = output[n]
  /\ kept' = kept \ {NameOf(j)}
  /\ task' = task /\ file' = file
  /\ \/ rows' = rows /\ request' = request /\ NameOf(j) \in errors'
     \/ /\ rows'[j] # NoJob /\ rows'[j].status = "Queued" /\ \A i \in Jobs \ {j} : rows'[i] = rows[i]
        /\ request[r].at = "idle" /\ request'[r].at = "enqueue" /\ request'[r].for = j

RemovesRow(r) ==
  /\ rows'[request[r].for] = NoJob /\ request'[r].at = "empty" /\ request'[r].for = request[r].for
  /\ \A i \in Jobs \ {request[r].for} : rows'[i] = rows[i]
  /\ posts' = posts /\ output' = output /\ kept' = kept /\ task' = task /\ file' = file

RemovesFiles(r) ==
  LET n == NameOf(request[r].for) IN
  /\ request[r].at \in {"empty", "rmdir"}
  /\ \/ request'[r].at = "rmdir" /\ request'[r].for = request[r].for
     \/ request'[r] = Idle /\ (output'[n] = "none" \/ n \in errors')
  /\ \A m \in Names \ {n} : output'[m] = output[m]
  /\ output'[n] = output[n] \/ (output[n] # "none" /\ output'[n] \in {"empty", "none"})
  /\ \A w \in Workers : file'[w] = file[w] \/ (job[w] # NoJob /\ NameOf(job[w]) = n /\ file[w] = "linked")
  /\ rows' = rows /\ posts' = posts /\ kept' = kept /\ task' = task

TouchesTasks(r) ==
  /\ request[r].at \notin {"empty", "rmdir"} /\ request'[r].at \notin {"empty", "rmdir"}
  /\ request'[r].for \in {NoJob, request[r].for} \/ Exists(request'[r].for)
  /\ \A n \in Names : task'[n] \in {NoJob, task[n], request[r].for}
  /\ rows' = rows /\ posts' = posts /\ output' = output /\ kept' = kept /\ file' = file

LEMMA ServerStep ==
  ASSUME TypeOK, NEW r \in Requests, Serves(r)
  PROVE  /\ (\E j \in Jobs : PostsRow(r, j)) \/ RemovesRow(r) \/ RemovesFiles(r) \/ TouchesTasks(r)
         /\ UNCHANGED <<madeFrom, updates, build, pc, job, updating, todo, source, ok>>
         /\ \A q \in Requests \ {r} : request'[q] = request[q]
         /\ errors \subseteq errors'
         /\ faults' = 0 => faults = 0
<1> USE DEF table, disk, redis, work
<1>0. request[r].at # "idle" => request[r].for \in Jobs /\ NameOf(request[r].for) \in Names
  BY Hands
<1>a. ASSUME NEW n \in Names, posts[n] < PostsPerName
      PROVE  /\ <<n, posts[n] + 1>> \in Jobs /\ <<n, posts[n] + 1>> # NoJob
             /\ NameOf(<<n, posts[n] + 1>>) = n
  BY <1>a DEF TypeOK, Jobs, NameOf
<1>1. ASSUME NEW n \in Names, NEW u \in BOOLEAN, Post(r, n, u)
      PROVE  /\ \E j \in Jobs : PostsRow(r, j)
             /\ UNCHANGED <<madeFrom, updates, build, pc, job, updating, todo, source, ok, errors, faults>>
             /\ \A q \in Requests \ {r} : request'[q] = request[q]
  <2> DEFINE j == <<n, posts[n] + 1>>
             row == [status |-> "Queued", update |-> u]
             call == [at |-> "enqueue", for |-> j]
  <2>1. /\ rows' = [rows EXCEPT ![j] = row] /\ request' = [request EXCEPT ![r] = call]
        /\ posts' = [posts EXCEPT ![n] = @ + 1] /\ output' = [output EXCEPT ![n] = "empty"]
        /\ posts[n] < PostsPerName /\ output[n] = "none" /\ request[r].at = "idle"
        /\ kept' = kept \ {n}
        /\ UNCHANGED <<madeFrom, redis, build, errors, work, faults>>
    BY <1>1 DEF Post, MakeDirectory, Idle
  <2>2. j \in Jobs /\ NameOf(j) = n /\ j[2] = posts[n] + 1
    BY <1>a, <2>1
  <2>3. row \in Row /\ row.status = "Queued"
    BY DEF Row, Statuses
  <2>4. row # NoJob
    BY <2>3
  <2>5. /\ rows'[j] = row /\ \A i \in Jobs \ {j} : rows'[i] = rows[i]
        /\ request'[r] = call /\ \A q \in Requests \ {r} : request'[q] = request[q]
        /\ \A m \in Names \ {n} : output'[m] = output[m]
    BY <2>1, <2>2 DEF TypeOK
  <2> HIDE DEF j, row
  <2>6. PostsRow(r, j)
    BY <2>1, <2>2, <2>3, <2>4, <2>5 DEF PostsRow, Exists
  <2> QED
    BY <2>1, <2>2, <2>5, <2>6
<1>2. ASSUME NEW n \in Names, PostFails(r, n)
      PROVE  /\ \E j \in Jobs : PostsRow(r, j)
             /\ UNCHANGED <<madeFrom, updates, build, pc, job, updating, todo, source, ok, request>>
             /\ errors \subseteq errors' /\ faults' = faults + 1
  <2> DEFINE j == <<n, posts[n] + 1>>
  <2>1. /\ posts' = [posts EXCEPT ![n] = @ + 1] /\ output' = [output EXCEPT ![n] = "empty"]
        /\ posts[n] < PostsPerName /\ output[n] = "none" /\ errors' = errors \cup {n}
        /\ faults' = faults + 1 /\ kept' = kept \ {n}
        /\ UNCHANGED <<rows, madeFrom, redis, build, request, work>>
    BY <1>2 DEF PostFails, MakeDirectory, Report, Fault
  <2>2. j \in Jobs /\ NameOf(j) = n /\ j[2] = posts[n] + 1
    BY <1>a, <2>1
  <2> HIDE DEF j
  <2>3. PostsRow(r, j)
    BY <2>1, <2>2 DEF PostsRow, TypeOK
  <2> QED
    BY <2>1, <2>2, <2>3
<1>3. CASE Enqueue(r)
  <2>1. request' = [request EXCEPT ![r] = Idle] /\ request[r].at = "enqueue"
        /\ UNCHANGED <<table, disk, inProgress, result, updates, build, errors, work, faults>>
    BY <1>3 DEF Enqueue, Answer
  <2>2. \A n \in Names : task'[n] \in {task[n], request[r].for}
    BY <1>0, <1>3 DEF TypeOK, Enqueue
  <2>3. request'[r].at = "idle" /\ request'[r].for = NoJob /\ \A q \in Requests \ {r} : request'[q] = request[q]
    BY <2>1 DEF TypeOK, Idle
  <2>4. TouchesTasks(r)
    BY <2>1, <2>2, <2>3 DEF TouchesTasks
  <2> QED
    BY <2>1, <2>3, <2>4
<1>4. ASSUME NEW j \in Jobs, StartDelete(r, j)
      PROVE  /\ TouchesTasks(r) /\ UNCHANGED <<madeFrom, updates, build, work, errors, faults>>
             /\ \A q \in Requests \ {r} : request'[q] = request[q]
  <2>1. request'[r].at = "drop" /\ request'[r].for = j /\ Exists(j) /\ request[r].at = "idle"
        /\ \A q \in Requests \ {r} : request'[q] = request[q]
    BY <1>4 DEF TypeOK, StartDelete, Idle
  <2>2. UNCHANGED <<table, disk, redis, build, errors, work, faults>>
    BY <1>4 DEF StartDelete
  <2> QED
    BY <2>1, <2>2 DEF TouchesTasks
<1>5. CASE DropTask(r)
  <2>1. request'[r].at = "remove" /\ request'[r].for = request[r].for /\ request[r].at = "drop"
        /\ \A q \in Requests \ {r} : request'[q] = request[q]
    BY <1>5 DEF TypeOK, DropTask, GoOn
  <2>2. /\ \A n \in Names : task'[n] \in {task[n], NoJob}
        /\ UNCHANGED <<table, disk, queued, inProgress, result, updates, build, errors, work, faults>>
    BY <1>0, <1>5 DEF TypeOK, DropTask
  <2> QED
    BY <2>1, <2>2 DEF TouchesTasks
<1>6. CASE RemoveRow(r)
  <2>1. request'[r].at = "empty" /\ request'[r].for = request[r].for /\ request[r].at = "remove"
        /\ \A q \in Requests \ {r} : request'[q] = request[q]
    BY <1>6 DEF TypeOK, RemoveRow, GoOn
  <2>2. /\ rows'[request[r].for] = NoJob /\ \A i \in Jobs \ {request[r].for} : rows'[i] = rows[i]
        /\ UNCHANGED <<posts, disk, redis, build, errors, work, faults>>
    BY <1>0, <1>6, <2>1 DEF TypeOK, RemoveRow
  <2> QED
    BY <2>1, <2>2 DEF RemovesRow, Exists
<1>7. CASE RemoveRowFails(r)
  <2>1. request'[r].at = "idle" /\ request'[r].for = NoJob /\ request[r].at = "remove"
        /\ \A q \in Requests \ {r} : request'[q] = request[q]
    BY <1>7 DEF TypeOK, RemoveRowFails, Answer, Idle
  <2>2. errors \subseteq errors' /\ faults' = faults + 1 /\ UNCHANGED <<table, disk, redis, build, work>>
    BY <1>7 DEF RemoveRowFails, Report, Fault
  <2> QED
    BY <2>1, <2>2 DEF TouchesTasks, TypeOK
<1>8. CASE EmptyDirectory(r)
  <2> DEFINE n == NameOf(request[r].for)
  <2>1. /\ request[r].at = "empty" /\ n \in Names
        /\ UNCHANGED <<table, madeFrom, kept, redis, build, errors, pc, job, updating, todo, source, ok,
                       faults>>
    BY <1>0, <1>8 DEF EmptyDirectory
  <2>2. CASE output[n] = "none"
    <3>1. request' = [request EXCEPT ![r] = Idle] /\ output' = output /\ file' = file
      BY <1>8, <2>2 DEF EmptyDirectory, Answer
    <3> QED
      BY <2>1, <2>2, <3>1 DEF RemovesFiles, TypeOK
  <2>3. CASE output[n] # "none"
    <3>1. request' = [request EXCEPT ![r].at = "rmdir"] /\ output' = [output EXCEPT ![n] = "empty"]
          /\ Unlink(n)
      BY <1>8, <2>3 DEF EmptyDirectory, GoOn
    <3>2. request'[r].at = "rmdir" /\ request'[r].for = request[r].for
          /\ \A q \in Requests \ {r} : request'[q] = request[q]
      BY <3>1 DEF TypeOK
    <3>3. \A w \in Workers :
            file'[w] = file[w] \/ (job[w] # NoJob /\ NameOf(job[w]) = n /\ file[w] = "linked")
      BY <3>1 DEF Unlink
    <3>4. output'[n] = "empty" /\ \A m \in Names \ {n} : output'[m] = output[m]
      BY <2>1, <3>1 DEF TypeOK
    <3> QED
      BY <2>1, <2>3, <3>2, <3>3, <3>4 DEF RemovesFiles
  <2> QED
    BY <2>2, <2>3
<1>9. CASE RemoveDirectory(r)
  <2> DEFINE n == NameOf(request[r].for)
  <2>1. /\ request[r].at = "rmdir" /\ n \in Names /\ request' = [request EXCEPT ![r] = Idle]
        /\ UNCHANGED <<table, madeFrom, kept, redis, build, work, faults>>
    BY <1>0, <1>9 DEF RemoveDirectory, Answer
  <2>2. \/ output[n] = "empty" /\ output' = [output EXCEPT ![n] = "none"] /\ errors' = errors
        \/ output' = output /\ errors' = errors \cup {n}
    BY <1>9 DEF RemoveDirectory, Report
  <2>3. /\ output'[n] = "none" \/ n \in errors'
        /\ \A m \in Names \ {n} : output'[m] = output[m]
        /\ output'[n] = output[n] \/ (output[n] # "none" /\ output'[n] = "none")
        /\ errors \subseteq errors'
    BY <2>1, <2>2 DEF TypeOK
  <2>4. request'[r] = Idle /\ \A q \in Requests \ {r} : request'[q] = request[q]
    BY <2>1 DEF TypeOK
  <2> QED
    BY <2>1, <2>3, <2>4 DEF RemovesFiles
<1>10. faults \in Nat
  BY DEF TypeOK
<1> QED
  BY <1>1, <1>2, <1>3, <1>4, <1>5, <1>6, <1>7, <1>8, <1>9, <1>10 DEF Serves, ServerGoesOn

(* A worker changes the status of its job and what is in its directory; it *)
(* neither makes nor removes a row, and makes no directory.                *)
KeepsRows(w) ==
  \A j \in Jobs :
    /\ rows'[j] # NoJob <=> Exists(j)
    /\ Exists(j) => rows'[j].update = rows[j].update
    /\ j # job[w] => rows'[j] = rows[j]

KeepsNames(w) ==
  \A n \in Names :
    /\ output[n] = "none" => output'[n] = "none"
    /\ n \in kept => n \in kept'
    /\ job[w] = NoJob \/ n # Mine(w) => output'[n] = output[n] /\ madeFrom'[n] = madeFrom[n]
    /\ task'[n] \in {NoJob, task[n]}

LEMMA WorkerStep ==
  ASSUME TypeOK, NEW w \in Workers, Works(w)
  PROVE  /\ UNCHANGED <<posts, build, request, errors>>
         /\ \A v \in Workers \ {w} : /\ pc'[v] = pc[v] /\ job'[v] = job[v] /\ updating'[v] = updating[v]
                                     /\ todo'[v] = todo[v] /\ ok'[v] = ok[v]
         /\ KeepsRows(w) /\ KeepsNames(w)
         /\ \/ job'[w] \in {NoJob, job[w]} \cup todo[w]
            \/ \E n \in Names : job'[w] = task[n] /\ task[n] # NoJob
         /\ todo'[w] \subseteq todo[w] \/ todo'[w] = UpdateJobs
         /\ faults' = 0 => faults = 0
<1> USE DEF Goes, At, table, disk, redis, build, api, work
<1>0. pc[w] \notin {"idle", "next"} => job[w] \in Jobs /\ job[w] # NoJob /\ Mine(w) \in Names
  BY Hands
<1>1. CASE \E n \in Names : DropExpired(w, n)
  BY <1>1 DEF TypeOK, DropExpired, KeepsRows, KeepsNames, Exists
<1>2. CASE \E n \in Names : PickCreate(w, n)
  BY <1>2 DEF TypeOK, PickCreate, KeepsRows, KeepsNames, Exists
<1>3. CASE PickUpdate(w)
  BY <1>3 DEF TypeOK, PickUpdate, KeepsRows, KeepsNames, Exists
<1>4. CASE \E j \in Jobs : NextUpdate(w, j)
  BY <1>4 DEF TypeOK, NextUpdate, KeepsRows, KeepsNames, Exists
<1>5. CASE UpdateDone(w) \/ LockGraph(w) \/ NoTiles(w) \/ NoDirectory(w) \/ ZipFails(w)
  BY <1>5 DEF TypeOK, UpdateDone, LockGraph, NoTiles, NoDirectory, ZipFails, KeepsRows, KeepsNames, Exists
<1>6. CASE Begin(w)
  <2>1. job[w] \in Jobs /\ rows[job[w]] \in Row /\ rows' = [rows EXCEPT ![job[w]].status = "Compressing"]
    BY <1>0, <1>6, RowTypes DEF Begin, Started
  <2>2. rows'[job[w]] \in Row /\ rows'[job[w]].update = rows[job[w]].update
        /\ \A j \in Jobs \ {job[w]} : rows'[j] = rows[j]
    BY <2>1 DEF TypeOK, Row, Statuses
  <2>3. KeepsRows(w)
    BY <2>1, <2>2 DEF KeepsRows, Exists
  <2> QED
    BY <1>6, <2>3 DEF TypeOK, Begin, KeepsNames
<1>7. CASE JobIsGone(w)
  <2>1. job'[w] \in {NoJob, job[w]}
    BY <1>7 DEF TypeOK, JobIsGone, Return
  <2> QED
    BY <1>7, <2>1, ReturnType DEF JobIsGone, KeepsRows, KeepsNames, Exists
<1>8. CASE OpenZip(w)
  <2>1. KeepsNames(w)
    BY <1>0, <1>8 DEF TypeOK, OpenZip, HasDirectory, KeepsNames
  <2> QED
    BY <1>8, <2>1 DEF TypeOK, OpenZip, KeepsRows, Exists
<1>9. CASE CloseZip(w)
  <2>1. KeepsNames(w)
    BY <1>0, <1>9 DEF TypeOK, CloseZip, KeepsNames
  <2> QED
    BY <1>9, <2>1 DEF TypeOK, CloseZip, KeepsRows, Exists
<1>10. CASE WriteMeta(w)
  <2>1. KeepsNames(w)
    BY <1>0, <1>10 DEF TypeOK, WriteMeta, KeepsNames
  <2>2. /\ ok' = ok \/ ok' = [ok EXCEPT ![w] = TRUE]
        /\ pc' = [pc EXCEPT ![w] = "cleanup"] \/ pc' = [pc EXCEPT ![w] = "commit"]
    BY <1>10 DEF WriteMeta
  <2> QED
    BY <1>10, <2>1, <2>2 DEF TypeOK, WriteMeta, KeepsRows, Exists
<1>11. CASE Cleanup(w)
  <2>1. KeepsNames(w)
    BY <1>0, <1>11 DEF TypeOK, Cleanup, KeepsNames
  <2> QED
    BY <1>11, <2>1 DEF TypeOK, Cleanup, KeepsRows, Exists
<1>15. CASE CleanupFails(w)
  <2>1. KeepsNames(w)
    BY <1>15, CleanupFailsStep DEF TypeOK, KeepsNames
  <2>2. pc' = [pc EXCEPT ![w] = "commit"] /\ faults' # 0
    BY <1>15, CleanupFailsStep DEF TypeOK
  <2> QED
    BY <1>15, <2>1, <2>2, CleanupFailsStep DEF TypeOK, KeepsRows, Exists
<1>12. CASE Commit(w)
  <2>1. KeepsRows(w)
    <3>1. CASE Exists(job[w])
      <4>1. rows[job[w]] \in Row /\ job[w] \in Jobs /\ FinalStatus(w) \in Statuses
            /\ rows' = [rows EXCEPT ![job[w]].status = FinalStatus(w)]
        BY <1>0, <1>12, <3>1, RowTypes DEF Commit, Commits, FinalStatus, Statuses
      <4>2. rows'[job[w]] \in Row /\ rows'[job[w]].update = rows[job[w]].update
            /\ \A j \in Jobs \ {job[w]} : rows'[j] = rows[j]
        BY <4>1 DEF TypeOK, Row
      <4> QED
        BY <3>1, <4>1, <4>2 DEF KeepsRows, Exists
    <3>2. CASE ~ Exists(job[w])
      BY <1>12, <3>2 DEF Commit, Commits, KeepsRows, Exists
    <3> QED
      BY <3>1, <3>2
  <2>2. job'[w] \in {NoJob, job[w]}
    BY <1>12 DEF TypeOK, Commit, Return
  <2> QED
    BY <1>12, <2>1, <2>2, ReturnType DEF Commit, KeepsNames
<1>13. CASE Finish(w)
  <2>1. KeepsNames(w)
    BY <1>0, <1>13 DEF TypeOK, Finish, KeepsNames
  <2> QED
    BY <1>13, <2>1 DEF TypeOK, Finish, KeepsRows, Exists
<1>14. CASE CrashWorker(w)
  BY <1>14 DEF TypeOK, CrashWorker, Fault, KeepsRows, KeepsNames, Exists
<1> QED
  BY <1>1, <1>2, <1>3, <1>4, <1>5, <1>6, <1>7, <1>8, <1>9, <1>10, <1>11, <1>12, <1>13, <1>14, <1>15
     DEF Works, WorkerGoesOn

(* Nobody else touches rows, directories or what a worker remembers.       *)
LEMMA ElsewhereStep ==
  ASSUME TypeOK, Elsewhere \/ UNCHANGED vars
  PROVE  /\ UNCHANGED <<table, disk, api, work, faults>>
         /\ \A n \in Names : task'[n] \in {NoJob, task[n]}
         /\ updates' >= updates
         /\ announced' = announced \/ updates' > 0
         /\ graph' = graph \/ (graph < MaxGraphs /\ graph' = graph + 1)
<1> USE DEF table, disk, redis, build, api, work
<1>1. ASSUME NEW n \in Names, InProgressExpires(n) \/ ResultExpires(n)
      PROVE  /\ UNCHANGED <<table, disk, api, work, faults, updates, announced, graph>>
             /\ \A m \in Names : task'[m] \in {NoJob, task[m]}
  BY <1>1 DEF TypeOK, InProgressExpires, ResultExpires
<1>2. updates \in Nat
  BY DEF TypeOK
<1>3. CASE SwapGraph \/ EnqueueUpdates \/ UNCHANGED vars
  BY <1>2, <1>3 DEF SwapGraph, EnqueueUpdates, Builds!Swap, Builds!Announce, OneMoreUpdate, vars
<1> QED
  BY <1>1, <1>2, <1>3 DEF Elsewhere

LEMMA CrashServerStep ==
  ASSUME TypeOK, CrashServer
  PROVE  /\ UNCHANGED <<table, disk, redis, build, work>>
         /\ \A r \in Requests : request'[r].at = "idle" /\ request'[r].for = NoJob
         /\ errors \subseteq errors'
         /\ \A r \in Requests : request[r].at # "idle" => NameOf(request[r].for) \in errors'
         /\ faults' # 0
  BY Hands DEF TypeOK, CrashServer, Fault, Idle

-----------------------------------------------------------------------------
(* The invariant, whatever the number of workers.                          *)

LEMMA InitJobs == Init => JobsInv
<1> SUFFICES ASSUME Init PROVE JobsInv
  OBVIOUS
<1>1. /\ \A j \in Jobs : ~ Exists(j)
      /\ \A n \in Names : task[n] = NoJob /\ output[n] = "none"
      /\ \A r \in Requests : request[r].for = NoJob
      /\ \A w \in Workers : pc[w] = "idle" /\ job[w] = NoJob /\ todo[w] = {} /\ ~ updating[w]
  BY DEF Init, Exists, Idle
<1> QED
  BY <1>1 DEF JobsInv, JobsAreNumbered, UpdatesAreWanted, FailuresAreCleanedUp,
              FailedCreatesFreeTheName, OrphansAreUnderWay

(* Numbers only grow, so what was posted stays posted.                     *)
LEMMA NumbersGrow ==
  ASSUME TypeOK, NEW r \in Requests, NEW j \in Jobs, PostsRow(r, j)
  PROVE  /\ \A i \in Jobs : posts[NameOf(i)] \in Nat /\ posts'[NameOf(i)] \in Nat
                             /\ posts'[NameOf(i)] >= posts[NameOf(i)] /\ i[2] \in Nat
         /\ posts'[NameOf(j)] = posts[NameOf(j)] + 1 /\ j[2] = posts'[NameOf(j)]
<1>1. \A i \in Jobs : NameOf(i) \in Names /\ i[2] \in Nat
  BY DEF Jobs, NameOf
<1>2. posts \in [Names -> Nat]
  BY DEF TypeOK
<1> QED
  BY <1>1, <1>2 DEF PostsRow

LEMMA NextNumbered ==
  ASSUME TypeOK, TypeOK', JobsAreNumbered, [Next]_vars
  PROVE  JobsAreNumbered'
<1>1. ASSUME NEW r \in Requests, Serves(r) PROVE JobsAreNumbered'
  <2>0. /\ UNCHANGED <<job, todo>> /\ \A q \in Requests \ {r} : request'[q] = request[q]
    BY <1>1, ServerStep
  <2>1. ASSUME NEW j \in Jobs, PostsRow(r, j) PROVE JobsAreNumbered'
    <3>1. \A i \in Jobs : Posted(i) => Posted(i)'
      BY <2>1, NumbersGrow DEF Posted
    <3>2. posts'[NameOf(j)] = j[2] /\ j[2] \in Nat /\ task' = task
      BY <2>1, NumbersGrow DEF PostsRow
    <3>3. Posted(j)'
      BY <3>2 DEF Posted
    <3>4. \A i \in Jobs : Exists(i)' => Posted(i)'
      BY <2>1, <3>1, <3>3 DEF PostsRow, JobsAreNumbered, Exists
    <3>5. request'[r].for \in {request[r].for, j}
      BY <2>1 DEF PostsRow
    <3>6. /\ \A n \in Names : task[n] # NoJob => task[n] \in Jobs
          /\ \A q \in Requests : request[q].for # NoJob => request[q].for \in Jobs
          /\ \A w \in Workers : (job[w] # NoJob => job[w] \in Jobs) /\ todo[w] \subseteq Jobs
      BY DEF TypeOK
    <3> QED
      BY <2>0, <3>1, <3>2, <3>3, <3>4, <3>5, <3>6 DEF JobsAreNumbered, Posted
  <2>2. CASE RemovesRow(r) \/ RemovesFiles(r) \/ TouchesTasks(r)
    <3>1. posts' = posts /\ (\A i \in Jobs : Exists(i)' => Exists(i))
      BY <2>2 DEF RemovesRow, RemovesFiles, TouchesTasks, Exists
    <3>2. request'[r].for = NoJob \/ request'[r].for = request[r].for \/ Exists(request'[r].for)
      BY <2>2 DEF RemovesRow, RemovesFiles, TouchesTasks, Idle
    <3>3. \A n \in Names : task'[n] \in {NoJob, task[n], request[r].for}
      BY <2>2 DEF RemovesRow, RemovesFiles, TouchesTasks
    <3>4. request'[r].for # NoJob => request'[r].for \in Jobs
      BY DEF TypeOK
    <3> QED
      BY <2>0, <3>1, <3>2, <3>3, <3>4 DEF JobsAreNumbered, Posted
  <2> QED
    BY <1>1, <2>1, <2>2, ServerStep
<1>2. ASSUME NEW w \in Workers, Works(w) PROVE JobsAreNumbered'
  <2>1. posts' = posts /\ request' = request
        /\ (\A j \in Jobs : Exists(j)' <=> Exists(j))
        /\ (\A n \in Names : task'[n] \in {NoJob, task[n]})
        /\ (\A v \in Workers \ {w} : job'[v] = job[v] /\ todo'[v] = todo[v])
    BY <1>2, WorkerStep DEF KeepsRows, KeepsNames, Exists
  <2>2. /\ job'[w] # NoJob => Posted(job'[w])
        /\ \A j \in todo'[w] : Posted(j)
    BY <1>2, WorkerStep DEF JobsAreNumbered, UpdateJobs
  <2> QED
    BY <2>1, <2>2 DEF JobsAreNumbered, Posted
<1>3. CASE CrashServer
  BY <1>3, CrashServerStep DEF JobsAreNumbered, Posted, Exists, table, redis, work
<1>4. CASE Elsewhere \/ UNCHANGED vars
  BY <1>4, ElsewhereStep DEF JobsAreNumbered, Posted, Exists, table, api, work
<1> QED
  BY <1>1, <1>2, <1>3, <1>4, WhoSteps

LEMMA NextWanted ==
  ASSUME TypeOK, JobsAreNumbered, UpdatesAreWanted, [Next]_vars
  PROVE  UpdatesAreWanted'
<1>1. ASSUME NEW r \in Requests, Serves(r) PROVE UpdatesAreWanted'
  <2>1. UNCHANGED <<pc, job, updating, todo>>
    BY <1>1, ServerStep
  <2>2. ASSUME NEW w \in Workers, NEW j \in Jobs, updating[w], j \in todo[w] \/ j = job[w], Exists(j)'
        PROVE  rows'[j].update
    <3>1. Posted(j)
      BY <2>2 DEF JobsAreNumbered
    <3>2. ~ PostsRow(r, j) /\ j[2] \in Nat /\ posts[NameOf(j)] \in Nat
      BY <3>1 DEF PostsRow, Posted, TypeOK, Jobs, NameOf
    <3>3. rows'[j] = rows[j]
      BY <1>1, <2>2, <3>2, ServerStep DEF PostsRow, RemovesRow, RemovesFiles, TouchesTasks, Exists
    <3> QED
      BY <2>2, <3>3 DEF UpdatesAreWanted, Exists
  <2> QED
    BY <2>1, <2>2 DEF UpdatesAreWanted
<1>2. ASSUME NEW w \in Workers, Works(w) PROVE UpdatesAreWanted'
  <2>0. /\ \A j \in Jobs : /\ Exists(j)' <=> Exists(j)
                           /\ Exists(j) => rows'[j].update = rows[j].update
        /\ \A v \in Workers \ {w} : pc'[v] = pc[v] /\ job'[v] = job[v] /\ updating'[v] = updating[v]
                                    /\ todo'[v] = todo[v]
    BY <1>2, WorkerStep DEF KeepsRows, Exists
  <2>1. /\ pc'[w] \in {"idle", "finish"} => ~ updating'[w]
        /\ pc'[w] = "next" => updating'[w]
        /\ updating'[w] =>
             \A j \in Jobs : (j \in todo'[w] \/ j = job'[w]) /\ Exists(j) => rows[j].update
    <3> USE DEF UpdatesAreWanted, Goes, At, redis, build, api, work
    <3>1. CASE \E n \in Names : DropExpired(w, n) \/ PickCreate(w, n)
      BY <3>1 DEF TypeOK, DropExpired, PickCreate
    <3>2. CASE PickUpdate(w)
      BY <3>2 DEF TypeOK, PickUpdate, UpdateJobs
    <3>3. CASE \E j \in Jobs : NextUpdate(w, j)
      BY <3>3 DEF TypeOK, NextUpdate
    <3>4. CASE UpdateDone(w) \/ Begin(w) \/ LockGraph(w) \/ NoTiles(w) \/ OpenZip(w) \/ NoDirectory(w)
      BY <3>4 DEF TypeOK, UpdateDone, Begin, LockGraph, NoTiles, OpenZip, NoDirectory
    <3>5. CASE CloseZip(w) \/ ZipFails(w) \/ WriteMeta(w) \/ Cleanup(w)
      BY <3>5 DEF TypeOK, CloseZip, ZipFails, WriteMeta, Cleanup
    <3>6. CASE JobIsGone(w) \/ Commit(w)
      BY <3>6 DEF TypeOK, JobIsGone, Commit, Return
    <3>7. CASE Finish(w) \/ CrashWorker(w)
      BY <3>7 DEF TypeOK, Finish, CrashWorker
    <3>8. CASE CleanupFails(w)
      BY <3>8, CleanupFailsStep DEF TypeOK
    <3> QED
      BY <1>2, <3>1, <3>2, <3>3, <3>4, <3>5, <3>6, <3>7, <3>8 DEF Works, WorkerGoesOn
  <2>2. ASSUME NEW v \in Workers, updating'[v], NEW j \in Jobs, j \in todo'[v] \/ j = job'[v], Exists(j)'
        PROVE  rows'[j].update
    <3>1. Exists(j)
      BY <2>0, <2>2 DEF Exists
    <3>2. rows'[j].update = rows[j].update
      BY <2>0, <3>1 DEF Exists
    <3>3. rows[j].update
      BY <2>0, <2>1, <2>2, <3>1 DEF UpdatesAreWanted
    <3> QED
      BY <3>2, <3>3
  <2> QED
    BY <2>0, <2>1, <2>2 DEF UpdatesAreWanted
<1>3. CASE CrashServer
  BY <1>3, CrashServerStep DEF UpdatesAreWanted, Exists, table, work
<1>4. CASE Elsewhere \/ UNCHANGED vars
  BY <1>4, ElsewhereStep DEF UpdatesAreWanted, Exists, table, work
<1> QED
  BY <1>1, <1>2, <1>3, <1>4, WhoSteps

(* Until its name is posted again, a job that freed it leaves it free.     *)
LEMMA FreedStaysFreed ==
  ASSUME TypeOK, [Next]_vars, NEW j \in Jobs, Posted(j), j[2] = posts'[NameOf(j)]
  PROVE  Latest(j) /\ (Freed(NameOf(j)) => Freed(NameOf(j))')
<1>0. NameOf(j) \in Names /\ j[2] \in Nat /\ posts[NameOf(j)] \in Nat
  BY DEF TypeOK, Jobs, NameOf
<1>1. ASSUME NEW r \in Requests, NEW i \in Jobs, PostsRow(r, i)
      PROVE  NameOf(i) # NameOf(j)
  BY <1>0, <1>1, NumbersGrow DEF Posted
<1>2. ASSUME NEW r \in Requests, Serves(r)
      PROVE  /\ posts'[NameOf(j)] = posts[NameOf(j)]
             /\ Freed(NameOf(j)) => Freed(NameOf(j))'
  <2>1. ASSUME NEW i \in Jobs, PostsRow(r, i)
        PROVE  posts'[NameOf(j)] = posts[NameOf(j)] /\ (Freed(NameOf(j)) => Freed(NameOf(j))')
    BY <1>0, <1>1, <2>1 DEF PostsRow, TypeOK, Freed
  <2>2. CASE RemovesRow(r) \/ RemovesFiles(r) \/ TouchesTasks(r)
    BY <1>0, <2>2 DEF RemovesRow, RemovesFiles, TouchesTasks, Freed
  <2> QED
    BY <1>2, <2>1, <2>2, ServerStep
<1>3. ASSUME NEW w \in Workers, Works(w)
      PROVE  posts' = posts /\ (Freed(NameOf(j)) => Freed(NameOf(j))')
  BY <1>0, <1>3, WorkerStep DEF KeepsNames, Freed
<1>4. CASE CrashServer \/ Elsewhere \/ UNCHANGED vars
  BY <1>4, CrashServerStep, ElsewhereStep DEF table, disk, Latest, Freed
<1> QED
  BY <1>2, <1>3, <1>4, WhoSteps DEF Latest

LEMMA NextCleanedUp ==
  ASSUME TypeOK, TypeOK', JobsAreNumbered, FailuresAreCleanedUp, [Next]_vars
  PROVE  FailuresAreCleanedUp'
<1>1. ASSUME NEW w \in Workers, UNCHANGED <<pc[w], ok[w], updating[w], job[w]>>,
             pc[w] = "commit", ~ ok[w], ~ updating[w], job[w][2] = posts'[NameOf(job[w])]
      PROVE  Freed(NameOf(job[w]))'
  <2>1. job[w] \in Jobs /\ Posted(job[w])
    BY <1>1, Hands DEF JobsAreNumbered, TypeOK
  <2>2. Latest(job[w]) /\ (Freed(NameOf(job[w])) => Freed(NameOf(job[w]))')
    BY <1>1, <2>1, FreedStaysFreed
  <2> QED
    BY <1>1, <2>2 DEF FailuresAreCleanedUp
<1>2. ASSUME NEW w \in Workers, Works(w), pc'[w] = "commit", ~ ok'[w], ~ updating'[w]
      PROVE  Freed(NameOf(job[w]))'
  <2> USE DEF Goes, At
  <2>1. CASE \/ \E n \in Names : DropExpired(w, n) \/ PickCreate(w, n)
             \/ \E j \in Jobs : NextUpdate(w, j)
    BY <1>2, <2>1 DEF TypeOK, DropExpired, PickCreate, NextUpdate, work
  <2>2. CASE PickUpdate(w) \/ UpdateDone(w) \/ Begin(w) \/ LockGraph(w) \/ NoTiles(w) \/ OpenZip(w)
             \/ NoDirectory(w) \/ CloseZip(w) \/ ZipFails(w) \/ Finish(w) \/ CrashWorker(w)
    BY <1>2, <2>2 DEF TypeOK, PickUpdate, UpdateDone, Begin, LockGraph, NoTiles, OpenZip, NoDirectory,
                      CloseZip, ZipFails, Finish, CrashWorker
  <2>3. CASE JobIsGone(w) \/ Commit(w)
    BY <1>2, <2>3, ReturnType DEF JobIsGone, Commit
  <2>4. CASE WriteMeta(w)
    BY <1>2, <2>4 DEF TypeOK, WriteMeta
  <2>5. CASE Cleanup(w)
    <3>1. Mine(w) \in Names /\ job' = job /\ updating' = updating
      BY <2>5, Hands DEF Cleanup
    <3>2. output' = [output EXCEPT ![Mine(w)] = "none"]
      BY <1>2, <2>5, <3>1 DEF Cleanup, Removes
    <3> QED
      BY <3>1, <3>2 DEF Mine, TypeOK, Freed
  <2>6. CASE CleanupFails(w)
    BY <2>6, CleanupFailsStep DEF Mine, Freed
  <2> QED
    BY <1>2, <2>1, <2>2, <2>3, <2>4, <2>5, <2>6 DEF Works, WorkerGoesOn
<1>3. ASSUME NEW w \in Workers,
             UNCHANGED <<pc[w], ok[w], updating[w], job[w]>> \/ Works(w)
      PROVE  pc'[w] = "commit" /\ ~ ok'[w] /\ ~ updating'[w] /\ job'[w][2] = posts'[NameOf(job'[w])]
               => Freed(NameOf(job[w]))'
  BY <1>1, <1>2, <1>3
<1>4. ASSUME NEW r \in Requests, Serves(r) PROVE UNCHANGED <<pc, ok, updating, job>>
  BY <1>4, ServerStep
<1>5. ASSUME CrashServer \/ Elsewhere \/ UNCHANGED vars PROVE UNCHANGED <<pc, ok, updating, job>>
  BY <1>5, CrashServerStep, ElsewhereStep DEF work
<1>6. ASSUME NEW v \in Workers, Works(v), NEW w \in Workers
      PROVE  UNCHANGED <<pc[w], ok[w], updating[w], job[w]>> \/ Works(w)
  BY <1>6, WorkerStep
<1>7. \A w \in Workers : UNCHANGED <<pc[w], ok[w], updating[w], job[w]>> \/ Works(w)
  BY <1>4, <1>5, <1>6, WhoSteps
<1> QED
  BY <1>3, <1>7 DEF FailuresAreCleanedUp, Latest

LEMMA NextFailed ==
  ASSUME TypeOK, TypeOK', JobsInv, [Next]_vars
  PROVE  FailedCreatesFreeTheName'
<1> SUFFICES ASSUME NEW j \in Jobs, rows'[j] # NoJob, j[2] = posts'[NameOf(j)],
                    rows'[j].status = "Failed", ~ rows'[j].update
             PROVE  Freed(NameOf(j))'
  BY DEF FailedCreatesFreeTheName, Exists, Latest, Freed
<1>1. CASE rows'[j] = rows[j]
  <2>1. Exists(j) /\ Posted(j)
    BY <1>1 DEF Exists, JobsInv, JobsAreNumbered
  <2>2. Latest(j) /\ (Freed(NameOf(j)) => Freed(NameOf(j))')
    BY <2>1, FreedStaysFreed
  <2> QED
    BY <1>1, <2>1, <2>2 DEF JobsInv, FailedCreatesFreeTheName, Freed
<1>2. ASSUME NEW w \in Workers, Works(w), rows'[j] # rows[j]
      PROVE  Freed(NameOf(j))'
  <2>1. job[w] = j /\ Exists(j) /\ rows'[j].update = rows[j].update
    BY <1>2, WorkerStep DEF KeepsRows, Exists
  <2>2. Begin(w) \/ Commit(w)
    BY <1>2 DEF Works, WorkerGoesOn, DropExpired, PickCreate, PickUpdate, NextUpdate, UpdateDone, JobIsGone,
                LockGraph, NoTiles, OpenZip, NoDirectory, CloseZip, ZipFails, WriteMeta, Cleanup, CleanupFails,
                Finish, CrashWorker, table
  <2>3. rows[j] \in Row /\ rows \in [Jobs -> Row \cup {NoJob}]
    BY <2>1, RowTypes DEF TypeOK
  <2>4. ~ Begin(w)
    BY <2>1, <2>3 DEF Begin, Started, Row
  <2>5. /\ rows' = [rows EXCEPT ![j].status = FinalStatus(w)] /\ pc[w] = "commit"
        /\ output' = output /\ kept' = kept /\ posts' = posts
    BY <2>1, <2>2, <2>4 DEF Commit, Commits, disk, At
  <2>6. rows'[j].status = FinalStatus(w)
    BY <2>3, <2>5 DEF Row
  <2>7. ~ ok[w]
    BY <2>6 DEF FinalStatus
  <2>8. ~ updating[w]
    BY <2>1 DEF JobsInv, UpdatesAreWanted
  <2> QED
    BY <2>1, <2>5, <2>7, <2>8 DEF JobsInv, FailuresAreCleanedUp, Latest, Freed
<1>3. ASSUME NEW r \in Requests, Serves(r) PROVE rows'[j] = rows[j]
  BY <1>3, ServerStep DEF PostsRow, RemovesRow, RemovesFiles, TouchesTasks
<1>4. ASSUME CrashServer \/ Elsewhere \/ UNCHANGED vars PROVE rows'[j] = rows[j]
  BY <1>4, CrashServerStep, ElsewhereStep DEF table
<1> QED
  BY <1>1, <1>2, <1>3, <1>4, WhoSteps

LEMMA NextOrphans ==
  ASSUME TypeOK, TypeOK', OrphansAreUnderWay, [Next]_vars
  PROVE  OrphansAreUnderWay'
<1> DEFINE NoRow(n)  == \A j \in Jobs : NameOf(j) = n => rows[j] = NoJob
           NoRowNow(n) == \A j \in Jobs : NameOf(j) = n => rows'[j] = NoJob
           Known(n)  == \/ n \in errors
                        \/ \E r \in Requests :
                             request[r].at \in {"empty", "rmdir"} /\ NameOf(request[r].for) = n
           KnownNow(n) == \/ n \in errors'
                          \/ \E r \in Requests :
                               request'[r].at \in {"empty", "rmdir"} /\ NameOf(request'[r].for) = n
<1> SUFFICES ASSUME NEW n \in Names, output'[n] # "none", NoRowNow(n)
             PROVE  KnownNow(n)
  BY DEF OrphansAreUnderWay, Exists
<1>0. output[n] # "none" /\ NoRow(n) => Known(n)
  BY DEF OrphansAreUnderWay, Exists
<1>1. ASSUME NEW r \in Requests, Serves(r) PROVE KnownNow(n)
  <2>0. /\ \A q \in Requests \ {r} : request'[q] = request[q]
        /\ errors \subseteq errors'
    BY <1>1, ServerStep
  <2>1. ASSUME NEW j \in Jobs, PostsRow(r, j), NameOf(j) = n PROVE KnownNow(n)
    BY <2>1 DEF PostsRow
  <2>2. ASSUME NEW j \in Jobs, PostsRow(r, j), NameOf(j) # n PROVE KnownNow(n)
    <3>1. output[n] # "none" /\ NoRow(n)
      BY <2>2 DEF PostsRow
    <3>2. request' = request \/ request[r].at = "idle"
      BY <2>2 DEF PostsRow
    <3> QED
      BY <1>0, <2>0, <3>1, <3>2
  <2>3. CASE RemovesRow(r)
    <3>1. CASE NameOf(request[r].for) = n
      BY <2>3, <3>1 DEF RemovesRow
    <3>2. CASE NameOf(request[r].for) # n
      <4>1. output[n] # "none" /\ NoRow(n)
        BY <2>3, <3>2 DEF RemovesRow
      <4> QED
        BY <1>0, <2>0, <2>3, <3>2, <4>1 DEF RemovesRow
    <3> QED
      BY <3>1, <3>2
  <2>4. CASE RemovesFiles(r)
    <3>1. output[n] # "none" /\ NoRow(n)
      BY <2>4 DEF RemovesFiles
    <3>2. NameOf(request[r].for) = n =>
            n \in errors' \/ (request'[r].at = "rmdir" /\ NameOf(request'[r].for) = n)
      BY <2>4 DEF RemovesFiles
    <3> QED
      BY <1>0, <2>0, <3>1, <3>2
  <2>5. CASE TouchesTasks(r)
    <3>1. output[n] # "none" /\ NoRow(n)
      BY <2>5 DEF TouchesTasks
    <3> QED
      BY <1>0, <2>0, <2>5, <3>1 DEF TouchesTasks
  <2> QED
    BY <1>1, <2>1, <2>2, <2>3, <2>4, <2>5, ServerStep
<1>2. ASSUME NEW w \in Workers, Works(w) PROVE KnownNow(n)
  <2>1. output[n] # "none" /\ NoRow(n) /\ request' = request /\ errors' = errors
    BY <1>2, WorkerStep DEF KeepsRows, KeepsNames, Exists
  <2> QED
    BY <1>0, <2>1
<1>3. CASE CrashServer
  <2>1. output[n] # "none" /\ NoRow(n)
    BY <1>3, CrashServerStep DEF table, disk
  <2> QED
    BY <1>0, <1>3, <2>1, CrashServerStep
<1>4. CASE Elsewhere \/ UNCHANGED vars
  <2>1. output' = output /\ rows' = rows /\ request' = request /\ errors' = errors
    BY <1>4, ElsewhereStep DEF table, disk, api
  <2> QED
    BY <1>0, <2>1
<1> QED
  BY <1>1, <1>2, <1>3, <1>4, WhoSteps

(* The invariant holds, however many workers there are.                    *)
THEOREM JobsInvHolds == Spec => []JobsInv
<1>1. TypeOK /\ TypeOK' /\ JobsInv /\ [Next]_vars => JobsInv'
  BY NextNumbered, NextWanted, NextCleanedUp, NextFailed, NextOrphans DEF JobsInv
<1> QED
  BY <1>1, InitJobs, TypeCorrect, PTL DEF Spec

(* A package that could not be created frees its name, whoever posts and   *)
(* deletes beside it and whoever is killed, unless it was this removal     *)
(* that failed.                                                            *)
THEOREM FailuresFreeTheName == Spec => []FailedCreatesFreeTheName
<1>1. JobsInv => FailedCreatesFreeTheName
  BY DEF JobsInv
<1> QED
  BY <1>1, JobsInvHolds, PTL

(* No directory is left without a row and without anybody having been told. *)
THEOREM OrphansAreKnown == Spec => []OrphansAreReported
<1>1. TypeOK /\ JobsInv => OrphansAreReported
  BY Hands DEF JobsInv, OrphansAreUnderWay, OrphansAreReported
<1> QED
  BY <1>1, JobsInvHolds, TypeCorrect, PTL

-----------------------------------------------------------------------------
(* Nothing fails: no job is forgotten, however many workers there are.     *)

(* Redis keeps a job under its name, and knows nothing of a name that was  *)
(* never posted,                                                           *)
NamesAreNew ==
  \A n \in Names :
    /\ task[n] # NoJob => NameOf(task[n]) = n
    /\ posts[n] = 0 => task[n] = NoJob /\ n \notin queued \cup result

(* and nothing yet of the first job of a name on its way to the queue.     *)
Unknown(n) ==
  /\ task[n] = NoJob /\ n \notin queued \cup result
  /\ \A w \in Workers : job[w] # NoJob /\ Mine(w) = n => updating[w]

FirstTasksAreNew ==
  \A r \in Requests :
    LET n == NameOf(request[r].for) IN
    request[r].at = "enqueue" /\ posts[n] = 1 =>
      /\ Unknown(n)
      /\ \A q \in Requests \ {r} : request[q].at = "enqueue" => request[q].for # request[r].for

(* A worker past its first commit left no Queued behind.                   *)
BegunIsNotQueued ==
  \A w \in Workers :
    pc[w] \in Working \cup {"finish"} /\ Exists(job[w]) => rows[job[w]].status # "Queued"

(* A task that was picked is in somebody's hands.                          *)
PickedIsInHand == faults = 0 => \A n \in Names : inProgress[n] # NoJob => InHand(n)

WaitInv ==
  /\ NamesAreNew /\ FirstTasksAreNew /\ BegunIsNotQueued /\ PickedIsInHand
  /\ WaitingJobsAreInWork

LEMMA InitWait == Init => WaitInv
<1> SUFFICES ASSUME Init PROVE WaitInv
  OBVIOUS
<1>1. /\ \A j \in Jobs : ~ Exists(j)
      /\ \A n \in Names : task[n] = NoJob /\ inProgress[n] = NoJob
      /\ queued = {} /\ result = {}
      /\ \A r \in Requests : request[r].at = "idle"
      /\ \A w \in Workers : pc[w] = "idle"
  BY DEF Init, Exists, Idle
<1> QED
  BY <1>1 DEF WaitInv, NamesAreNew, FirstTasksAreNew, BegunIsNotQueued, PickedIsInHand,
              WaitingJobsAreInWork, Working

(* What was posted under a name of which there was one post.               *)
LEMMA OnlyPosts ==
  ASSUME TypeOK, JobsAreNumbered, NEW n \in Names
  PROVE  /\ posts[n] \in Nat
         /\ posts[n] = 0 =>
              /\ \A r \in Requests : request[r].for # NoJob => NameOf(request[r].for) # n
              /\ \A w \in Workers : job[w] # NoJob => Mine(w) # n
         /\ posts[n] = 1 =>
              /\ \A r \in Requests : request[r].for # NoJob /\ NameOf(request[r].for) = n
                                       => request[r].for = <<n, 1>>
              /\ \A w \in Workers : job[w] # NoJob /\ Mine(w) = n => job[w] = <<n, 1>>
              /\ \A j \in Jobs : Exists(j) /\ NameOf(j) = n => j = <<n, 1>>
<1>1. ASSUME NEW j \in Jobs, Posted(j), NameOf(j) = n
      PROVE  posts[n] # 0 /\ (posts[n] = 1 => j = <<n, 1>>)
  BY <1>1 DEF TypeOK, Jobs, NameOf, Posted
<1>2. /\ \A r \in Requests : request[r].for # NoJob => request[r].for \in Jobs
      /\ \A w \in Workers : job[w] # NoJob => job[w] \in Jobs
  BY DEF TypeOK
<1> QED
  BY <1>1, <1>2 DEF JobsAreNumbered, Mine, TypeOK

(* The two things that handlers do to the queue, and the one post.         *)
LEMMA ServerQueues ==
  ASSUME TypeOK, NEW r \in Requests, Serves(r)
  PROVE  /\ result' = result /\ inProgress' = inProgress
         /\ \A q \in Requests \ {r} : request'[q] = request[q]
         /\ UNCHANGED <<pc, job, updating>>
         /\ \/ /\ Enqueue(r) /\ request[r].for \in Jobs /\ NameOf(request[r].for) \in Names
               /\ request[r].at = "enqueue" /\ request'[r].at = "idle"
               /\ UNCHANGED <<rows, posts, faults>>
               /\ \A m \in Names \ {NameOf(request[r].for)} :
                    task'[m] = task[m] /\ (m \in queued' <=> m \in queued)
            \/ /\ DropTask(r) /\ request[r].for \in Jobs /\ NameOf(request[r].for) \in Names
               /\ request[r].at = "drop" /\ request'[r].at = "remove" /\ request'[r].for = request[r].for
               /\ task' = [task EXCEPT ![NameOf(request[r].for)] = NoJob]
               /\ UNCHANGED <<queued, rows, posts, faults>>
            \/ /\ UNCHANGED <<task, queued>>
               /\ \E j \in Jobs :
                    /\ PostsRow(r, j) /\ request[r].at = "idle"
                    /\ request'[r].at = "idle" \/ (request'[r].at = "enqueue" /\ request'[r].for = j)
            \/ /\ UNCHANGED <<task, queued, posts>>
               /\ request[r].at # "enqueue" /\ request'[r].at # "enqueue"
               /\ \/ rows' = rows /\ (request[r].at = "remove" => faults' # 0)
                  \/ RemovesRow(r)
<1> USE DEF table, disk, redis, work, api
<1>0. /\ request[r].at # "idle" => request[r].for \in Jobs /\ NameOf(request[r].for) \in Names
      /\ request[r] = Idle => request[r].at = "idle"
      /\ \A q \in Requests \ {r} : request'[q] = request[q]
      /\ UNCHANGED <<pc, job, updating>>
  BY Hands, ServerStep DEF Idle
<1>1. CASE Enqueue(r)
  BY <1>0, <1>1 DEF TypeOK, Enqueue, Answer, Idle
<1>2. CASE DropTask(r)
  BY <1>0, <1>2 DEF TypeOK, DropTask, GoOn
<1>3. CASE \/ \E n \in Names, u \in BOOLEAN : Post(r, n, u)
           \/ \E n \in Names : PostFails(r, n)
  <2>1. PICK n \in Names : posts' = [posts EXCEPT ![n] = @ + 1]
    BY <1>3 DEF Post, PostFails
  <2>2. posts' # posts
    BY <2>1 DEF TypeOK
  <2>3. PICK j \in Jobs : PostsRow(r, j)
    BY <2>2, ServerStep DEF RemovesRow, RemovesFiles, TouchesTasks
  <2>4. request[r].at = "idle" /\ UNCHANGED redis
    BY <1>0, <1>3 DEF Post, PostFails
  <2> QED
    BY <1>0, <2>3, <2>4 DEF PostsRow
<1>4. ASSUME NEW j \in Jobs, StartDelete(r, j)
      PROVE  /\ UNCHANGED <<table, redis>> /\ request[r].at = "idle" /\ request'[r].at = "drop"
  BY <1>0, <1>4 DEF TypeOK, StartDelete
<1>5. CASE RemoveRow(r)
  <2>1. /\ request'[r].at = "empty" /\ request'[r].for = request[r].for /\ request[r].at = "remove"
        /\ rows'[request[r].for] = NoJob /\ \A i \in Jobs \ {request[r].for} : rows'[i] = rows[i]
        /\ UNCHANGED <<posts, disk, redis, work>>
    BY <1>0, <1>5 DEF TypeOK, RemoveRow, GoOn
  <2>2. RemovesRow(r)
    BY <2>1 DEF RemovesRow
  <2> QED
    BY <1>0, <2>1, <2>2
<1>6. CASE RemoveRowFails(r) \/ EmptyDirectory(r) \/ RemoveDirectory(r)
  BY <1>0, <1>6 DEF TypeOK, RemoveRowFails, EmptyDirectory, RemoveDirectory, GoOn, Answer, Idle, Fault
<1> QED
  BY <1>0, <1>1, <1>2, <1>3, <1>4, <1>5, <1>6 DEF Serves, ServerGoesOn

(* What a worker does to the queue, and how far it gets with its job.      *)
LeavesQueue == UNCHANGED <<task, queued, inProgress, result>>

Drops(w, n) ==
  /\ pc[w] = "idle" /\ n \in queued /\ task[n] = NoJob
  /\ queued' = queued \ {n} /\ result' = result \cup {n}
  /\ UNCHANGED <<rows, task, inProgress, pc, job, updating>>

Picks(w, n) ==
  /\ pc[w] = "idle" /\ pc'[w] = "begin"
  /\ n \in queued /\ task[n] # NoJob /\ job'[w] = task[n]
  /\ inProgress' = [inProgress EXCEPT ![n] = task[n]]
  /\ UNCHANGED <<rows, task, queued, result, updating>>

Ends(w) ==
  /\ pc[w] = "finish" /\ pc'[w] = "idle" /\ job'[w] = NoJob /\ Mine(w) \in Names
  /\ task' = [task EXCEPT ![Mine(w)] = NoJob]
  /\ inProgress' = [inProgress EXCEPT ![Mine(w)] = NoJob]
  /\ queued' = queued \ {Mine(w)} /\ result' = result \cup {Mine(w)}
  /\ UNCHANGED <<rows, updating>>

SetsStatus(w, statuses) ==
  \/ rows' = rows /\ ~ Exists(job[w])
  \/ /\ Exists(job[w]) /\ rows'[job[w]] # NoJob /\ rows'[job[w]].status \in statuses
     /\ \A i \in Jobs \ {job[w]} : rows'[i] = rows[i]

GetsOn(w) ==
  /\ job[w] \in Jobs /\ job'[w] = job[w] /\ pc'[w] \in Working
  /\ LeavesQueue /\ UNCHANGED updating
  /\ \/ pc[w] = "begin" /\ Exists(job[w]) /\ SetsStatus(w, {"Compressing"})
     \/ pc[w] \in Working /\ rows' = rows

Returns(w) ==
  /\ LeavesQueue /\ UNCHANGED updating /\ job[w] \in Jobs
  /\ \/ pc[w] = "begin" /\ ~ Exists(job[w]) /\ rows' = rows
     \/ pc[w] = "commit" /\ SetsStatus(w, {"Completed", "Failed"})
  /\ \/ updating[w] /\ pc'[w] = "next" /\ job'[w] = NoJob
     \/ ~ updating[w] /\ pc'[w] = "finish" /\ job'[w] = job[w]

Updates(w) ==
  /\ LeavesQueue /\ rows' = rows /\ job[w] = NoJob
  /\ \/ job'[w] = NoJob /\ pc'[w] \in {"idle", "next"}
     \/ updating' = updating /\ updating[w] /\ pc'[w] = "begin"

Dies(w) ==
  /\ LeavesQueue /\ rows' = rows
  /\ job'[w] = NoJob /\ pc'[w] = "idle" /\ faults' # 0

LEMMA WorkerQueues ==
  ASSUME TypeOK, UpdatesAreWanted, NEW w \in Workers, Works(w)
  PROVE  /\ UNCHANGED <<posts, request>>
         /\ faults' = 0 => faults = 0
         /\ \A v \in Workers \ {w} : pc'[v] = pc[v] /\ job'[v] = job[v] /\ updating'[v] = updating[v]
         /\ \/ \E n \in Names : Drops(w, n) \/ Picks(w, n)
            \/ Ends(w) \/ GetsOn(w) \/ Returns(w) \/ Updates(w) \/ Dies(w)
<1> USE DEF Goes, At, table, disk, redis, build, api, work, LeavesQueue
<1>0. /\ pc[w] \notin {"idle", "next"} => job[w] \in Jobs /\ job[w] # NoJob /\ Mine(w) \in Names
      /\ pc[w] \in {"idle", "next"} => job[w] = NoJob
      /\ pc \in [Workers -> WorkerSteps] /\ job \in [Workers -> Jobs \cup {NoJob}]
  BY Hands DEF TypeOK
<1>1. ASSUME NEW n \in Names, DropExpired(w, n) PROVE Drops(w, n)
  BY <1>1 DEF DropExpired, Drops
<1>2. ASSUME NEW n \in Names, PickCreate(w, n) PROVE Picks(w, n)
  BY <1>0, <1>2 DEF PickCreate, Picks
<1>3. CASE PickUpdate(w) \/ UpdateDone(w)
  <2>1. Updates(w)
    BY <1>0, <1>3 DEF PickUpdate, UpdateDone, Updates
  <2> QED
    BY <2>1, WorkerStep
<1>4. ASSUME NEW j \in Jobs, NextUpdate(w, j) PROVE Updates(w)
  BY <1>0, <1>4 DEF NextUpdate, Updates, UpdatesAreWanted
<1>5. CASE Begin(w)
  <2>1. job[w] \in Jobs /\ rows[job[w]] \in Row /\ rows' = [rows EXCEPT ![job[w]].status = "Compressing"]
    BY <1>0, <1>5, RowTypes DEF Begin, Started
  <2>2. SetsStatus(w, {"Compressing"})
    <3>1. rows'[job[w]] \in Row /\ rows'[job[w]].status = "Compressing"
      BY <2>1 DEF TypeOK, Row, Statuses
    <3>2. rows'[job[w]] # NoJob
      BY <3>1
    <3>3. \A i \in Jobs \ {job[w]} : rows'[i] = rows[i]
      BY <2>1 DEF TypeOK
    <3> QED
      BY <1>5, <3>1, <3>2, <3>3 DEF SetsStatus, Begin
  <2>3. GetsOn(w)
    BY <1>0, <1>5, <2>2 DEF Begin, GetsOn, Working
  <2> QED
    BY <2>3, WorkerStep
<1>6. CASE \/ LockGraph(w) \/ NoTiles(w) \/ OpenZip(w) \/ NoDirectory(w) \/ CloseZip(w) \/ ZipFails(w)
           \/ Cleanup(w) \/ CleanupFails(w)
  <2>1. GetsOn(w)
    BY <1>0, <1>6 DEF LockGraph, NoTiles, OpenZip, NoDirectory, CloseZip, ZipFails, Cleanup, CleanupFails,
                      GetsOn, Working
  <2> QED
    BY <2>1, WorkerStep
<1>7. CASE WriteMeta(w)
  <2>1. pc' = [pc EXCEPT ![w] = "cleanup"] \/ pc' = [pc EXCEPT ![w] = "commit"]
    BY <1>7 DEF WriteMeta
  <2>2. GetsOn(w)
    BY <1>0, <1>7, <2>1 DEF WriteMeta, GetsOn, Working
  <2> QED
    BY <2>2, WorkerStep
<1>8. CASE JobIsGone(w) \/ Commit(w)
  <2>1. \/ updating[w] /\ pc'[w] = "next" /\ job'[w] = NoJob
        \/ ~ updating[w] /\ pc'[w] = "finish" /\ job'[w] = job[w]
    BY <1>0, <1>8 DEF JobIsGone, Commit, Return
  <2>2. CASE JobIsGone(w)
    BY <1>0, <2>1, <2>2, WorkerStep DEF JobIsGone, Returns
  <2>3. CASE Commit(w)
    <3>1. SetsStatus(w, {"Completed", "Failed"})
      <4>1. CASE Exists(job[w])
        <5>1. /\ rows[job[w]] \in Row /\ job[w] \in Jobs
              /\ rows' = [rows EXCEPT ![job[w]].status = FinalStatus(w)]
          BY <1>0, <2>3, <4>1, RowTypes DEF Commit, Commits
        <5>2. rows'[job[w]] \in Row /\ rows'[job[w]].status = FinalStatus(w)
          BY <5>1 DEF TypeOK, Row, Statuses, FinalStatus
        <5>3. rows'[job[w]] # NoJob
          BY <5>2
        <5>4. \A i \in Jobs \ {job[w]} : rows'[i] = rows[i]
          BY <5>1 DEF TypeOK
        <5> QED
          BY <4>1, <5>2, <5>3, <5>4 DEF SetsStatus, FinalStatus
      <4> QED
        BY <2>3, <4>1 DEF SetsStatus, Commit, Commits
    <3>2. Returns(w)
      BY <1>0, <2>1, <2>3, <3>1 DEF Commit, Returns
    <3> QED
      BY <3>2, WorkerStep
  <2> QED
    BY <1>8, <2>2, <2>3
<1>9. CASE Finish(w)
  <2>1. Ends(w)
    BY <1>0, <1>9 DEF Finish, Ends
  <2> QED
    BY <2>1, WorkerStep
<1>10. CASE CrashWorker(w)
  <2>1. Dies(w)
    BY <1>0, <1>10 DEF TypeOK, CrashWorker, Dies, Fault
  <2> QED
    BY <2>1, WorkerStep
<1> QED
  BY <1>1, <1>2, <1>3, <1>4, <1>5, <1>6, <1>7, <1>8, <1>9, <1>10, WorkerStep DEF Works, WorkerGoesOn

(* What Redis knows of the names.                                          *)
LEMMA NextNew ==
  ASSUME TypeOK, TypeOK', JobsAreNumbered, UpdatesAreWanted, NamesAreNew, [Next]_vars
  PROVE  NamesAreNew'
<1> DEFINE New(n) == posts[n] = 0 => task[n] = NoJob /\ n \notin queued \cup result
           Named(n) == task[n] # NoJob => NameOf(task[n]) = n
<1> SUFFICES ASSUME NEW n \in Names PROVE Named(n)' /\ New(n)'
  BY DEF NamesAreNew
<1>0. Named(n) /\ New(n)
  BY DEF NamesAreNew
<1>1. posts[n] = 0 =>
        /\ \A r \in Requests : request[r].for # NoJob => NameOf(request[r].for) # n
        /\ \A w \in Workers : job[w] # NoJob => Mine(w) # n
  BY OnlyPosts
<1> HIDE DEF New, Named
<1>2. ASSUME NEW r \in Requests, Serves(r) PROVE Named(n)' /\ New(n)'
  <2>1. posts'[n] = 0 => posts[n] = 0
    <3>1. ASSUME NEW j \in Jobs, PostsRow(r, j) PROVE posts'[n] = 0 => posts[n] = 0
      BY <3>1 DEF PostsRow, TypeOK
    <3> QED
      BY <1>2, <3>1, ServerQueues DEF RemovesRow
  <2>2. CASE Enqueue(r)
    <3>1. request[r].for \in Jobs /\ request[r].for # NoJob /\ NameOf(request[r].for) \in Names
      BY <2>2, Hands DEF Enqueue, TypeOK
    <3>2. task'[n] = task[n] \/ (task'[n] = request[r].for /\ NameOf(request[r].for) = n)
      BY <2>2, <3>1 DEF Enqueue, TypeOK
    <3>3. NameOf(request[r].for) # n =>
            task'[n] = task[n] /\ (n \in queued' => n \in queued) /\ result' = result
      BY <2>2, <3>1 DEF Enqueue, TypeOK
    <3> QED
      BY <1>0, <1>1, <2>1, <3>1, <3>2, <3>3 DEF New, Named
  <2>3. CASE DropTask(r)
    BY <1>0, <2>1, <2>3 DEF DropTask, TypeOK, New, Named
  <2>4. CASE UNCHANGED <<task, queued>>
    BY <1>0, <1>2, <2>1, <2>4, ServerQueues DEF New, Named
  <2> QED
    BY <1>2, <2>2, <2>3, <2>4, ServerQueues
<1>3. ASSUME NEW w \in Workers, Works(w) PROVE Named(n)' /\ New(n)'
  <2>1. posts' = posts
    BY <1>3, WorkerQueues
  <2>2. pc[w] = "finish" => job[w] # NoJob
    BY DEF TypeOK
  <2>3. CASE \E m \in Names : Drops(w, m) \/ Picks(w, m)
    BY <1>0, <2>1, <2>3 DEF Drops, Picks, New, Named
  <2>4. CASE Ends(w)
    BY <1>0, <1>1, <2>1, <2>2, <2>4 DEF Ends, TypeOK, New, Named
  <2>5. CASE LeavesQueue
    BY <1>0, <2>1, <2>5 DEF LeavesQueue, New, Named
  <2> QED
    BY <1>3, <2>3, <2>4, <2>5, WorkerQueues DEF GetsOn, Returns, Updates, Dies
<1>4. CASE CrashServer
  BY <1>0, <1>4, CrashServerStep DEF table, redis, New, Named
<1>5. CASE Elsewhere \/ UNCHANGED vars
  <2>1. /\ posts' = posts /\ queued' = queued /\ result' \subseteq result
        /\ task'[n] \in {NoJob, task[n]}
    BY <1>5, ElsewhereStep DEF Elsewhere, InProgressExpires, ResultExpires, SwapGraph, EnqueueUpdates,
       vars, table, redis
  <2> QED
    BY <1>0, <2>1 DEF New, Named
<1> QED
  BY <1>2, <1>3, <1>4, <1>5, WhoSteps

(* Nobody gets before the enqueueing of the first job of a name.           *)
LEMMA NextFirst ==
  ASSUME TypeOK, TypeOK', JobsAreNumbered, UpdatesAreWanted, NamesAreNew, FirstTasksAreNew, [Next]_vars
  PROVE  FirstTasksAreNew'
<1> DEFINE New(r) ==
      request[r].at = "enqueue" /\ posts[NameOf(request[r].for)] = 1 =>
        /\ Unknown(NameOf(request[r].for))
        /\ \A q \in Requests \ {r} : request[q].at = "enqueue" => request[q].for # request[r].for
<1> SUFFICES ASSUME NEW r \in Requests, request'[r].at = "enqueue" PROVE New(r)'
  BY DEF FirstTasksAreNew
<1> DEFINE n == NameOf(request[r].for)
<1>0. New(r)
  BY DEF FirstTasksAreNew
<1>1. CASE Serves(r)
  <2>1. PICK j \in Jobs : /\ PostsRow(r, j) /\ request'[r].for = j /\ UNCHANGED <<task, queued>>
                          /\ request[r].at = "idle"
    BY <1>1, ServerQueues
  <2> DEFINE m == NameOf(j)
  <2>2. m \in Names /\ posts'[m] = posts[m] + 1 /\ posts[m] \in Nat
    BY <2>1 DEF PostsRow, Jobs, NameOf, TypeOK
  <2>3. CASE posts[m] = 0
    <3>1. /\ task[m] = NoJob /\ m \notin queued \cup result
          /\ \A q \in Requests : request[q].for # NoJob => NameOf(request[q].for) # m
          /\ \A w \in Workers : job[w] # NoJob => Mine(w) # m
      BY <2>2, <2>3, OnlyPosts DEF NamesAreNew
    <3>2. \A q \in Requests \ {r} :
            request'[q] = request[q] /\ (request[q].at = "enqueue" => request[q].for # NoJob)
      BY <1>1, ServerQueues DEF TypeOK
    <3>3. Unknown(m)'
      BY <1>1, <2>1, <3>1, ServerQueues DEF Unknown, Mine
    <3> QED
      BY <2>1, <3>1, <3>2, <3>3
  <2> QED
    BY <2>1, <2>2, <2>3
<1>2. ASSUME NEW q \in Requests \ {r}, Serves(q) PROVE New(r)'
  <2>1. /\ request'[r] = request[r] /\ UNCHANGED <<result, pc, job, updating>>
        /\ request[r].for \in Jobs /\ n \in Names /\ request[r].for # NoJob
        /\ \A p \in Requests \ {q} : request'[p] = request[p]
    BY <1>2, ServerQueues, Hands DEF TypeOK
  <2>2. ASSUME posts'[n] = 1 PROVE posts[n] = 1 /\ ~ (\E j \in Jobs : PostsRow(q, j) /\ NameOf(j) = n)
    <3>1. posts[n] \in Nat /\ posts[n] # 0
      BY <2>1, OnlyPosts
    <3>2. ASSUME NEW j \in Jobs, PostsRow(q, j) PROVE posts[n] = 1 /\ NameOf(j) # n
      <4>1. /\ posts' = [posts EXCEPT ![NameOf(j)] = @ + 1] /\ NameOf(j) \in Names /\ n \in Names
            /\ posts \in [Names -> Nat]
        BY <2>1, <3>2 DEF PostsRow, Jobs, NameOf, TypeOK
      <4> HIDE DEF n
      <4> QED
        BY <2>2, <3>1, <4>1
    <3> QED
      BY <1>2, <2>2, <3>2, ServerQueues DEF RemovesRow
  <2>3. SUFFICES ASSUME posts'[n] = 1
                 PROVE  /\ Unknown(n)'
                        /\ \A p \in Requests \ {r} :
                             request'[p].at = "enqueue" => request'[p].for # request[r].for
    BY <2>1
  <2>4. /\ Unknown(n)
        /\ \A p \in Requests \ {r} : request[p].at = "enqueue" => request[p].for # request[r].for
    BY <1>0, <2>1, <2>2, <2>3
  <2>5. request'[q].at = "enqueue" => request'[q].for # request[r].for
    BY <1>2, <2>1, <2>2, <2>3, ServerQueues
  <2>6. Unknown(n)'
    <3>1. task'[n] = NoJob /\ (n \in queued' => n \in queued)
      <4>1. CASE Enqueue(q) /\ request[q].at = "enqueue"
        <5>1. NameOf(request[q].for) # n
          <6>1. posts[n] = 1 /\ request[r].for = <<n, 1>>
            BY <2>1, <2>2, <2>3, OnlyPosts
          <6>2. request[q].for # NoJob /\ request[q].for # request[r].for
            BY <2>4, <4>1 DEF TypeOK
          <6> QED
            BY <2>1, <6>1, <6>2, OnlyPosts
        <5> QED
          BY <1>2, <2>1, <2>4, <4>1, <5>1, ServerQueues DEF Unknown
      <4> QED
        BY <1>2, <2>1, <2>4, <4>1, ServerQueues DEF Unknown, TypeOK
    <3> QED
      BY <2>1, <2>4, <3>1 DEF Unknown, Mine
  <2> QED
    BY <2>1, <2>4, <2>5, <2>6
<1>3. ASSUME NEW w \in Workers, Works(w) PROVE New(r)'
  <2>1. /\ request' = request /\ posts' = posts
        /\ \A v \in Workers \ {w} : job'[v] = job[v] /\ updating'[v] = updating[v]
    BY <1>3, WorkerQueues
  <2>2. SUFFICES ASSUME Unknown(n) PROVE Unknown(n)'
    BY <1>0, <2>1
  <2>3. SUFFICES /\ task'[n] = NoJob /\ n \notin queued' \cup result'
                 /\ job'[w] # NoJob /\ NameOf(job'[w]) = n => updating'[w]
    BY <2>1, <2>2 DEF Unknown, Mine
  <2>4. /\ task[n] = NoJob /\ n \notin queued \cup result /\ n \in Names
        /\ job[w] # NoJob /\ Mine(w) = n => updating[w]
    BY <2>1, <2>2, Hands DEF Unknown
  <2>5. CASE \E m \in Names : Drops(w, m)
    BY <2>4, <2>5 DEF Drops, Mine
  <2>6. CASE \E m \in Names : Picks(w, m)
    <3>1. PICK m \in Names : Picks(w, m)
      BY <2>6
    <3>2. NameOf(task[m]) = m /\ m # n
      BY <2>4, <3>1 DEF Picks, NamesAreNew
    <3> QED
      BY <2>4, <3>1, <3>2 DEF Picks, Mine
  <2>7. CASE Ends(w)
    <3>1. ~ updating[w] /\ job[w] # NoJob
      BY <2>7 DEF Ends, UpdatesAreWanted, TypeOK
    <3> QED
      BY <2>4, <2>7, <3>1 DEF Ends, TypeOK
  <2>8. CASE GetsOn(w) \/ Returns(w) \/ Updates(w) \/ Dies(w)
    BY <2>4, <2>8 DEF GetsOn, Returns, Updates, Dies, LeavesQueue, Mine
  <2> QED
    BY <1>3, <2>5, <2>6, <2>7, <2>8, WorkerQueues
<1>4. CASE CrashServer
  BY <1>4, CrashServerStep
<1>5. CASE Elsewhere \/ UNCHANGED vars
  <2>1. /\ request' = request /\ posts' = posts /\ UNCHANGED work
        /\ queued' = queued /\ result' \subseteq result /\ \A m \in Names : task'[m] \in {NoJob, task[m]}
    BY <1>5, ElsewhereStep DEF Elsewhere, InProgressExpires, ResultExpires, SwapGraph, EnqueueUpdates,
       vars, table, api, redis
  <2>2. n \in Names
    BY <2>1, Hands
  <2> QED
    BY <1>0, <2>1, <2>2 DEF Unknown, Mine, work
<1> QED
  BY <1>1, <1>2, <1>3, <1>4, <1>5, WhoSteps

(* What a worker's step does to the row of a job.                          *)
LEMMA RowsUnderWork ==
  ASSUME TypeOK, UpdatesAreWanted, NEW w \in Workers, Works(w), NEW j \in Jobs
  PROVE  \/ rows'[j] = rows[j]
         \/ j = job[w] /\ GetsOn(w) /\ rows'[j].status = "Compressing"
         \/ j = job[w] /\ Returns(w) /\ rows'[j].status \in {"Completed", "Failed"}
  BY WorkerQueues DEF Drops, Picks, Ends, GetsOn, Returns, Updates, Dies, SetsStatus

LEMMA NextBegun ==
  ASSUME TypeOK, TypeOK', JobsAreNumbered, UpdatesAreWanted, BegunIsNotQueued, [Next]_vars
  PROVE  BegunIsNotQueued'
<1> DEFINE Begun(w) ==
      pc[w] \in Working \cup {"finish"} /\ Exists(job[w]) => rows[job[w]].status # "Queued"
<1>0. /\ \A w \in Workers : Begun(w)
      /\ \A w \in Workers : pc[w] \in Working \cup {"finish"} => job[w] \in Jobs /\ Posted(job[w])
  BY DEF BegunIsNotQueued, TypeOK, Working, JobsAreNumbered
<1>1. ASSUME NEW r \in Requests, Serves(r), NEW w \in Workers PROVE Begun(w)'
  <2>1. pc' = pc /\ job' = job
    BY <1>1, ServerQueues
  <2>2. ASSUME NEW j \in Jobs, PostsRow(r, j), pc[w] \in Working \cup {"finish"}
        PROVE  rows'[job[w]] = rows[job[w]]
    <3>1. job[w] # j
      <4>1. j[2] = posts[NameOf(j)] + 1 /\ posts[NameOf(j)] \in Nat
        BY <1>1, <2>2, NumbersGrow DEF PostsRow
      <4>2. ~ Posted(j)
        BY <4>1 DEF Posted
      <4> QED
        BY <1>0, <2>2, <4>2
    <3> QED
      BY <1>0, <2>2, <3>1 DEF PostsRow
  <2>3. ASSUME pc[w] \in Working \cup {"finish"}
        PROVE  rows'[job[w]] = rows[job[w]] \/ rows'[job[w]] = NoJob
    BY <1>0, <1>1, <2>2, <2>3, ServerQueues DEF RemovesRow
  <2> QED
    BY <1>0, <2>1, <2>3 DEF Exists
<1>2. ASSUME NEW w \in Workers, Works(w), NEW v \in Workers PROVE Begun(v)'
  <2>1. ASSUME v # w PROVE Begun(v)'
    <3>1. pc'[v] = pc[v] /\ job'[v] = job[v]
      BY <1>2, <2>1, WorkerQueues
    <3>2. pc[v] \in Working \cup {"finish"} =>
            rows'[job[v]] = rows[job[v]] \/ rows'[job[v]].status \in {"Compressing", "Completed", "Failed"}
      BY <1>0, <1>2, RowsUnderWork
    <3> QED
      BY <1>0, <3>1, <3>2 DEF Exists
  <2>2. Begun(w)'
    <3>1. CASE \E n \in Names : Drops(w, n)
      BY <1>0, <3>1 DEF Drops, Exists
    <3>2. CASE (\E n \in Names : Picks(w, n)) \/ Ends(w) \/ Updates(w) \/ Dies(w)
      BY <3>2 DEF Picks, Ends, Updates, Dies, Working
    <3>3. CASE GetsOn(w)
      BY <1>0, <3>3 DEF GetsOn, SetsStatus, Exists
    <3>4. CASE Returns(w)
      BY <1>0, <3>4 DEF Returns, SetsStatus, Exists, Working
    <3> QED
      BY <1>2, <3>1, <3>2, <3>3, <3>4, WorkerQueues
  <2> QED
    BY <2>1, <2>2
<1>3. CASE CrashServer \/ Elsewhere \/ UNCHANGED vars
  <2>1. UNCHANGED <<rows, pc, job>>
    BY <1>3, CrashServerStep, ElsewhereStep DEF table, work
  <2> QED
    BY <1>0, <2>1 DEF BegunIsNotQueued, Exists
<1> QED
  BY <1>1, <1>2, <1>3, WhoSteps DEF BegunIsNotQueued

LEMMA NextPicked ==
  ASSUME TypeOK, UpdatesAreWanted, NamesAreNew, PickedIsInHand, [Next]_vars
  PROVE  PickedIsInHand'
<1> DEFINE Has(w, n) == job[w] # NoJob /\ ~ updating[w] /\ Mine(w) = n
<1> SUFFICES ASSUME faults' = 0, NEW n \in Names, inProgress'[n] # NoJob
             PROVE  \E w \in Workers : Has(w, n)'
  BY DEF PickedIsInHand, InHand, Mine
<1>1. ASSUME faults = 0, inProgress[n] # NoJob PROVE \E w \in Workers : Has(w, n)
  BY <1>1 DEF PickedIsInHand, InHand
<1>2. CASE (\E r \in Requests : Serves(r)) \/ Elsewhere \/ UNCHANGED vars
  <2>1. UNCHANGED <<job, updating>> /\ (faults' = 0 => faults = 0)
    BY <1>2, ServerStep, ElsewhereStep DEF work
  <2>2. inProgress'[n] \in {inProgress[n], NoJob}
    BY <1>2, ServerQueues DEF Elsewhere, InProgressExpires, ResultExpires, SwapGraph, EnqueueUpdates,
       vars, redis, TypeOK
  <2> QED
    BY <1>1, <2>1, <2>2 DEF Mine
<1>3. ASSUME NEW w \in Workers, Works(w) PROVE \E v \in Workers : Has(v, n)'
  <2>0. /\ faults = 0
        /\ \A v \in Workers \ {w} : job'[v] = job[v] /\ updating'[v] = updating[v]
    BY <1>3, WorkerQueues
  <2>1. ASSUME inProgress[n] # NoJob, ~ Has(w, n) PROVE \E v \in Workers : Has(v, n)'
    BY <1>1, <2>0, <2>1 DEF Mine
  <2>2. CASE \E m \in Names : Picks(w, m)
    <3>1. PICK m \in Names : Picks(w, m)
      BY <2>2
    <3>2. NameOf(task[m]) = m /\ ~ updating[w] /\ job[w] = NoJob
      BY <3>1 DEF Picks, NamesAreNew, UpdatesAreWanted, TypeOK
    <3>3. CASE m = n
      BY <3>1, <3>2, <3>3 DEF Picks, Mine
    <3>4. CASE m # n
      BY <2>1, <3>1, <3>2, <3>4 DEF Picks, TypeOK
    <3> QED
      BY <3>3, <3>4
  <2>3. CASE Ends(w)
    <3>1. Mine(w) # n /\ inProgress'[n] = inProgress[n]
      BY <2>3 DEF Ends, TypeOK
    <3> QED
      BY <2>1, <3>1
  <2>4. CASE (\E m \in Names : Drops(w, m)) \/ GetsOn(w) \/ Returns(w)
    <3>1. /\ inProgress'[n] = inProgress[n] /\ updating' = updating
          /\ job'[w] = job[w] \/ updating[w]
      BY <2>4 DEF Drops, GetsOn, Returns, LeavesQueue
    <3> QED
      BY <1>1, <2>0, <3>1 DEF Mine
  <2>5. CASE Updates(w)
    BY <2>1, <2>5 DEF Updates, LeavesQueue
  <2> QED
    BY <1>3, <2>2, <2>3, <2>4, <2>5, WorkerQueues DEF Dies
<1>4. CASE CrashServer
  BY <1>4, CrashServerStep
<1> QED
  BY <1>2, <1>3, <1>4, WhoSteps

(* A job that is Compressing stays in a worker's hands.                    *)
LEMMA NextInWork ==
  ASSUME TypeOK, TypeOK', JobsAreNumbered, UpdatesAreWanted, NEW j \in Jobs,
         Exists(j) /\ rows[j].status = "Compressing" => InWork(j, Working),
         [Next]_vars, faults' = 0, Exists(j)', rows'[j].status = "Compressing"
  PROVE  InWork(j, Working)'
<1>1. CASE (\E r \in Requests : Serves(r)) \/ Elsewhere \/ UNCHANGED vars
  <2>1. UNCHANGED <<pc, job>> /\ rows'[j] = rows[j]
    <3>1. CASE Elsewhere \/ UNCHANGED vars
      BY <3>1, ElsewhereStep DEF table, work
    <3>2. ASSUME NEW r \in Requests, Serves(r) PROVE UNCHANGED <<pc, job>> /\ rows'[j] = rows[j]
      BY <3>2, ServerQueues DEF PostsRow, RemovesRow, Exists
    <3> QED
      BY <1>1, <3>1, <3>2
  <2> QED
    BY <2>1 DEF Exists, InWork
<1>2. ASSUME NEW w \in Workers, Works(w) PROVE InWork(j, Working)'
  <2>1. \A v \in Workers \ {w} : pc'[v] = pc[v] /\ job'[v] = job[v]
    BY <1>2, WorkerQueues
  <2>2. CASE rows'[j] = rows[j]
    <3>1. PICK v \in Workers : job[v] = j /\ pc[v] \in Working
      BY <2>2 DEF Exists, InWork
    <3>2. CASE v # w
      BY <2>1, <3>1, <3>2 DEF InWork
    <3>3. CASE v = w
      <4>1. j # NoJob /\ ~ Returns(w)
        BY <2>2, <3>1, <3>3 DEF Returns, SetsStatus, Exists, Working
      <4>2. GetsOn(w) \/ \E n \in Names : Drops(w, n)
        BY <1>2, <3>1, <3>3, <4>1, WorkerQueues DEF Picks, Ends, Updates, Dies, Working
      <4> QED
        BY <3>1, <3>3, <4>2 DEF GetsOn, Drops, InWork
    <3> QED
      BY <3>2, <3>3
  <2>3. CASE rows'[j] # rows[j]
    BY <1>2, <2>3, RowsUnderWork DEF GetsOn, InWork
  <2> QED
    BY <2>2, <2>3
<1>3. CASE CrashServer
  BY <1>3, CrashServerStep
<1> QED
  BY <1>1, <1>2, <1>3, WhoSteps

(* Where a job that is Queued is.                                          *)
InQueue(j) ==
  \/ task[NameOf(j)] = j /\ NameOf(j) \in queued
  \/ \E r \in Requests : request[r].for = j /\ request[r].at \in {"enqueue", "remove"}
  \/ InWork(j, {"begin"})

LEMMA NextInQueue ==
  ASSUME TypeOK, TypeOK', JobsAreNumbered, UpdatesAreWanted, NamesAreNew, FirstTasksAreNew,
         BegunIsNotQueued, PickedIsInHand, NEW j \in Jobs,
         faults = 0 /\ Exists(j) /\ rows[j].status = "Queued" /\ posts[NameOf(j)] = 1 => InQueue(j),
         [Next]_vars, faults' = 0, Exists(j)', rows'[j].status = "Queued", posts'[NameOf(j)] = 1
  PROVE  InQueue(j)'
<1> DEFINE n == NameOf(j)
<1>0. n \in Names /\ posts[n] \in Nat /\ (Exists(j) => Posted(j) /\ posts[n] >= 1)
  BY DEF Jobs, NameOf, TypeOK, JobsAreNumbered, Posted
<1>1. ASSUME NEW r \in Requests, Serves(r) PROVE InQueue(j)'
  <2>0. /\ faults = 0 /\ UNCHANGED <<pc, job>>
        /\ \A q \in Requests \ {r} : request'[q] = request[q]
    BY <1>1, ServerStep
  <2>1. ASSUME NEW i \in Jobs, PostsRow(r, i), UNCHANGED <<task, queued>>, request[r].at = "idle",
               request'[r].at = "idle" \/ (request'[r].at = "enqueue" /\ request'[r].for = i)
        PROVE  InQueue(j)'
    <3>1. NameOf(i) \in Names /\ i[2] = posts[NameOf(i)] + 1 /\ posts'[NameOf(i)] = posts[NameOf(i)] + 1
      BY <2>1, NumbersGrow DEF PostsRow, Jobs, NameOf
    <3>2. CASE rows'[j] = rows[j]
      <4>1. Exists(j) /\ rows[j].status = "Queued" /\ posts[n] >= 1
        BY <1>0, <3>2 DEF Exists
      <4>2. NameOf(i) # n
        BY <1>0, <3>1, <4>1
      <4>3. posts[n] = 1
        BY <1>0, <2>1, <4>2 DEF PostsRow, TypeOK
      <4>4. InQueue(j)
        BY <2>0, <4>1, <4>3
      <4> QED
        BY <2>0, <2>1, <4>4 DEF InQueue, InWork
    <3>3. CASE rows'[j] # rows[j]
      <4>1. i = j /\ request'[r].at = "enqueue" /\ request'[r].for = j
        BY <2>1, <3>3 DEF PostsRow
      <4> QED
        BY <4>1 DEF InQueue
    <3> QED
      BY <3>2, <3>3
  <2>2. ASSUME posts' = posts, rows'[j] = rows[j] PROVE InQueue(j)
    BY <2>0, <2>2 DEF Exists
  <2>3. CASE RemovesRow(r) /\ UNCHANGED <<task, queued>>
    <3>1. request[r].for # j /\ rows'[j] = rows[j] /\ posts' = posts
      BY <2>3 DEF RemovesRow, Exists
    <3> QED
      BY <2>0, <2>2, <2>3, <3>1 DEF InQueue, InWork
  <2>4. CASE /\ rows' = rows /\ posts' = posts /\ UNCHANGED <<task, queued>>
             /\ request[r].at \notin {"enqueue", "remove"}
    BY <2>0, <2>2, <2>4 DEF InQueue, InWork
  <2>5. CASE Enqueue(r) /\ request[r].at = "enqueue"
    <3>1. rows' = rows /\ posts' = posts /\ InQueue(j) /\ request[r].for \in Jobs
      BY <2>2, <2>5, Hands DEF Enqueue, table
    <3>2. CASE request[r].for = j
      <4>1. Unknown(n)
        BY <2>5, <3>1, <3>2 DEF FirstTasksAreNew
      <4>2. task' = [task EXCEPT ![n] = j] /\ queued' = queued \cup {n}
        BY <2>5, <3>2, <4>1 DEF Enqueue, Unknown
      <4> QED
        BY <1>0, <4>2 DEF InQueue, TypeOK
    <3>3. CASE request[r].for # j
      <4>1. Exists(j) /\ j # NoJob /\ request[r].for # NoJob
        BY <3>1 DEF Exists
      <4>2. NameOf(request[r].for) # n
        BY <1>0, <3>1, <3>3, <4>1, OnlyPosts
      <4>3. task'[n] = task[n] /\ (n \in queued => n \in queued')
        BY <1>0, <2>5, <4>2 DEF Enqueue, TypeOK
      <4> QED
        BY <2>0, <3>1, <3>3, <4>3 DEF InQueue, InWork
    <3> QED
      BY <3>2, <3>3
  <2>6. CASE /\ DropTask(r) /\ request[r].at = "drop" /\ request'[r].at = "remove"
             /\ request'[r].for = request[r].for
             /\ task' = [task EXCEPT ![NameOf(request[r].for)] = NoJob] /\ queued' = queued
    <3>1. rows' = rows /\ posts' = posts /\ InQueue(j) /\ request[r].for \in Jobs
      BY <2>2, <2>6, Hands DEF DropTask, table
    <3>2. CASE request[r].for = j
      BY <2>6, <3>2 DEF InQueue
    <3>3. CASE request[r].for # j
      <4>1. Exists(j) /\ j # NoJob /\ request[r].for # NoJob
        BY <3>1 DEF Exists
      <4>2. NameOf(request[r].for) # n
        BY <1>0, <3>1, <3>3, <4>1, OnlyPosts
      <4>3. task'[n] = task[n]
        BY <1>0, <2>6, <4>2 DEF TypeOK
      <4> QED
        BY <2>0, <2>6, <3>1, <4>3 DEF InQueue, InWork
    <3> QED
      BY <3>2, <3>3
  <2> QED
    BY <1>1, <2>1, <2>3, <2>4, <2>5, <2>6, ServerQueues
<1>2. ASSUME NEW w \in Workers, Works(w) PROVE InQueue(j)'
  <2>0. /\ faults = 0 /\ posts' = posts /\ request' = request
        /\ \A v \in Workers \ {w} : pc'[v] = pc[v] /\ job'[v] = job[v]
    BY <1>2, WorkerQueues
  <2>1. rows'[j] = rows[j] /\ Exists(j) /\ rows[j].status = "Queued" /\ posts[n] = 1 /\ InQueue(j)
    BY <1>2, <2>0, RowsUnderWork DEF Exists
  <2>2. CASE task[n] = j /\ n \in queued
    <3>1. j # NoJob
      OBVIOUS
    <3>2. task'[n] = j /\ n \in queued'
      <4>1. CASE \E m \in Names : Drops(w, m) \/ Picks(w, m)
        BY <2>2, <3>1, <4>1 DEF Drops, Picks
      <4>2. CASE Ends(w)
        <5>1. job[w] # NoJob /\ job[w] \in Jobs
          BY <4>2 DEF Ends, TypeOK
        <5>2. Mine(w) # n
          BY <1>0, <2>1, <4>2, <5>1, OnlyPosts DEF Ends, BegunIsNotQueued
        <5> QED
          BY <1>0, <2>2, <4>2, <5>2 DEF Ends, TypeOK
      <4>3. CASE LeavesQueue
        BY <2>2, <4>3 DEF LeavesQueue
      <4> QED
        BY <1>2, <4>1, <4>2, <4>3, WorkerQueues DEF GetsOn, Returns, Updates, Dies
    <3> QED
      BY <3>2 DEF InQueue
  <2>3. CASE InWork(j, {"begin"})
    <3>1. PICK v \in Workers : job[v] = j /\ pc[v] = "begin"
      BY <2>3 DEF InWork
    <3>2. v # w
      BY <1>2, <2>1, <3>1, WorkerQueues DEF Drops, Picks, Ends, GetsOn, Returns, Updates,
         Dies, SetsStatus, Working
    <3> QED
      BY <2>0, <3>1, <3>2 DEF InQueue, InWork
  <2> QED
    BY <2>0, <2>1, <2>2, <2>3 DEF InQueue
<1>3. CASE Elsewhere \/ UNCHANGED vars
  <2>1. UNCHANGED <<rows, posts, request, pc, job, faults>>
    BY <1>3, ElsewhereStep DEF table, api, work
  <2>2. InQueue(j)
    BY <2>1 DEF Exists
  <2>3. UNCHANGED <<task, queued>>
    BY <1>3, <2>1 DEF Elsewhere, InProgressExpires, PickedIsInHand, ResultExpires, SwapGraph, EnqueueUpdates,
       vars, redis
  <2> QED
    BY <2>1, <2>2, <2>3 DEF InQueue, InWork
<1>4. CASE CrashServer
  BY <1>4, CrashServerStep
<1> QED
  BY <1>1, <1>2, <1>3, <1>4, WhoSteps

LEMMA NextWait ==
  ASSUME TypeOK, TypeOK', JobsInv, WaitInv, [Next]_vars
  PROVE  WaitInv'
<1>1. NamesAreNew' /\ FirstTasksAreNew' /\ BegunIsNotQueued' /\ PickedIsInHand'
  BY NextNew, NextFirst, NextBegun, NextPicked DEF JobsInv, WaitInv
<1>2. faults' = 0 => faults = 0
  BY WhoSteps, ServerStep, WorkerStep, ElsewhereStep, CrashServerStep
<1>3. ASSUME faults' = 0, NEW j \in Jobs, Exists(j)', rows'[j].status = "Compressing"
      PROVE  InWork(j, Working)'
  BY <1>2, <1>3, NextInWork DEF JobsInv, WaitInv, WaitingJobsAreInWork
<1>4. ASSUME faults' = 0, NEW j \in Jobs, Exists(j)', rows'[j].status = "Queued", posts'[NameOf(j)] = 1
      PROVE  InQueue(j)'
  BY <1>2, <1>4, NextInQueue DEF JobsInv, WaitInv, WaitingJobsAreInWork, InQueue
<1>5. WaitingJobsAreInWork'
  BY <1>3, <1>4 DEF WaitingJobsAreInWork, InQueue
<1> QED
  BY <1>1, <1>5 DEF WaitInv

(* As long as nothing fails, no job is forgotten, however many workers     *)
(* there are: what says Compressing is in a worker's hands, and what says  *)
(* Queued is in the queue or on its way to it, if its name was posted once. *)
THEOREM NoJobIsForgotten == Spec => []WaitingJobsAreInWork
<1>1. WaitInv => WaitingJobsAreInWork
  BY DEF WaitInv
<1> QED
  BY <1>1, InitWait, NextWait, TypeCorrect, JobsInvHolds, PTL DEF Spec

-----------------------------------------------------------------------------
(* One worker: what is written into a directory.                           *)

LEMMA InitWhole == Init => WholeInv
<1> SUFFICES ASSUME Init PROVE WholeInv
  OBVIOUS
<1>1. /\ \A j \in Jobs : ~ Exists(j)
      /\ \A r \in Requests : request[r].at = "idle"
      /\ \A w \in Workers : pc[w] = "idle" /\ job[w] = NoJob /\ file[w] = "closed" /\ ~ ok[w]
  BY DEF Init, Exists, Idle
<1> QED
  BY <1>1 DEF WholeInv, RowsAreTrue, ZipsGrow, CompletedPackagesAreWhole, Working

(* The only job of a name that was posted once.                            *)
LEMMA FirstIsOnly ==
  ASSUME TypeOK, NEW i \in Jobs, NEW j \in Jobs, Posted(i), Posted(j),
         NameOf(i) = NameOf(j), posts[NameOf(j)] = 1
  PROVE  i = j
  BY DEF Jobs, NameOf, Posted

(* A handler leaves alone what belongs to the only job of a name that has a *)
(* row.                                                                    *)
LEMMA ServerSparesTheOnlyJob ==
  ASSUME TypeOK, JobsAreNumbered, RowsAreTrue, NEW r \in Requests, Serves(r),
         NEW j \in Jobs, Posted(j), rows'[j] # NoJob
  PROVE  /\ rows'[j] = rows[j] /\ Exists(j)
         /\ posts'[NameOf(j)] = 1 =>
              /\ posts[NameOf(j)] = 1 /\ output'[NameOf(j)] = output[NameOf(j)]
              /\ \A w \in Workers : job[w] = j => file'[w] = file[w]
<1>0. j[2] \in Nat /\ j[2] >= 1 /\ NameOf(j) \in Names /\ posts[NameOf(j)] \in Nat /\ posts[NameOf(j)] >= 1
  BY DEF TypeOK, Jobs, NameOf, Posted
<1>1. ASSUME NEW i \in Jobs, PostsRow(r, i)
      PROVE  i # j /\ (posts'[NameOf(j)] = 1 => NameOf(i) # NameOf(j))
  <2>1. posts'[NameOf(i)] = posts[NameOf(i)] + 1 /\ i[2] = posts'[NameOf(i)] /\ j[2] <= posts[NameOf(j)]
    BY <1>1, NumbersGrow DEF Posted
  <2> QED
    BY <1>0, <2>1
<1>2. ASSUME NEW i \in Jobs, PostsRow(r, i)
      PROVE  /\ rows'[j] = rows[j] /\ Exists(j)
             /\ posts'[NameOf(j)] = 1 =>
                  posts[NameOf(j)] = 1 /\ output'[NameOf(j)] = output[NameOf(j)] /\ file' = file
  <2>1. rows'[j] = rows[j] /\ Exists(j)
    BY <1>1, <1>2 DEF PostsRow, Exists
  <2>2. posts'[NameOf(j)] \in Nat /\ posts'[NameOf(j)] >= posts[NameOf(j)]
    BY <1>2, NumbersGrow
  <2>3. posts'[NameOf(j)] = 1 => posts[NameOf(j)] = 1
    BY <1>0, <2>2
  <2>4. posts'[NameOf(j)] = 1 => output'[NameOf(j)] = output[NameOf(j)]
    BY <1>0, <1>1, <1>2 DEF PostsRow
  <2> QED
    BY <1>2, <2>1, <2>3, <2>4 DEF PostsRow
<1>3. CASE RemovesRow(r) \/ TouchesTasks(r)
  BY <1>3 DEF RemovesRow, TouchesTasks, Exists
<1>4. CASE RemovesFiles(r)
  <2>1. request[r].for \in Jobs /\ Posted(request[r].for)
    BY <1>4, Hands DEF RemovesFiles, JobsAreNumbered, TypeOK
  <2>2. Exists(j) /\ ~ Exists(request[r].for) /\ posts' = posts /\ rows' = rows
    BY <1>4 DEF RemovesFiles, RowsAreTrue, Exists
  <2>3. posts[NameOf(j)] = 1 => NameOf(request[r].for) # NameOf(j)
    BY <2>1, <2>2, FirstIsOnly
  <2> QED
    BY <1>0, <1>4, <2>2, <2>3 DEF RemovesFiles
<1> QED
  BY <1>2, <1>3, <1>4, ServerStep

LEMMA NextTrue ==
  ASSUME TypeOK, TypeOK', OneWorker, JobsAreNumbered, RowsAreTrue, [Next]_vars
  PROVE  RowsAreTrue'
<1> USE DEF Working
<1>1. ASSUME NEW r \in Requests, Serves(r) PROVE RowsAreTrue'
  <2>0. /\ UNCHANGED <<pc, job, ok>> /\ \A q \in Requests \ {r} : request'[q] = request[q]
    BY <1>1, ServerStep
  <2>1. ASSUME NEW w \in Workers, pc[w] \in Working, rows'[job[w]] # NoJob
        PROVE  rows'[job[w]].status = "Compressing"
    <3>1. job[w] \in Jobs /\ Posted(job[w])
      BY <2>1, Hands DEF JobsAreNumbered, TypeOK
    <3>2. rows'[job[w]] = rows[job[w]] /\ Exists(job[w])
      BY <1>1, <2>1, <3>1, ServerSparesTheOnlyJob
    <3> QED
      BY <2>1, <3>2 DEF RowsAreTrue
  <2>2. ASSUME NEW w \in Workers, file'[w] # "closed" PROVE pc[w] = "write"
    BY <1>1, <2>2, ServerStep DEF PostsRow, RemovesRow, RemovesFiles, TouchesTasks, RowsAreTrue
  <2>3. ASSUME NEW q \in Requests, request'[q].at \in {"empty", "rmdir"}
        PROVE  rows'[request'[q].for] = NoJob
    <3>1. CASE request[q].at \in {"empty", "rmdir"} /\ request'[q].for = request[q].for
      <4>1. request[q].for \in Jobs /\ Posted(request[q].for) /\ ~ Exists(request[q].for)
        BY <3>1, Hands DEF JobsAreNumbered, RowsAreTrue, TypeOK
      <4> QED
        BY <1>1, <3>1, <4>1, ServerSparesTheOnlyJob
    <3>2. CASE q = r /\ RemovesRow(r)
      BY <3>2 DEF RemovesRow
    <3> QED
      BY <1>1, <2>0, <2>3, <3>1, <3>2, ServerStep DEF PostsRow, RemovesFiles, TouchesTasks, Idle
  <2> QED
    BY <2>0, <2>1, <2>2, <2>3 DEF RowsAreTrue, Exists
<1>2. ASSUME NEW w \in Workers, Works(w) PROVE RowsAreTrue'
  <2>0. /\ request' = request /\ \A v \in Workers : v = w
        /\ \A j \in Jobs : rows'[j] # NoJob <=> Exists(j)
    BY <1>2, WorkerStep DEF KeepsRows, OneWorker
  <2>1. /\ pc'[w] \in Working /\ rows'[job'[w]] # NoJob => rows'[job'[w]].status = "Compressing"
        /\ file'[w] # "closed" => pc'[w] = "write"
        /\ ok'[w] => pc'[w] = "commit"
    <3> USE DEF RowsAreTrue, Goes, At, Exists, table, disk, work
    <3>1. CASE \/ \E n \in Names : DropExpired(w, n) \/ PickCreate(w, n)
               \/ \E j \in Jobs : NextUpdate(w, j)
      BY <3>1 DEF TypeOK, DropExpired, PickCreate, NextUpdate
    <3>2. CASE PickUpdate(w) \/ UpdateDone(w) \/ LockGraph(w) \/ NoTiles(w) \/ NoDirectory(w) \/ ZipFails(w)
      BY <3>2 DEF TypeOK, PickUpdate, UpdateDone, LockGraph, NoTiles, NoDirectory, ZipFails
    <3>3. CASE OpenZip(w) \/ CloseZip(w) \/ Finish(w) \/ CrashWorker(w)
      BY <3>3 DEF TypeOK, OpenZip, CloseZip, Finish, CrashWorker
    <3>4. CASE Begin(w)
      <4>1. job[w] \in Jobs /\ rows[job[w]] \in Row /\ rows' = [rows EXCEPT ![job[w]].status = "Compressing"]
        BY <3>4, Hands, RowTypes DEF Begin, Started
      <4>2. rows'[job[w]].status = "Compressing"
        BY <4>1 DEF TypeOK, Row
      <4> QED
        BY <3>4, <4>2 DEF TypeOK, Begin
    <3>5. CASE JobIsGone(w) \/ Commit(w)
      BY <3>5, ReturnType DEF JobIsGone, Commit
    <3>6. CASE WriteMeta(w)
      BY <3>6 DEF TypeOK, WriteMeta
    <3>7. CASE Cleanup(w)
      <4>1. file' = file \/ Unlink(Mine(w))
        BY <3>7 DEF Cleanup
      <4>2. /\ pc[w] = "cleanup" /\ file[w] = "closed" /\ rows' = rows /\ job' = job /\ ok' = ok
            /\ pc'[w] = "commit"
        BY <3>7 DEF Cleanup, TypeOK
      <4>3. file'[w] = "closed"
        BY <4>1, <4>2 DEF Unlink
      <4> QED
        BY <4>2, <4>3
    <3>8. CASE CleanupFails(w)
      <4>1. /\ pc[w] = "cleanup" /\ file[w] = "closed" /\ rows' = rows /\ job' = job /\ ok' = ok
            /\ pc'[w] = "commit" /\ (file' = file \/ Unlink(Mine(w)))
        BY <3>8, CleanupFailsStep DEF TypeOK
      <4>2. file'[w] = "closed"
        BY <4>1 DEF Unlink
      <4> QED
        BY <4>1, <4>2
    <3> QED
      BY <1>2, <3>1, <3>2, <3>3, <3>4, <3>5, <3>6, <3>7, <3>8 DEF Works, WorkerGoesOn
  <2>2. ASSUME NEW q \in Requests, request[q].at \in {"empty", "rmdir"}
        PROVE  rows'[request[q].for] = NoJob
    BY <2>0, <2>2, Hands DEF RowsAreTrue
  <2> QED
    BY <2>0, <2>1, <2>2 DEF RowsAreTrue, Exists
<1>3. CASE CrashServer
  BY <1>3, CrashServerStep DEF RowsAreTrue, Exists, table, work
<1>4. CASE Elsewhere \/ UNCHANGED vars
  BY <1>4, ElsewhereStep DEF RowsAreTrue, Exists, table, api, work
<1> QED
  BY <1>1, <1>2, <1>3, <1>4, WhoSteps

LEMMA NextGrow ==
  ASSUME TypeOK, TypeOK', OneWorker, JobsAreNumbered, RowsAreTrue, ZipsGrow, [Next]_vars
  PROVE  ZipsGrow'
<1> SUFFICES ASSUME NEW w \in Workers, job'[w] # NoJob, rows'[job'[w]] # NoJob, posts'[NameOf(job'[w])] = 1
             PROVE  /\ pc'[w] = "write" => file'[w] = "linked" /\ output'[NameOf(job'[w])] = "partial"
                    /\ pc'[w] = "meta" \/ (pc'[w] = "commit" /\ ok'[w])
                         => output'[NameOf(job'[w])] = "whole"
  BY DEF ZipsGrow, Exists, Mine
<1>1. ASSUME NEW r \in Requests, Serves(r)
      PROVE  /\ UNCHANGED <<pc, job, ok>> /\ Exists(job[w]) /\ posts[Mine(w)] = 1
             /\ output'[Mine(w)] = output[Mine(w)] /\ file'[w] = file[w]
  <2>1. UNCHANGED <<pc, job, ok>>
    BY <1>1, ServerStep
  <2>2. job[w] \in Jobs /\ Posted(job[w])
    BY <2>1 DEF JobsAreNumbered, TypeOK
  <2> QED
    BY <1>1, <2>1, <2>2, ServerSparesTheOnlyJob DEF Mine
<1>2. CASE Works(w)
  <2>0. posts' = posts /\ \A v \in Workers : v = w
    BY <1>2, WorkerStep DEF OneWorker
  <2> USE DEF Goes, At
  <2>1. CASE OpenZip(w)
    <3>1. pc[w] = "open" /\ pc' = [pc EXCEPT ![w] = "write"] /\ job' = job /\ Mine(w) \in Names
          /\ file' = [file EXCEPT ![w] = "linked"]
      BY <2>1, Hands DEF OpenZip
    <3>2. file[w] = "closed"
      BY <3>1 DEF RowsAreTrue
    <3>3. Writers(Mine(w)) = {}
      BY <2>0, <3>2 DEF Writers
    <3>4. output' = [output EXCEPT ![Mine(w)] = "partial"]
      BY <2>1, <3>3 DEF OpenZip
    <3> QED
      BY <3>1, <3>4 DEF Mine, TypeOK
  <2>2. CASE CloseZip(w)
    <3>1. pc[w] = "write" /\ pc' = [pc EXCEPT ![w] = "meta"] /\ job' = job /\ rows' = rows
          /\ Mine(w) \in Names
      BY <2>2, Hands DEF CloseZip, table
    <3>2. file[w] = "linked" /\ output[Mine(w)] = "partial"
      BY <2>0, <3>1 DEF ZipsGrow, Exists, Mine
    <3>3. output' = [output EXCEPT ![Mine(w)] = "whole"]
      BY <2>2, <3>2 DEF CloseZip
    <3> QED
      BY <3>1, <3>3 DEF Mine, TypeOK
  <2>3. CASE WriteMeta(w)
    <3>1. pc[w] = "meta" /\ job' = job /\ rows' = rows /\ Mine(w) \in Names
          /\ pc'[w] \in {"cleanup", "commit"}
      BY <2>3, Hands DEF WriteMeta, table, TypeOK
    <3>2. output[Mine(w)] = "whole"
      BY <2>0, <3>1 DEF ZipsGrow, Exists, Mine
    <3>3. output'[Mine(w)] = "whole"
      BY <2>3, <3>1, <3>2 DEF WriteMeta, TypeOK
    <3> QED
      BY <3>1, <3>3 DEF Mine
  <2>4. CASE \/ \E n \in Names : DropExpired(w, n) \/ PickCreate(w, n)
             \/ \E j \in Jobs : NextUpdate(w, j)
    BY <2>4 DEF TypeOK, DropExpired, PickCreate, NextUpdate, work
  <2>5. CASE PickUpdate(w) \/ UpdateDone(w) \/ Begin(w) \/ LockGraph(w) \/ NoTiles(w)
             \/ NoDirectory(w) \/ ZipFails(w) \/ Finish(w) \/ CrashWorker(w)
    BY <2>5 DEF TypeOK, PickUpdate, UpdateDone, Begin, LockGraph, NoTiles, NoDirectory,
                ZipFails, Finish, CrashWorker
  <2>6. CASE JobIsGone(w) \/ Commit(w)
    BY <2>6, ReturnType DEF JobIsGone, Commit
  <2>7. CASE Cleanup(w)
    <3>1. pc[w] = "cleanup" /\ pc'[w] = "commit" /\ ok' = ok
      BY <2>7 DEF Cleanup, TypeOK
    <3> QED
      BY <3>1 DEF RowsAreTrue
  <2>8. CASE CleanupFails(w)
    <3>1. pc[w] = "cleanup" /\ pc'[w] = "commit" /\ ok' = ok
      BY <2>8, CleanupFailsStep DEF TypeOK
    <3> QED
      BY <3>1 DEF RowsAreTrue
  <2> QED
    BY <1>2, <2>1, <2>2, <2>3, <2>4, <2>5, <2>6, <2>7, <2>8 DEF Works, WorkerGoesOn
<1>3. ASSUME CrashServer \/ Elsewhere \/ UNCHANGED vars
      PROVE  /\ UNCHANGED <<pc, job, ok>> /\ Exists(job[w]) /\ posts[Mine(w)] = 1
             /\ output'[Mine(w)] = output[Mine(w)] /\ file'[w] = file[w]
  BY <1>3, CrashServerStep, ElsewhereStep DEF table, disk, work, Exists, Mine
<1>4. CASE /\ UNCHANGED <<pc, job, ok>> /\ Exists(job[w]) /\ posts[Mine(w)] = 1
           /\ output'[Mine(w)] = output[Mine(w)] /\ file'[w] = file[w]
  BY <1>4 DEF ZipsGrow, Mine
<1> QED
  BY <1>1, <1>2, <1>3, <1>4, WhoSteps DEF OneWorker

LEMMA NextWhole ==
  ASSUME TypeOK, TypeOK', OneWorker, JobsAreNumbered, WholeInv, [Next]_vars
  PROVE  CompletedPackagesAreWhole'
<1> USE DEF WholeInv
<1> SUFFICES ASSUME NEW j \in Jobs, rows'[j] # NoJob, rows'[j].status = "Completed", posts'[NameOf(j)] = 1
             PROVE  output'[NameOf(j)] = "whole"
  BY DEF CompletedPackagesAreWhole, Exists
<1>0. CASE /\ rows'[j] = rows[j] /\ posts[NameOf(j)] = 1 /\ output'[NameOf(j)] = output[NameOf(j)]
  BY <1>0 DEF CompletedPackagesAreWhole, Exists
<1>1. ASSUME NEW r \in Requests, Serves(r)
      PROVE  /\ rows'[j] = rows[j] /\ posts[NameOf(j)] = 1 /\ output'[NameOf(j)] = output[NameOf(j)]
  <2>1. rows'[j] = rows[j]
    BY <1>1, ServerStep DEF PostsRow, RemovesRow, RemovesFiles, TouchesTasks
  <2>2. Posted(j)
    BY <2>1 DEF JobsAreNumbered, Exists
  <2> QED
    BY <1>1, <2>2, ServerSparesTheOnlyJob
<1>2. ASSUME NEW w \in Workers, Works(w) PROVE output'[NameOf(j)] = "whole"
  <2>0. /\ posts' = posts /\ Exists(j) /\ NameOf(j) \in Names /\ KeepsRows(w) /\ KeepsNames(w)
    BY <1>2, WorkerStep DEF KeepsRows, Exists, Jobs, NameOf
  <2>1. CASE job[w] # j
    <3>1. job[w] = NoJob \/ NameOf(j) # Mine(w)
      <4>1. Posted(j) /\ (job[w] # NoJob => job[w] \in Jobs /\ Posted(job[w]))
        BY <2>0 DEF JobsAreNumbered, TypeOK
      <4> QED
        BY <2>0, <2>1, <4>1, FirstIsOnly DEF Mine
    <3>2. output'[NameOf(j)] = output[NameOf(j)] /\ rows'[j] = rows[j]
      BY <2>0, <2>1, <3>1 DEF KeepsNames, KeepsRows
    <3> QED
      BY <1>0, <2>0, <3>2
  <2>2. CASE job[w] = j /\ pc[w] \in {"idle", "next", "finish"}
    BY <2>2, Hands, <1>0, <2>0, <1>2
       DEF Works, WorkerGoesOn, DropExpired, PickCreate, PickUpdate, NextUpdate, UpdateDone, Begin, JobIsGone,
           LockGraph, NoTiles, OpenZip, NoDirectory, CloseZip, ZipFails, WriteMeta, Cleanup, CleanupFails,
           Commit, Finish, CrashWorker, table, disk, At
  <2>3. CASE job[w] = j /\ pc[w] = "begin"
    <3>1. CASE Begin(w)
      <4>1. rows[j] \in Row /\ rows' = [rows EXCEPT ![j].status = "Compressing"]
        BY <2>0, <2>3, <3>1, RowTypes DEF Begin, Started
      <4>2. rows'[j].status = "Compressing"
        BY <4>1 DEF TypeOK, Row
      <4> QED
        BY <4>2
    <3>2. CASE JobIsGone(w)
      BY <2>0, <2>3, <3>2 DEF JobIsGone
    <3>3. CASE CrashWorker(w)
      BY <1>0, <2>0, <3>3 DEF CrashWorker, table, disk
    <3> QED
      BY <1>2, <2>3, <3>1, <3>2, <3>3
         DEF Works, WorkerGoesOn, DropExpired, PickCreate, PickUpdate, NextUpdate, UpdateDone,
             LockGraph, NoTiles, OpenZip, NoDirectory, CloseZip, ZipFails, WriteMeta, Cleanup, CleanupFails,
             Commit, Finish, At
  <2>4. CASE job[w] = j /\ pc[w] \in Working
    <3>1. rows[j].status = "Compressing"
      BY <2>0, <2>4 DEF RowsAreTrue
    <3>2. rows' # rows
      BY <3>1
    <3>3. Commit(w)
      BY <1>2, <2>4, <3>2
         DEF Works, WorkerGoesOn, DropExpired, PickCreate, PickUpdate, NextUpdate, UpdateDone, Begin, JobIsGone,
             LockGraph, NoTiles, OpenZip, NoDirectory, CloseZip, ZipFails, WriteMeta, Cleanup, CleanupFails,
             Finish, CrashWorker, table, At, Working
    <3>4. rows[j] \in Row /\ rows' = [rows EXCEPT ![j].status = FinalStatus(w)] /\ output' = output
          /\ pc[w] = "commit"
      BY <2>0, <2>4, <3>3, RowTypes DEF Commit, Commits, disk, At
    <3>5. rows'[j].status = FinalStatus(w)
      BY <3>4 DEF TypeOK, Row
    <3>6. ok[w]
      BY <3>5 DEF FinalStatus
    <3> QED
      BY <2>0, <2>4, <3>4, <3>6 DEF ZipsGrow, Mine
  <2> QED
    BY <2>1, <2>2, <2>3, <2>4 DEF TypeOK, WorkerSteps, Working
<1>3. CASE CrashServer \/ Elsewhere \/ UNCHANGED vars
  BY <1>0, <1>3, CrashServerStep, ElsewhereStep DEF table, disk
<1> QED
  BY <1>0, <1>1, <1>2, <1>3, WhoSteps

(* What is Completed can be downloaded in full, unless its name was posted *)
(* a second time, where one worker runs.                                   *)
THEOREM CompletedMeansWhole ==
  ASSUME OneWorker
  PROVE  Spec => []CompletedPackagesAreWhole
<1>1. TypeOK /\ TypeOK' /\ JobsInv /\ WholeInv /\ [Next]_vars => WholeInv'
  BY NextTrue, NextGrow, NextWhole DEF JobsInv, WholeInv
<1>2. Spec => []WholeInv
  BY <1>1, InitWhole, TypeCorrect, JobsInvHolds, PTL DEF Spec
<1>3. WholeInv => CompletedPackagesAreWhole
  BY DEF WholeInv
<1> QED
  BY <1>2, <1>3, PTL

-----------------------------------------------------------------------------
(* One worker: which graph a package is made from.                         *)

LEMMA InitKeepUp == Init => KeepUpInv
<1> SUFFICES ASSUME Init PROVE KeepUpInv
  OBVIOUS
<1>1. (\A j \in Jobs : ~ Exists(j)) /\ (\A w \in Workers : pc[w] = "idle")
  BY DEF Init, Exists
<1> QED
  BY <1>1 DEF KeepUpInv, WorkIsUpToDate, UpdatesAreAhead, UpdateJobs

(* What a step of anybody but the worker leaves: no older graph, the same   *)
(* work, and every package that is Completed.                              *)
LEMMA OthersKeepUp ==
  ASSUME TypeOK, TypeOK', [Next]_vars, \A w \in Workers : ~ Works(w), faults' = 0, updates' = 0
  PROVE  /\ faults = 0 /\ updates = 0
         /\ UNCHANGED <<announced, madeFrom, pc, job, updating, todo, source, ok>>
         /\ \A j \in Jobs : rows'[j] # NoJob /\ rows'[j].status = "Completed" => rows'[j] = rows[j]
<1>1. ASSUME NEW r \in Requests, Serves(r)
      PROVE  /\ faults = 0 /\ updates = 0
             /\ UNCHANGED <<announced, madeFrom, pc, job, updating, todo, source, ok>>
             /\ \A j \in Jobs : rows'[j] # NoJob /\ rows'[j].status = "Completed" => rows'[j] = rows[j]
  <2>1. ASSUME NEW i \in Jobs, PostsRow(r, i), NEW j \in Jobs,
               rows'[j] # NoJob, rows'[j].status = "Completed"
        PROVE  rows'[j] = rows[j]
    BY <2>1 DEF PostsRow
  <2>2. ASSUME RemovesRow(r) \/ RemovesFiles(r) \/ TouchesTasks(r), NEW j \in Jobs, rows'[j] # NoJob
        PROVE  rows'[j] = rows[j]
    BY <2>2 DEF RemovesRow, RemovesFiles, TouchesTasks
  <2> QED
    BY <1>1, <2>1, <2>2, ServerStep DEF build
<1>2. CASE Elsewhere \/ UNCHANGED vars
  <2>1. updates \in Nat /\ updates' \in Nat
    BY DEF TypeOK
  <2> QED
    BY <1>2, <2>1, ElsewhereStep DEF table, disk, work
<1> QED
  BY <1>1, <1>2, WhoSteps, CrashServerStep

LEMMA NextUpToDate ==
  ASSUME TypeOK, TypeOK', OneWorker, RowsAreTrue, UpdatesAreWanted, WorkIsUpToDate, [Next]_vars
  PROVE  WorkIsUpToDate'
<1> SUFFICES ASSUME faults' = 0, updates' = 0, NEW w \in Workers
             PROVE  /\ pc'[w] \in {"open", "write", "meta"} => source'[w] >= announced'
                    /\ pc'[w] \in {"write", "meta"} \/ (pc'[w] = "commit" /\ ok'[w])
                         => madeFrom'[NameOf(job'[w])] >= announced'
  BY DEF WorkIsUpToDate, Mine
<1>1. CASE ~ Works(w)
  <2>1. \A v \in Workers : ~ Works(v)
    BY <1>1 DEF OneWorker
  <2> QED
    BY <2>1, OthersKeepUp DEF WorkIsUpToDate, Mine
<1>2. CASE Works(w)
  <2>0. faults = 0 /\ announced' = announced /\ (pc[w] \notin {"idle", "next"} => Mine(w) \in Names)
    BY <1>2, WorkerStep, Hands DEF build
  <2> USE DEF Goes, At, redis
  <2>1. CASE \/ \E n \in Names : DropExpired(w, n) \/ PickCreate(w, n)
             \/ \E j \in Jobs : NextUpdate(w, j)
    BY <2>1 DEF TypeOK, DropExpired, PickCreate, NextUpdate, work
  <2>2. CASE \/ PickUpdate(w) \/ UpdateDone(w) \/ Begin(w) \/ NoTiles(w) \/ NoDirectory(w)
             \/ ZipFails(w) \/ Finish(w) \/ CrashWorker(w)
    BY <2>2 DEF TypeOK, PickUpdate, UpdateDone, Begin, NoTiles, NoDirectory, ZipFails, Finish, CrashWorker
  <2>3. CASE JobIsGone(w) \/ Commit(w)
    BY <2>3, ReturnType DEF JobIsGone, Commit
  <2>4. CASE Cleanup(w) \/ CleanupFails(w)
    <3>1. ~ ok[w] /\ ok' = ok /\ pc'[w] = "commit"
      BY <2>4, CleanupFailsStep DEF Cleanup, RowsAreTrue, TypeOK
    <3> QED
      BY <3>1
  <2>5. CASE LockGraph(w)
    <3>1. source'[w] = graph /\ pc'[w] = "open" /\ graph >= announced
      BY <2>5 DEF LockGraph, TypeOK
    <3> QED
      BY <2>0, <3>1
  <2>6. CASE OpenZip(w)
    <3>1. updates = 0 /\ pc[w] = "open" /\ pc'[w] = "write" /\ job' = job /\ source' = source
      BY <2>6 DEF OpenZip, TypeOK
    <3>2. madeFrom'[Mine(w)] = source[w]
      BY <2>0, <2>6, <3>1 DEF OpenZip, TypeOK
    <3>3. source[w] >= announced
      BY <2>0, <3>1 DEF WorkIsUpToDate
    <3> QED
      BY <2>0, <3>1, <3>2, <3>3 DEF Mine
  <2>7. CASE CloseZip(w) \/ WriteMeta(w)
    <3>1. /\ updates = 0 /\ pc[w] \in {"write", "meta"}
          /\ job' = job /\ source' = source /\ madeFrom' = madeFrom
      BY <2>7 DEF CloseZip, WriteMeta
    <3>2. source[w] >= announced /\ madeFrom[Mine(w)] >= announced
      BY <2>0, <3>1 DEF WorkIsUpToDate
    <3> QED
      BY <2>0, <3>1, <3>2 DEF Mine
  <2> QED
    BY <1>2, <2>1, <2>2, <2>3, <2>4, <2>5, <2>6, <2>7 DEF Works, WorkerGoesOn
<1> QED
  BY <1>1, <1>2

LEMMA NextAhead ==
  ASSUME TypeOK, TypeOK', OneWorker, RowsAreTrue, UpdatesAreWanted, KeepUpInv, [Next]_vars
  PROVE  UpdatesAreAhead'
<1> USE DEF KeepUpInv
<1> SUFFICES ASSUME faults' = 0, updates' = 0, NEW j \in Jobs,
                    rows'[j] # NoJob, rows'[j].update, rows'[j].status = "Completed"
             PROVE  \/ madeFrom'[NameOf(j)] >= announced'
                    \/ \E w \in Workers :
                         updating'[w] /\ (j \in todo'[w] \/ (j = job'[w] /\ pc'[w] = "begin"))
  BY DEF UpdatesAreAhead, UpdateJobs, Exists
<1>1. CASE \A w \in Workers : ~ Works(w)
  <2>1. /\ faults = 0 /\ updates = 0 /\ rows'[j] = rows[j]
        /\ UNCHANGED <<announced, madeFrom, pc, job, updating, todo>>
    BY <1>1, OthersKeepUp
  <2>2. j \in UpdateJobs
    BY <2>1 DEF UpdateJobs, Exists
  <2> QED
    BY <2>1, <2>2 DEF UpdatesAreAhead
<1>2. ASSUME NEW w \in Workers, Works(w)
      PROVE  \/ madeFrom'[NameOf(j)] >= announced'
             \/ updating'[w] /\ (j \in todo'[w] \/ (j = job'[w] /\ pc'[w] = "begin"))
  <2>0. /\ faults = 0 /\ announced' = announced /\ NameOf(j) \in Names
        /\ Exists(j) /\ rows[j].update /\ (j # job[w] => rows'[j] = rows[j])
        /\ ~ CrashWorker(w) /\ \A v \in Workers : v = w
    <3>1. ~ CrashWorker(w)
      BY DEF CrashWorker, Fault, TypeOK
    <3> QED
      BY <1>2, <3>1, WorkerStep DEF build, KeepsRows, Exists, Jobs, NameOf, OneWorker
  <2> USE DEF Goes, At, redis, work, table, disk
  <2>1. CASE PickUpdate(w)
    <3>1. rows' = rows /\ todo'[w] = UpdateJobs /\ updating'[w]
      BY <2>1 DEF PickUpdate, TypeOK
    <3> QED
      BY <2>0, <3>1 DEF UpdateJobs
  <2>2. CASE ~ PickUpdate(w)
    <3>1. updates = 0
      BY <1>2, <2>0, <2>2
         DEF Works, WorkerGoesOn, DropExpired, PickCreate, NextUpdate, UpdateDone, Begin, JobIsGone,
             LockGraph, NoTiles, OpenZip, NoDirectory, CloseZip, ZipFails, WriteMeta, Cleanup, CleanupFails,
             Commit, Finish
    <3>2. \A n \in Names : madeFrom'[n] = madeFrom[n] \/ madeFrom'[n] >= announced
      <4>1. CASE OpenZip(w)
        <5>1. pc[w] = "open" /\ madeFrom' = [madeFrom EXCEPT ![Mine(w)] = source[w]]
          BY <4>1 DEF OpenZip
        <5>2. source[w] >= announced
          BY <2>0, <3>1, <5>1 DEF WorkIsUpToDate
        <5> QED
          BY <5>1, <5>2 DEF TypeOK
      <4>2. CASE ~ OpenZip(w)
        BY <1>2, <2>0, <2>2, <4>2
           DEF Works, WorkerGoesOn, DropExpired, PickCreate, NextUpdate, UpdateDone, Begin, JobIsGone,
               LockGraph, NoTiles, NoDirectory, CloseZip, ZipFails, WriteMeta, Cleanup, CleanupFails, Commit,
               Finish
      <4> QED
        BY <4>1, <4>2
    <3>3. CASE j # job[w]
      <4>1. madeFrom[NameOf(j)] >= announced \/ (updating[w] /\ j \in todo[w])
        BY <2>0, <3>1, <3>3 DEF UpdatesAreAhead, UpdateJobs
      <4>2. CASE madeFrom[NameOf(j)] >= announced
        BY <2>0, <3>2, <4>2
      <4>3. CASE updating[w] /\ j \in todo[w]
        <5>1. CASE \E i \in Jobs : NextUpdate(w, i)
          BY <4>3, <5>1 DEF NextUpdate, TypeOK
        <5>2. CASE UpdateDone(w) \/ Finish(w)
          BY <4>3, <5>2 DEF UpdateDone, Finish, UpdatesAreWanted
        <5>3. CASE ~ (\E i \in Jobs : NextUpdate(w, i)) /\ ~ UpdateDone(w) /\ ~ Finish(w)
          <6>1. updating' = updating /\ todo' = todo
            BY <1>2, <2>0, <2>2, <5>3
               DEF Works, WorkerGoesOn, DropExpired, PickCreate, Begin, JobIsGone,
                   LockGraph, NoTiles, OpenZip, NoDirectory, CloseZip, ZipFails, WriteMeta, Cleanup,
                   CleanupFails, Commit
          <6> QED
            BY <4>3, <6>1
        <5> QED
          BY <5>1, <5>2, <5>3
      <4> QED
        BY <4>1, <4>2, <4>3
    <3>4. CASE j = job[w] /\ pc[w] = "begin"
      <4>1. CASE Begin(w)
        <5>1. rows[j] \in Row /\ rows' = [rows EXCEPT ![j].status = "Compressing"]
          BY <2>0, <3>4, <4>1, RowTypes DEF Begin, Started
        <5>2. rows'[j].status = "Compressing"
          BY <5>1 DEF TypeOK, Row
        <5> QED
          BY <5>2
      <4>2. CASE JobIsGone(w)
        BY <2>0, <3>4, <4>2 DEF JobIsGone
      <4> QED
        BY <1>2, <2>0, <3>4, <4>1, <4>2
           DEF Works, WorkerGoesOn, DropExpired, PickCreate, PickUpdate, NextUpdate, UpdateDone,
               LockGraph, NoTiles, OpenZip, NoDirectory, CloseZip, ZipFails, WriteMeta, Cleanup,
               CleanupFails, Commit, Finish
    <3>5. CASE j = job[w] /\ pc[w] \in Working
      <4>1. rows[j].status = "Compressing" /\ rows' # rows
        BY <2>0, <3>5 DEF RowsAreTrue
      <4>2. Commit(w)
        BY <1>2, <2>0, <3>5, <4>1
           DEF Works, WorkerGoesOn, DropExpired, PickCreate, PickUpdate, NextUpdate, UpdateDone, Begin,
               JobIsGone, LockGraph, NoTiles, OpenZip, NoDirectory, CloseZip, ZipFails, WriteMeta, Cleanup,
               CleanupFails, Finish, Working
      <4>3. rows[j] \in Row /\ rows' = [rows EXCEPT ![j].status = FinalStatus(w)] /\ madeFrom' = madeFrom
            /\ pc[w] = "commit"
        BY <2>0, <3>5, <4>2, RowTypes DEF Commit, Commits
      <4>4. rows'[j].status = FinalStatus(w)
        BY <4>3 DEF TypeOK, Row
      <4>5. ok[w]
        BY <4>4 DEF FinalStatus
      <4>6. madeFrom[NameOf(j)] >= announced
        BY <2>0, <3>1, <3>5, <4>3, <4>5 DEF WorkIsUpToDate, Mine
      <4> QED
        BY <2>0, <4>3, <4>6
    <3>6. CASE j = job[w] /\ pc[w] = "finish"
      <4>1. Finish(w)
        BY <1>2, <2>0, <3>6
           DEF Works, WorkerGoesOn, DropExpired, PickCreate, PickUpdate, NextUpdate, UpdateDone, Begin,
               JobIsGone, LockGraph, NoTiles, OpenZip, NoDirectory, CloseZip, ZipFails, WriteMeta, Cleanup,
               CleanupFails, Commit
      <4>2. ~ updating[w] /\ rows' = rows /\ madeFrom' = madeFrom
        BY <3>6, <4>1 DEF Finish, UpdatesAreWanted
      <4>3. madeFrom[NameOf(j)] >= announced
        BY <2>0, <3>1, <4>2 DEF UpdatesAreAhead, UpdateJobs
      <4> QED
        BY <2>0, <4>2, <4>3
    <3>7. j = job[w] => pc[w] \in {"begin", "finish"} \cup Working
      <4>1. job[w] = j => pc[w] \notin {"idle", "next"}
        BY DEF TypeOK
      <4> QED
        BY <4>1 DEF TypeOK, WorkerSteps, Working
    <3> QED
      BY <3>3, <3>4, <3>5, <3>6, <3>7
  <2> QED
    BY <2>1, <2>2
<1> QED
  BY <1>1, <1>2

(* Where one worker runs, no package is left on an older graph once the     *)
(* updates of the builds went through and nothing failed underneath.       *)
THEOREM PackagesAreKeptUp ==
  ASSUME OneWorker
  PROVE  Spec => []PackagesKeepUp
<1>1. TypeOK /\ TypeOK' /\ JobsInv /\ WholeInv /\ KeepUpInv /\ [Next]_vars => KeepUpInv'
  BY NextUpToDate, NextAhead DEF JobsInv, WholeInv, KeepUpInv
<1>2. TypeOK /\ TypeOK' /\ JobsInv /\ WholeInv /\ [Next]_vars => WholeInv'
  BY NextTrue, NextGrow, NextWhole DEF JobsInv, WholeInv
<1>3. Spec => []KeepUpInv
  BY <1>1, <1>2, InitWhole, InitKeepUp, TypeCorrect, JobsInvHolds, PTL DEF Spec
<1>4. KeepUpInv => PackagesKeepUp
  BY DEF KeepUpInv, UpdatesAreAhead, PackagesKeepUp
<1> QED
  BY <1>3, <1>4, PTL

-----------------------------------------------------------------------------
(* One worker: what clients can count on.                                  *)

(* No package, and no worker about to write one, is ahead of the graph or  *)
(* behind the last package of its name.                                    *)
PackagesFollowGraphs ==
  /\ \A n \in Names : madeFrom[n] <= graph
  /\ \A w \in Workers :
       /\ source[w] <= graph
       /\ pc[w] = "open" => source[w] >= 1 /\ madeFrom[Mine(w)] <= source[w]
       /\ pc[w] \in {"write", "meta"} => madeFrom[Mine(w)] >= 1

LEMMA NextFollow ==
  ASSUME TypeOK, TypeOK', OneWorker, PackagesFollowGraphs, [Next]_vars
  PROVE  PackagesFollowGraphs'
<1>0. graph \in Nat /\ (\A n \in Names : madeFrom[n] \in Nat) /\ (\A w \in Workers : source[w] \in Nat)
  BY DEF TypeOK
<1>1. CASE \A w \in Workers : ~ Works(w)
  <2>1. /\ UNCHANGED <<madeFrom, source, pc, job>>
        /\ graph' = graph \/ graph' = graph + 1
    BY <1>1, WhoSteps, ServerStep, CrashServerStep, ElsewhereStep DEF build, disk, work
  <2> QED
    BY <1>0, <2>1, Hands DEF PackagesFollowGraphs, Mine
<1>2. ASSUME NEW w \in Workers, Works(w) PROVE PackagesFollowGraphs'
  <2>0. /\ graph' = graph /\ \A v \in Workers : v = w
        /\ pc[w] \notin {"idle", "next"} => Mine(w) \in Names
    BY <1>2, WorkerStep, Hands DEF build, OneWorker
  <2>1. /\ \A n \in Names : madeFrom'[n] <= graph
        /\ source'[w] <= graph
        /\ pc'[w] = "open" => source'[w] >= 1 /\ madeFrom'[NameOf(job'[w])] <= source'[w]
        /\ pc'[w] \in {"write", "meta"} => madeFrom'[NameOf(job'[w])] >= 1
    <3> USE DEF PackagesFollowGraphs, Goes, At, disk, work
    <3>1. CASE \/ \E n \in Names : DropExpired(w, n) \/ PickCreate(w, n)
               \/ \E j \in Jobs : NextUpdate(w, j)
      BY <3>1 DEF TypeOK, DropExpired, PickCreate, NextUpdate
    <3>2. CASE \/ PickUpdate(w) \/ UpdateDone(w) \/ Begin(w) \/ NoTiles(w) \/ NoDirectory(w)
               \/ ZipFails(w) \/ Cleanup(w) \/ CleanupFails(w) \/ Finish(w) \/ CrashWorker(w)
      BY <1>0, <3>2 DEF TypeOK, PickUpdate, UpdateDone, Begin, NoTiles, NoDirectory, ZipFails, Cleanup,
                        CleanupFails, Finish, CrashWorker
    <3>3. CASE JobIsGone(w) \/ Commit(w)
      <4>1. madeFrom' = madeFrom /\ source'[w] = 0 /\ pc'[w] \in {"next", "finish"}
        BY <3>3, ReturnType DEF TypeOK, JobIsGone, Commit, Return
      <4> QED
        BY <1>0, <4>1
    <3>4. CASE LockGraph(w)
      <4>1. /\ source'[w] = graph /\ graph > 0 /\ pc'[w] = "open" /\ madeFrom' = madeFrom /\ job' = job
            /\ Mine(w) \in Names
        BY <2>0, <3>4 DEF TypeOK, LockGraph
      <4> QED
        BY <1>0, <4>1 DEF Mine
    <3>5. CASE OpenZip(w)
      <4>1. /\ madeFrom' = [madeFrom EXCEPT ![Mine(w)] = source[w]] /\ source' = source /\ job' = job
            /\ pc[w] = "open" /\ pc'[w] = "write" /\ Mine(w) \in Names
        BY <2>0, <3>5 DEF TypeOK, OpenZip
      <4>2. madeFrom'[Mine(w)] = source[w]
        BY <4>1 DEF TypeOK
      <4> QED
        BY <1>0, <4>1, <4>2 DEF TypeOK, Mine
    <3>6. CASE CloseZip(w) \/ WriteMeta(w)
      <4>1. /\ madeFrom' = madeFrom /\ source' = source /\ job' = job /\ pc[w] \in {"write", "meta"}
            /\ pc'[w] # "open"
        BY <3>6 DEF TypeOK, CloseZip, WriteMeta
      <4> QED
        BY <1>0, <4>1 DEF Mine
    <3> QED
      BY <1>2, <3>1, <3>2, <3>3, <3>4, <3>5, <3>6 DEF Works, WorkerGoesOn
  <2> QED
    BY <2>0, <2>1 DEF PackagesFollowGraphs, Mine
<1> QED
  BY <1>1, <1>2

(* The refinement mapping, by name.                                        *)
Lives == [j \in Jobs |-> StateOf(j)]
Made  == {job[w] : w \in {v \in Workers : ok[v]}}

(* A step that no client can tell.                                         *)
LEMMA UnseenStep ==
  ASSUME UNCHANGED <<rows, posts, madeFrom, graph>>, Made' = Made
  PROVE  UNCHANGED Life!vars
<1>1. Lives' = Lives
  BY DEF Lives, StateOf, Exists
<1> QED
  BY <1>1 DEF Lives, Made, Life!vars

LEMMA InitLives == Init => Life!Init
<1> SUFFICES ASSUME Init PROVE Life!Init
  OBVIOUS
<1>1. \A j \in Jobs : StateOf(j) = "unborn"
  BY DEF Init, StateOf, Exists, Jobs, NameOf
<1>2. Made = {} /\ graph = 0 /\ madeFrom = [n \in Names |-> 0]
  BY DEF Init, Made
<1> QED
  BY <1>1, <1>2 DEF Made, Life!Init, Life!Jobs, Jobs

(* A job that was posted is in the table or is gone.                       *)
LEMMA StatesOfJobs ==
  ASSUME TypeOK, JobsAreNumbered, NEW j \in Jobs
  PROVE  /\ Lives[j] = StateOf(j)
         /\ Exists(j) => Lives[j] \in Statuses
         /\ Posted(j) /\ ~ Exists(j) => Lives[j] = "gone"
         /\ Lives[j] = "unborn" <=> ~ Posted(j)
<1>1. Lives[j] = StateOf(j)
  BY DEF Lives
<1>2. Exists(j) => rows[j].status \in Statuses /\ Posted(j)
  BY RowTypes DEF JobsAreNumbered
<1> QED
  BY <1>1, <1>2 DEF StateOf, Posted, Statuses

(* When nothing but the row of one job changes, only its state does.       *)
LEMMA OneStateChanges ==
  ASSUME TypeOK, NEW j \in Jobs, \A i \in Jobs \ {j} : rows'[i] = rows[i], posts' = posts
  PROVE  Lives' = [Lives EXCEPT ![j] = StateOf(j)']
<1>1. \A i \in Jobs \ {j} : StateOf(i)' = StateOf(i)
  BY DEF StateOf, Exists
<1> QED
  BY <1>1 DEF Lives

LEMMA ServerLives ==
  ASSUME TypeOK, JobsAreNumbered, NEW r \in Requests, Serves(r)
  PROVE  [Life!Next]_(Life!vars)
<1>0. UNCHANGED <<madeFrom, graph, job, ok>> /\ Made' = Made
  BY ServerStep DEF build, Made
<1>1. ASSUME NEW j \in Jobs, PostsRow(r, j) PROVE [Life!Next]_(Life!vars)
  <2>0. /\ NameOf(j) \in Names /\ \A i \in Jobs : i[2] \in Nat /\ NameOf(i) \in Names
        /\ posts \in [Names -> Nat] /\ j[2] = posts[NameOf(j)] + 1
    BY <1>1 DEF TypeOK, Jobs, NameOf, PostsRow
  <2>1. ASSUME NEW i \in Jobs \ {j} PROVE StateOf(i)' = StateOf(i)
    <3>1. rows'[i] = rows[i] /\ posts' = [posts EXCEPT ![NameOf(j)] = @ + 1]
      BY <1>1 DEF PostsRow
    <3>2. NameOf(i) = NameOf(j) => i[2] # j[2]
      BY DEF Jobs, NameOf
    <3>3. i[2] <= posts'[NameOf(i)] <=> i[2] <= posts[NameOf(i)]
      BY <2>0, <3>1, <3>2
    <3> QED
      BY <3>1, <3>3 DEF StateOf, Exists
  <2>2. StateOf(j)' \in {"Queued", "gone"}
    <3>1. posts'[NameOf(j)] = j[2]
      BY <1>1, NumbersGrow
    <3>2. ~ Posted(j)
      BY <2>0 DEF Posted
    <3>3. rows[j] = NoJob
      BY <3>2 DEF JobsAreNumbered, Exists
    <3> QED
      BY <1>1, <2>0, <3>1, <3>3 DEF PostsRow, StateOf, Exists
  <2>3. Lives' = [Lives EXCEPT ![j] = StateOf(j)']
    BY <2>1 DEF Lives
  <2>4. ASSUME NEW i \in Jobs, NameOf(i) = NameOf(j) PROVE i[2] < j[2] <=> Lives[i] # "unborn"
    BY <2>0, <2>4, StatesOfJobs DEF Posted
  <2>5. Lives[j] = "unborn"
    BY <2>0, <2>4
  <2>6. Life!Post(j)
    BY <1>0, <2>2, <2>3, <2>4, <2>5
       DEF Lives, Made, Life!Post, Life!Becomes, Life!Sharing, Life!Jobs, Life!NameOf, Jobs, NameOf
  <2> QED
    BY <2>6 DEF Life!Next, Life!Jobs, Jobs
<1>2. CASE RemovesRow(r)
  <2>1. ASSUME NEW j \in Jobs, request[r].for = j, Exists(j) PROVE [Life!Next]_(Life!vars)
    <3>1. Lives[j] \in Statuses
      BY <2>1, StatesOfJobs
    <3>2. Posted(j) /\ posts' = posts /\ rows'[j] = NoJob
      BY <1>2, <2>1 DEF JobsAreNumbered, RemovesRow
    <3>3. StateOf(j)' = "gone"
      BY <3>2 DEF StateOf, Exists, Posted
    <3>4. Lives' = [Lives EXCEPT ![j] = "gone"]
      BY <1>2, <2>1, <3>3, OneStateChanges DEF RemovesRow
    <3>5. Life!Delete(j)
      BY <1>0, <3>1, <3>4 DEF Lives, Made, Life!Delete, Life!Becomes, Life!Stored, Statuses
    <3> QED
      BY <2>1, <3>5 DEF Life!Next, Life!Jobs, Jobs
  <2>2. CASE ~ (request[r].for \in Jobs /\ Exists(request[r].for))
    <3>1. rows' = [i \in Jobs |-> rows'[i]] /\ rows = [i \in Jobs |-> rows[i]]
      BY ServerType DEF TypeOK, Serves
    <3>2. rows' = rows
      BY <1>2, <2>2, <3>1 DEF RemovesRow, Exists
    <3> QED
      BY <1>0, <1>2, <3>2, UnseenStep DEF RemovesRow
  <2> QED
    BY <2>1, <2>2
<1>3. CASE RemovesFiles(r) \/ TouchesTasks(r)
  BY <1>0, <1>3, UnseenStep DEF RemovesFiles, TouchesTasks
<1> QED
  BY <1>1, <1>2, <1>3, ServerStep

LEMMA WorkerLives ==
  ASSUME TypeOK, OneWorker, JobsAreNumbered, RowsAreTrue, PackagesFollowGraphs, NEW w \in Workers, Works(w)
  PROVE  [Life!Next]_(Life!vars)
<1> DEFINE j == job[w]
<1> USE DEF Goes, At
<1>0. /\ graph' = graph /\ posts' = posts /\ \A v \in Workers : v = w
      /\ \A i \in Jobs : i # j => rows'[i] = rows[i]
  BY WorkerStep DEF build, OneWorker, KeepsRows
<1>1. /\ Made = IF ok[w] THEN {j} ELSE {}
      /\ Made' = IF ok'[w] THEN {job'[w]} ELSE {}
  BY <1>0 DEF Made
<1>2. pc[w] \notin {"idle", "next"} =>
        /\ j \in Jobs /\ j \in Life!Jobs /\ NameOf(j) \in Names /\ Posted(j)
        /\ Life!NameOf(j) = NameOf(j)
  BY Hands DEF Life!Jobs, Jobs, JobsAreNumbered, TypeOK, Mine, Life!NameOf, NameOf
<1>3. pc[w] # "commit" => ~ ok[w]
  BY DEF RowsAreTrue
<1>a. ASSUME NEW i \in Life!Jobs,
             Life!Start(i) \/ Life!Make(i) \/ Life!Complete(i) \/ Life!Fail(i) \/ Life!Forget(i)
      PROVE  Life!Next
  BY <1>a DEF Life!Next
<1>4. pc[w] \in Working => Lives[j] \in {"Compressing", "gone"} /\ (Exists(j) => Lives[j] = "Compressing")
  BY <1>2, StatesOfJobs DEF Working, RowsAreTrue, StateOf
<1> USE DEF table, disk, build, work
<1>5. CASE \/ \E n \in Names : DropExpired(w, n) \/ PickCreate(w, n)
           \/ \E i \in Jobs : NextUpdate(w, i)
           \/ PickUpdate(w) \/ UpdateDone(w) \/ LockGraph(w) \/ NoTiles(w) \/ NoDirectory(w)
           \/ CloseZip(w) \/ ZipFails(w) \/ Finish(w) \/ Cleanup(w) \/ CleanupFails(w) \/ JobIsGone(w)
  <2>1. /\ pc[w] # "commit" /\ (ok' = ok \/ ok' = [ok EXCEPT ![w] = FALSE])
        /\ UNCHANGED <<rows, posts, madeFrom, graph>>
    BY <1>5 DEF DropExpired, PickCreate, NextUpdate, PickUpdate, UpdateDone, LockGraph, NoTiles, NoDirectory,
                CloseZip, ZipFails, Finish, Cleanup, CleanupFails, JobIsGone, Return
  <2>2. ~ ok[w] /\ ~ ok'[w]
    BY <1>3, <2>1 DEF TypeOK
  <2> QED
    BY <1>1, <2>1, <2>2, UnseenStep
<1>6. CASE Begin(w)
  <2>1. pc[w] = "begin" /\ Exists(j) /\ j \in Jobs /\ job' = job /\ ok' = ok /\ madeFrom' = madeFrom
    BY <1>2, <1>6 DEF Begin
  <2>2. rows[j] \in Row /\ rows' = [rows EXCEPT ![j].status = "Compressing"]
    BY <1>6, <2>1, RowTypes DEF Begin, Started
  <2>3. rows'[j].status = "Compressing" /\ rows'[j] # NoJob
    BY <2>1, <2>2, WorkerStep DEF TypeOK, Row, KeepsRows
  <2>4. Lives' = [Lives EXCEPT ![j] = "Compressing"]
    BY <1>0, <2>1, <2>3, OneStateChanges DEF StateOf, Exists
  <2>5. Lives[j] \in Life!Stored
    BY <2>1, StatesOfJobs DEF Life!Stored, Statuses
  <2> HIDE DEF j
  <2>6. Life!Start(j)
    BY <1>0, <2>1, <2>4, <2>5 DEF Lives, Life!Start, Life!Becomes
  <2> QED
    BY <1>a, <1>2, <2>1, <2>6
<1>7. CASE OpenZip(w)
  <2>1. /\ pc[w] = "open" /\ madeFrom' = [madeFrom EXCEPT ![NameOf(j)] = source[w]]
        /\ rows' = rows /\ job' = job /\ ok' = ok
    BY <1>7 DEF OpenZip, Mine
  <2>2. source[w] \in 1 .. graph /\ madeFrom[NameOf(j)] <= source[w]
    BY <2>1 DEF PackagesFollowGraphs, TypeOK, Mine
  <2>3. Lives' = Lives /\ Made' = {} /\ Made = {}
    BY <1>0, <1>1, <1>3, <2>1 DEF Lives, StateOf, Exists
  <2>4. Lives[j] \in {"Compressing", "gone"}
    BY <1>4, <2>1 DEF Working
  <2> HIDE DEF j
  <2>5. Life!Write(j, source[w])
    BY <1>0, <1>2, <2>1, <2>2, <2>3, <2>4 DEF Lives, Made, Life!Write, Life!AtWork
  <2> QED
    BY <1>2, <2>1, <2>2, <2>5 DEF Life!Next
<1>8. CASE WriteMeta(w)
  <2>1. /\ pc[w] = "meta" /\ rows' = rows /\ madeFrom' = madeFrom /\ job' = job
        /\ ok' = ok \/ ok' = [ok EXCEPT ![w] = TRUE]
    BY <1>8 DEF WriteMeta
  <2>2. CASE ok' = ok
    BY <1>0, <1>1, <2>1, <2>2, UnseenStep
  <2>3. CASE ok' = [ok EXCEPT ![w] = TRUE]
    <3>1. Lives' = Lives /\ Made = {} /\ Made' = {j}
      BY <1>0, <1>1, <1>3, <2>1, <2>3 DEF Lives, StateOf, Exists, TypeOK
    <3>2. Lives[j] \in {"Compressing", "gone"} /\ madeFrom[NameOf(j)] > 0
      BY <1>2, <1>4, <2>1 DEF Working, PackagesFollowGraphs, Mine, TypeOK
    <3> HIDE DEF j
    <3>3. \E i \in Life!Jobs : Life!Make(i)
      BY <1>0, <1>2, <2>1, <3>1, <3>2 DEF Lives, Made, Life!Make, Life!AtWork
    <3> QED
      BY <1>a, <3>3
  <2> QED
    BY <2>1, <2>2, <2>3
<1>9. CASE Commit(w)
  <2>1. /\ pc[w] = "commit" /\ madeFrom' = madeFrom /\ ~ ok'[w] /\ j \in Jobs
    BY <1>2, <1>9, ReturnType DEF Commit
  <2>2. Made' = {} /\ Made' = Made \ {j}
    BY <1>1, <2>1
  <2>3. CASE Exists(j)
    <3>1. rows[j] \in Row /\ rows' = [rows EXCEPT ![j].status = FinalStatus(w)]
      BY <1>9, <2>1, <2>3, RowTypes DEF Commit, Commits
    <3>2. rows'[j].status = FinalStatus(w) /\ rows'[j] # NoJob
      BY <2>1, <2>3, <3>1, WorkerStep DEF TypeOK, Row, KeepsRows
    <3>3. Lives' = [Lives EXCEPT ![j] = FinalStatus(w)]
      BY <1>0, <2>1, <3>2, OneStateChanges DEF StateOf, Exists
    <3>4. Lives[j] = "Compressing"
      BY <1>4, <2>1, <2>3 DEF Working
    <3> HIDE DEF j
    <3>5. CASE ok[w]
      <4>1. \E i \in Life!Jobs : Life!Complete(i)
        BY <1>0, <1>1, <1>2, <2>1, <2>2, <3>3, <3>4, <3>5 DEF Lives, Made, Life!Complete, Life!Becomes,
                                                              FinalStatus
      <4> QED
        BY <1>a, <4>1
    <3>6. CASE ~ ok[w]
      <4>1. \E i \in Life!Jobs : Life!Fail(i)
        BY <1>0, <1>1, <1>2, <2>1, <2>2, <3>3, <3>4, <3>6 DEF Lives, Made, Life!Fail, Life!Becomes, FinalStatus
      <4> QED
        BY <1>a, <4>1
    <3> QED
      BY <3>5, <3>6
  <2>4. CASE ~ Exists(j)
    <3>1. rows' = rows /\ Lives' = Lives
      BY <1>0, <1>9, <2>4 DEF Commit, Commits, Lives, StateOf, Exists
    <3> HIDE DEF j
    <3>2. CASE ok[w]
      <4>1. \E i \in Life!Jobs : Life!Forget(i)
        BY <1>0, <1>1, <1>2, <2>1, <2>2, <3>1, <3>2 DEF Lives, Made, Life!Forget
      <4> QED
        BY <1>a, <4>1
    <3>3. CASE ~ ok[w]
      BY <1>0, <1>1, <2>1, <2>2, <3>1, <3>3, UnseenStep
    <3> QED
      BY <3>2, <3>3
  <2> QED
    BY <2>3, <2>4
<1>10. CASE CrashWorker(w)
  <2>1. rows' = rows /\ madeFrom' = madeFrom /\ ~ ok'[w]
    BY <1>10 DEF CrashWorker, TypeOK
  <2>2. Lives' = Lives /\ Made' = {}
    BY <1>0, <1>1, <2>1 DEF Lives, StateOf, Exists
  <2>3. CASE ok[w]
    <3>1. pc[w] = "commit"
      BY <1>3, <2>3
    <3> HIDE DEF j
    <3>2. \E i \in Life!Jobs : Life!Forget(i)
      BY <1>0, <1>1, <1>2, <2>1, <2>2, <2>3, <3>1 DEF Lives, Made, Life!Forget
    <3> QED
      BY <1>a, <3>2
  <2>4. CASE ~ ok[w]
    BY <1>0, <1>1, <2>1, <2>2, <2>4, UnseenStep
  <2> QED
    BY <2>3, <2>4
<1> QED
  BY <1>5, <1>6, <1>7, <1>8, <1>9, <1>10 DEF Works, WorkerGoesOn

LEMMA StepLives ==
  ASSUME TypeOK, OneWorker, JobsAreNumbered, RowsAreTrue, PackagesFollowGraphs, [Next]_vars
  PROVE  [Life!Next]_(Life!vars)
<1>1. CASE CrashServer
  BY <1>1, CrashServerStep, UnseenStep DEF table, disk, build, work, Made
<1>2. CASE Elsewhere \/ UNCHANGED vars
  <2>1. UNCHANGED <<rows, posts, madeFrom, job, ok>> /\ Made' = Made
    BY <1>2, ElsewhereStep DEF table, disk, work, Made
  <2>2. CASE graph' = graph
    BY <2>1, <2>2, UnseenStep
  <2>3. CASE graph < MaxGraphs /\ graph' = graph + 1
    <3>1. Lives' = Lives
      BY <2>1 DEF Lives, StateOf, Exists
    <3>2. Life!Publish
      BY <2>1, <2>3, <3>1 DEF Lives, Made, Life!Publish
    <3> QED
      BY <3>2 DEF Life!Next
  <2> QED
    BY <1>2, <2>2, <2>3, ElsewhereStep
<1> QED
  BY <1>1, <1>2, ServerLives, WorkerLives, WhoSteps

(* Clients can count on PackageLife where one worker runs: whatever is      *)
(* posted, deleted, built, killed or refused, a job's status takes no other *)
(* way, Completed is never said of a package that was not made for it, and *)
(* no package goes back to an older graph.                                 *)
THEOREM JobsImplementLife ==
  ASSUME OneWorker
  PROVE  Spec => ImplementsLife
<1>1. Init => PackagesFollowGraphs
  BY DEF Init, PackagesFollowGraphs
<1>2. TypeOK /\ TypeOK' /\ JobsInv /\ WholeInv /\ [Next]_vars => WholeInv'
  BY NextTrue, NextGrow, NextWhole DEF JobsInv, WholeInv
<1>3. TypeOK /\ TypeOK' /\ PackagesFollowGraphs /\ [Next]_vars => PackagesFollowGraphs'
  BY NextFollow
<1>4. TypeOK /\ JobsInv /\ WholeInv /\ PackagesFollowGraphs /\ [Next]_vars => [Life!Next]_(Life!vars)
  BY StepLives DEF JobsInv, WholeInv
<1>5. Spec => [](WholeInv /\ PackagesFollowGraphs)
  BY <1>1, <1>2, <1>3, InitWhole, TypeCorrect, JobsInvHolds, PTL DEF Spec
<1> QED
  BY <1>4, <1>5, InitLives, TypeCorrect, JobsInvHolds, PTL DEF Spec, ImplementsLife, Life!Spec

=============================================================================
