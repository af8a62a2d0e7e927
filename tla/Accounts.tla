------------------------------- MODULE Accounts -------------------------------
(***************************************************************************)
(* Who may order a package, and what becomes of the order when they leave: *)
(* the users and the API keys (api_v1/routes/users.py, api_keys.py,        *)
(* models.py), the user every job and every task names, and the worker's   *)
(* look-up of that user before it makes the package.                       *)
(*                                                                         *)
(* The handlers of users and keys are plain functions, which FastAPI runs  *)
(* in threads: what one of them has read may be old when it commits.  The  *)
(* handlers of jobs run on the event loop, one at a time between awaits.   *)
(* PackageJobs has the directories, the queue and the failures that a      *)
(* package meets on its way; here making one is a step, and every job is   *)
(* one that asks for updates.                                              *)
(*                                                                         *)
(* MaxRequests, MaxGraphs and MaxDays bound the model.                     *)
(***************************************************************************)
EXTENDS Tiles, FiniteSets

CONSTANTS
  Admin,        \* the user of ADMIN_EMAIL
  Users,        \* ids of other users
  NoUser,       \* user_id is None
  Jobs,         \* ids of jobs, in the order they are given out
  Keys,         \* ids of API keys
  Patches,      \* bodies of PATCH requests: values for some of the fields
  Boxes,        \* bounding boxes clients ask for
  GraphTiles,   \* the tiles of every graph
  Threads,      \* the threads that handle requests
  NoRow,        \* nothing in the table
  Nothing,      \* no request in hand
  MaxRequests,  \* requests clients make
  MaxGraphs,    \* graph builds that succeed
  MaxDays       \* days the model lasts

Owners == Users \cup {Admin, NoUser}
Permissions == {"read", "write", "internal"}
Fields == {"active", "permission", "until"}

ApiKey == [active : BOOLEAN, permission : Permissions, until : Nat]
JobRow == [user : Owners, status : {"Queued", "Completed", "Failed"}, box : Boxes,
           tiles : SUBSET GraphTiles, from : 0..MaxGraphs]

(* Values for some of the fields of a key. *)
IsPartOfKey(p) ==
  /\ DOMAIN p \subseteq Fields
  /\ "active" \in DOMAIN p => p.active \in BOOLEAN
  /\ "permission" \in DOMAIN p => p.permission \in Permissions
  /\ "until" \in DOMAIN p => p.until \in Nat

ASSUME AccountsAssumption ==
  /\ Admin \notin Users /\ NoUser \notin Users \cup {Admin} /\ Nothing \notin Owners
  /\ NoRow \notin ApiKey \cup JobRow
  /\ Jobs \subseteq Nat /\ {MaxRequests, MaxGraphs, MaxDays} \subseteq Nat
  /\ \A p \in Patches : IsPartOfKey(p)
  /\ Boxes \subseteq Box /\ GraphTiles \subseteq Tile

VARIABLES
  users,      \* the users table
  former,     \* ids of users that were deleted
  keys,       \* the api_keys table
  today,      \* the date
  rows,       \* the jobs table, and the package behind each job
  orderedBy,  \* history: who posted a job
  order,      \* a POST of a job between its checks and its commit
  thread,     \* what a thread has read for the request it handles
  tasks,      \* create_package tasks: a job and the user who posted it
  graph,      \* how many graphs were published
  updates,    \* update_all_packages tasks nobody picked yet
  listed,     \* what the running update_all_packages still has to do
  requests    \* how many requests there were

people == <<users, former>>
doors  == <<keys, today>>
jobs   == <<rows, orderedBy, order>>
worker == <<tasks, graph, updates, listed>>
vars   == <<people, doors, jobs, thread, worker, requests>>

(* What a thread holds: a user with their jobs, or a key as it was read and *)
(* the values it is to get.                                                 *)
Deletion == [user : Users, jobs : SUBSET Jobs]
IsPatch(d) == DOMAIN d = {"key", "was", "want"}
IsOfPatch(d) == IsPatch(d) /\ d.key \in Keys /\ d.was \in ApiKey /\ IsPartOfKey(d.want)

TypeOK ==
  /\ users \subseteq Users /\ former \subseteq Users \ users
  /\ keys \in [Keys -> ApiKey \cup {NoRow}] /\ today \in 0..MaxDays
  /\ rows \in [Jobs -> JobRow \cup {NoRow}]
  /\ \A j \in Jobs : rows[j] # NoRow => rows[j].user \in users \cup {Admin, NoUser}
  /\ orderedBy \in [Jobs -> Owners \cup {Nothing}]
  /\ order = Nothing \/ order \in [job : Jobs, user : Owners, box : Boxes]
  /\ DOMAIN thread = Threads
  /\ \A t \in Threads : thread[t] = Nothing \/ thread[t] \in Deletion \/ IsOfPatch(thread[t])
  /\ tasks \subseteq Jobs \X Owners /\ listed \subseteq Jobs \X Owners
  /\ graph \in 0..MaxGraphs /\ updates \in 0..graph
  /\ requests \in 0..MaxRequests

(* After lifespan: tables from an earlier life, and add_admin_user. *)
Init ==
  /\ users \in SUBSET Users /\ former = {}
  /\ keys \in [Keys -> {NoRow, [active |-> TRUE, permission |-> "write", until |-> 1]}]
  /\ today = 0
  /\ rows = [j \in Jobs |-> NoRow] /\ orderedBy = [j \in Jobs |-> Nothing]
  /\ order = Nothing /\ thread = [t \in Threads |-> Nothing]
  /\ tasks = {} /\ listed = {} /\ graph = 0 /\ updates = 0
  /\ requests = 0

Request == requests < MaxRequests /\ requests' = requests + 1

(* What is selected for a box, and what somebody in it needs. *)
Selection == [b \in Boxes |-> TilesWithBox(GraphTiles, b)]
Needs == [b \in Boxes |-> Needed(GraphTiles, b)]

Exists(j) == rows[j] # NoRow
JobsOf(u) == { j \in Jobs : Exists(j) /\ rows[j].user = u }

-----------------------------------------------------------------------------
(* Users. *)

PostUser(u) ==
  /\ u \notin users \cup former
  /\ users' = users \cup {u}
  /\ Request
  /\ UNCHANGED <<former, doors, jobs, thread, worker>>

(* A thread that has nothing to do; which one makes no difference. *)
Takes(t) == t = CHOOSE free \in Threads : thread[free] = Nothing

(* delete_user reads the user, and the session the user's jobs.  The admin  *)
(* is refused.                                                              *)
StartDeleteUser(t, u) ==
  /\ thread[t] = Nothing /\ Takes(t) /\ u \in users
  /\ thread' = [thread EXCEPT ![t] = [user |-> u, jobs |-> JobsOf(u)]]
  /\ Request
  /\ UNCHANGED <<people, doors, jobs, worker>>

(* Mutation: the jobs keep their user. *)
Undetached(u, js) == rows

(* Those jobs lose their user, in the transaction that deletes the row. *)
Detached(u, js) ==
  [j \in Jobs |-> IF j \in js THEN [rows[j] EXCEPT !.user = NoUser] ELSE rows[j]]

(* One of those jobs is gone, or there is another: the session finds a row  *)
(* missing, or the foreign key does not let the user go.                    *)
CannotDelete(u, js) ==
  \/ \E j \in js : ~ Exists(j)
  \/ \E j \in Jobs : Exists(j) /\ Detached(u, js)[j].user = u

DeleteUser(t) ==
  LET d == thread[t] IN
  /\ d # Nothing /\ ~ IsPatch(d)
  /\ thread' = [thread EXCEPT ![t] = Nothing]
  /\ IF CannotDelete(d.user, d.jobs)
     THEN UNCHANGED <<people, rows>>
     ELSE /\ rows' = Detached(d.user, d.jobs)
          /\ users' = users \ {d.user} /\ former' = former \cup {d.user}
  /\ UNCHANGED <<doors, orderedBy, order, worker, requests>>

-----------------------------------------------------------------------------
(* API keys. *)

PostKey(k, p) ==
  /\ keys[k] = NoRow
  /\ keys' = [keys EXCEPT ![k] = [active |-> TRUE, permission |-> p, until |-> today + 1]]
  /\ Request
  /\ UNCHANGED <<people, today, jobs, thread, worker>>

(* patch_key reads the row and sets the fields of the request: validity_days *)
(* counts from today.                                                       *)
Wanted(p) == [f \in DOMAIN p |-> IF f = "until" THEN today + p[f] ELSE p[f]]

StartPatch(t, k, p) ==
  /\ thread[t] = Nothing /\ Takes(t) /\ keys[k] # NoRow
  /\ thread' = [thread EXCEPT ![t] = [key |-> k, was |-> keys[k], want |-> Wanted(p)]]
  /\ Request
  /\ UNCHANGED <<people, doors, jobs, worker>>

(* Mutation: the whole row is written back. *)
WholeRow(d) == [f \in Fields |-> IF f \in DOMAIN d.want THEN d.want[f] ELSE d.was[f]]

(* The UPDATE names the columns whose values are not what was read. *)
Patched(d) ==
  [f \in Fields |-> IF f \in DOMAIN d.want /\ d.want[f] # d.was[f]
                    THEN d.want[f] ELSE keys[d.key][f]]

(* A key that was deleted meanwhile stays deleted. *)
Patch(t) ==
  LET d == thread[t] IN
  /\ d # Nothing /\ IsPatch(d)
  /\ thread' = [thread EXCEPT ![t] = Nothing]
  /\ keys' = IF keys[d.key] = NoRow THEN keys ELSE [keys EXCEPT ![d.key] = Patched(d)]
  /\ UNCHANGED <<people, today, jobs, worker, requests>>

DeleteKey(k) ==
  /\ keys[k] # NoRow
  /\ keys' = [keys EXCEPT ![k] = NoRow]
  /\ Request
  /\ UNCHANGED <<people, today, jobs, thread, worker>>

NextDay ==
  /\ today < MaxDays /\ today' = today + 1
  /\ UNCHANGED <<people, keys, jobs, thread, worker, requests>>

(* check_key *)
AtLeast(min) ==
  IF min = "read" THEN Permissions ELSE {"internal"} \cup ({min} \cap {"write"})

Opens(k, min) ==
  /\ keys[k] # NoRow /\ keys[k].active
  /\ keys[k].permission \in AtLeast(min)
  /\ keys[k].until > today

-----------------------------------------------------------------------------
(* Jobs. *)

(* post_job up to its commit, on behalf of a user or of a key.  A user may  *)
(* be gone by the time of the commit, for threads do not wait.              *)
StartPost(j, u, b) ==
  /\ order = Nothing
  /\ \A i \in Jobs : orderedBy[i] = Nothing <=> i >= j
  /\ u \in users \cup {Admin} \/ (u = NoUser /\ \E k \in Keys : Opens(k, "write"))
  /\ ValidBox(b)
  /\ order' = [job |-> j, user |-> u, box |-> b]
  /\ orderedBy' = [orderedBy EXCEPT ![j] = u]
  /\ Request
  /\ UNCHANGED <<people, doors, rows, thread, worker>>

(* Mutation: user_id is no foreign key. *)
AnyReference(u) == TRUE

ReferenceHolds(u) == u \in users \cup {Admin, NoUser}

(* The commit, and the task that follows it. *)
Post ==
  /\ order # Nothing /\ order' = Nothing
  /\ IF ReferenceHolds(order.user)
     THEN /\ rows' = [rows EXCEPT ![order.job] =
                        [user |-> order.user, status |-> "Queued", box |-> order.box,
                         tiles |-> {}, from |-> 0]]
          /\ tasks' = tasks \cup {<<order.job, order.user>>}
     ELSE UNCHANGED <<rows, tasks>>
  /\ UNCHANGED <<people, doors, orderedBy, thread, graph, updates, listed, requests>>

DeleteJob(j) ==
  /\ order = Nothing /\ Exists(j)
  /\ rows' = [rows EXCEPT ![j] = NoRow]
  /\ tasks' = { k \in tasks : k[1] # j }
  /\ Request
  /\ UNCHANGED <<people, doors, orderedBy, order, thread, graph, updates, listed>>

-----------------------------------------------------------------------------
(* The worker and the builder. *)

(* Mutation: a task without a user is refused like one whose user is gone. *)
UserUnknown(u) == u \notin users \cup {Admin}

UserMissing(u) == u # NoUser /\ u \notin users \cup {Admin}

(* create_package: nothing happens to the row of a task whose user is gone. *)
(* A job fails without a graph, without a tile in the box, and without the  *)
(* directory, which a job that failed before has lost.                      *)
Made(row) ==
  IF graph = 0 \/ row.status = "Failed" \/ Selection[row.box] = {}
  THEN [row EXCEPT !.status = "Failed"]
  ELSE [row EXCEPT !.status = "Completed", !.tiles = Selection[row.box], !.from = graph]

Package(j, u) ==
  rows' = IF UserMissing(u) \/ ~ Exists(j) THEN rows
          ELSE [rows EXCEPT ![j] = Made(rows[j])]

Create(j, u) ==
  /\ listed = {} /\ <<j, u>> \in tasks
  /\ Package(j, u)
  /\ tasks' = tasks \ {<<j, u>>}
  /\ UNCHANGED <<people, doors, orderedBy, order, thread, graph, updates, listed, requests>>

(* Mutation: only jobs somebody owns are updated. *)
OwnedJobs == { j \in Jobs : Exists(j) /\ rows[j].user # NoUser }

JobsToUpdate == { j \in Jobs : Exists(j) }

(* update_all_packages reads the rows once, each with its user. *)
List ==
  /\ listed = {} /\ updates > 0
  /\ updates' = updates - 1
  /\ listed' = { <<j, rows[j].user>> : j \in JobsToUpdate }
  /\ UNCHANGED <<people, doors, jobs, thread, tasks, graph, requests>>

Update(j, u) ==
  /\ <<j, u>> \in listed
  /\ Package(j, u)
  /\ listed' = listed \ {<<j, u>>}
  /\ UNCHANGED <<people, doors, orderedBy, order, thread, tasks, graph, updates, requests>>

Publish ==
  /\ graph < MaxGraphs
  /\ graph' = graph + 1 /\ updates' = updates + 1
  /\ UNCHANGED <<people, doors, jobs, thread, tasks, listed, requests>>

-----------------------------------------------------------------------------
WorkerStep == List \/ \E j \in Jobs, u \in Owners : Create(j, u) \/ Update(j, u)

ServerStep == Post \/ \E t \in Threads : DeleteUser(t) \/ Patch(t)

ClientStep ==
  \/ \E u \in Users : PostUser(u) \/ \E t \in Threads : StartDeleteUser(t, u)
  \/ \E k \in Keys :
       \/ DeleteKey(k) \/ \E p \in Permissions : PostKey(k, p)
       \/ \E t \in Threads, p \in Patches : StartPatch(t, k, p)
  \/ \E j \in Jobs : DeleteJob(j) \/ \E u \in Owners, b \in Boxes : StartPost(j, u, b)

Next == WorkerStep \/ ServerStep \/ ClientStep \/ NextDay \/ Publish

(* The worker is up.  Nobody has to ask for anything, nor to get it done. *)
Spec == Init /\ [][Next]_vars /\ WF_vars(WorkerStep)

-----------------------------------------------------------------------------
(* A package that can be downloaded has every tile the graph has for its    *)
(* box, of every level (get_tiles_with_bbox behind create_package).         *)
PackagesCoverTheirBox ==
  \A j \in Jobs :
    Exists(j) /\ rows[j].status = "Completed" => Needs[rows[j].box] \subseteq rows[j].tiles

(* The user of a job was deleted. *)
Orphaned(j) == Exists(j) /\ rows[j].user # orderedBy[j]

(* When the updates of a build are through, every package is made from the  *)
(* newest graph.  One whose user was deleted in between is a graph behind,  *)
(* because the update still named that user, and never more than one: the   *)
(* next update names nobody.                                                *)
PackagesFallBehindByOne ==
  updates = 0 /\ listed = {} =>
    \A j \in Jobs : Exists(j) /\ rows[j].status = "Completed" =>
      rows[j].from = graph \/ (Orphaned(j) /\ rows[j].from = graph - 1)

(* A job that is Queued gets its turn, whoever posted it and whatever other *)
(* users and keys come and go; unless its user is deleted before it does.   *)
Queued(j) == Exists(j) /\ rows[j].status = "Queued"

QueuedJobsAreMade == \A j \in Jobs : Queued(j) ~> ~ Queued(j) \/ Orphaned(j)

(* A PATCH changes no field it does not name, however many of them overlap, *)
(* and a field it names has the value it asks for afterwards; unless that   *)
(* was the value it read, and another PATCH has changed it since.           *)
PatchesDoAsAsked ==
  [][\A t \in Threads :
       LET d == thread[t] IN
       d # Nothing /\ IsPatch(d) /\ thread'[t] # d /\ keys[d.key] # NoRow =>
         \A f \in Fields :
           IF f \in DOMAIN d.want
           THEN keys'[d.key][f] = d.want[f] \/ keys[d.key][f] # d.was[f]
           ELSE keys'[d.key][f] = keys[d.key][f]]_vars

(* A user can be deleted with all of their jobs in place: it fails only if  *)
(* one of them was posted or deleted while the request was handled.         *)
DeletionsFailInRacesOnly ==
  [][\A t \in Threads :
       LET d == thread[t] IN
       d # Nothing /\ ~ IsPatch(d) /\ thread'[t] # d /\ d.user \in users'
         => JobsOf(d.user) # d.jobs]_vars

=============================================================================
