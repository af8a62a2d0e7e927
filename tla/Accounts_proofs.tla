--------------------------- MODULE Accounts_proofs ---------------------------
(***************************************************************************)
(* What holds between users, keys, jobs and packages for any number of     *)
(* them, of requests, threads, graphs and days.                            *)
(***************************************************************************)
EXTENDS Accounts, Tiles_proofs

USE AccountsAssumption DEF Owners

-----------------------------------------------------------------------------
(* Types, which include that a job names nobody who is not there.          *)

LEMMA RowTypes ==
  ASSUME TypeOK, NEW j \in Jobs, Exists(j)
  PROVE  /\ rows[j] \in JobRow /\ rows[j].user \in users \cup {Admin, NoUser}
         /\ rows[j].box \in Boxes /\ rows[j].from \in 0..MaxGraphs /\ rows[j].tiles \subseteq GraphTiles
  BY DEF TypeOK, Exists, JobRow

LEMMA InitType == Init => TypeOK
<1> SUFFICES ASSUME Init PROVE TypeOK
  OBVIOUS
<1>1. [active |-> TRUE, permission |-> "write", until |-> 1] \in ApiKey
  BY DEF ApiKey, Permissions
<1>2. keys \in [Keys -> ApiKey \cup {NoRow}]
  BY <1>1 DEF Init
<1>3. rows \in [Jobs -> JobRow \cup {NoRow}] /\ \A j \in Jobs : rows[j] = NoRow
  BY DEF Init
<1>4. orderedBy \in [Jobs -> Owners \cup {Nothing}]
  BY DEF Init
<1> QED
  BY <1>2, <1>3, <1>4 DEF Init, TypeOK

LEMMA PatchedKeyIsKey ==
  ASSUME TypeOK, NEW d, IsOfPatch(d), keys[d.key] # NoRow
  PROVE  Patched(d) \in ApiKey
<1>1. keys[d.key] \in ApiKey
  BY DEF TypeOK, IsOfPatch
<1>2. /\ Patched(d)["active"] \in BOOLEAN
      /\ Patched(d)["permission"] \in Permissions
      /\ Patched(d)["until"] \in Nat
  BY <1>1 DEF Patched, ApiKey, Fields, IsOfPatch, IsPartOfKey
<1>3. DOMAIN Patched(d) = {"active", "permission", "until"}
  BY DEF Patched, Fields
<1> QED
  BY <1>2, <1>3 DEF ApiKey, Patched, Fields

LEMMA WantedIsPartOfKey ==
  ASSUME TypeOK, NEW p \in Patches
  PROVE  IsPartOfKey(Wanted(p))
<1>1. IsPartOfKey(p) /\ DOMAIN Wanted(p) = DOMAIN p /\ today \in Nat
  BY DEF Wanted, TypeOK
<1>2. "active" \in DOMAIN p => Wanted(p)["active"] = p["active"]
  BY DEF Wanted
<1>3. "permission" \in DOMAIN p => Wanted(p)["permission"] = p["permission"]
  BY DEF Wanted
<1>4. "until" \in DOMAIN p => Wanted(p)["until"] = today + p["until"]
  BY DEF Wanted
<1> QED
  BY <1>1, <1>2, <1>3, <1>4 DEF IsPartOfKey

LEMMA DeletionsAreNoPatches ==
  ASSUME NEW u \in Users, NEW js \in SUBSET Jobs
  PROVE  /\ [user |-> u, jobs |-> js] \in Deletion
         /\ ~ IsPatch([user |-> u, jobs |-> js])
<1>1. DOMAIN [user |-> u, jobs |-> js] = {"user", "jobs"}
  OBVIOUS
<1>2. {"user", "jobs"} # {"key", "was", "want"}
  OBVIOUS
<1> QED
  BY <1>1, <1>2 DEF Deletion, IsPatch

LEMMA DetachedRows ==
  ASSUME TypeOK, NEW u \in Users, NEW js \in SUBSET Jobs, ~ CannotDelete(u, js), NEW j \in Jobs
  PROVE  /\ Detached(u, js)[j] = NoRow <=> rows[j] = NoRow
         /\ Exists(j) => /\ Detached(u, js)[j] \in JobRow
                         /\ Detached(u, js)[j].user # u
                         /\ Detached(u, js)[j].user \in {rows[j].user, NoUser}
                         /\ Detached(u, js)[j].box = rows[j].box
                         /\ Detached(u, js)[j].status = rows[j].status
                         /\ Detached(u, js)[j].tiles = rows[j].tiles
                         /\ Detached(u, js)[j].from = rows[j].from
<1>1. CASE j \in js
  <2>1. Exists(j) /\ rows[j] \in JobRow /\ Detached(u, js)[j] = [rows[j] EXCEPT !.user = NoUser]
    BY <1>1, RowTypes DEF CannotDelete, Detached
  <2> QED
    BY <2>1 DEF JobRow, Exists
<1>2. CASE j \notin js
  <2>1. Detached(u, js)[j] = rows[j]
    BY <1>2 DEF Detached
  <2> QED
    BY <2>1, RowTypes DEF CannotDelete, Exists
<1> QED
  BY <1>1, <1>2

LEMMA MadeRows ==
  ASSUME TypeOK, NEW j \in Jobs, Exists(j)
  PROVE  /\ Made(rows[j]) \in JobRow
         /\ Made(rows[j]).user = rows[j].user /\ Made(rows[j]).box = rows[j].box
         /\ Made(rows[j]).status \in {"Failed", "Completed"}
         /\ Made(rows[j]).status = "Completed" =>
              Made(rows[j]).tiles = Selection[rows[j].box] /\ Made(rows[j]).from = graph
<1>1. rows[j] \in JobRow /\ rows[j].box \in Boxes /\ graph \in 0..MaxGraphs
  BY RowTypes DEF TypeOK
<1>2. Selection[rows[j].box] \in SUBSET GraphTiles
  BY <1>1 DEF Selection, TilesWithBox
<1>3. Made(rows[j]) \in { [rows[j] EXCEPT !.status = "Failed"],
                          [rows[j] EXCEPT !.status = "Completed", !.tiles = Selection[rows[j].box],
                                          !.from = graph] }
  BY DEF Made
<1> QED
  BY <1>1, <1>2, <1>3 DEF JobRow

(* The rows after the worker made a package, or did not.                   *)
LEMMA PackagedRows ==
  ASSUME TypeOK, NEW j \in Jobs, NEW u, Package(j, u)
  PROVE  /\ DOMAIN rows' = Jobs
         /\ \A i \in Jobs : /\ i # j => rows'[i] = rows[i]
                            /\ rows'[i] = NoRow <=> rows[i] = NoRow
         /\ rows'[j] = IF UserMissing(u) \/ ~ Exists(j) THEN rows[j] ELSE Made(rows[j])
         /\ rows' \in [Jobs -> JobRow \cup {NoRow}]
<1>1. Exists(j) => Made(rows[j]) \in JobRow
  BY MadeRows
<1> QED
  BY <1>1 DEF Package, TypeOK, Exists

LEMMA PeopleType ==
  ASSUME TypeOK,
         \/ \E u \in Users : PostUser(u) \/ \E t \in Threads : StartDeleteUser(t, u)
         \/ \E t \in Threads : DeleteUser(t)
  PROVE  TypeOK'
<1>1. ASSUME NEW u \in Users, PostUser(u) PROVE TypeOK'
  BY <1>1 DEF TypeOK, PostUser, Request, doors, jobs, worker
<1>2. ASSUME NEW u \in Users, NEW t \in Threads, StartDeleteUser(t, u) PROVE TypeOK'
  <2> DEFINE d == [user |-> u, jobs |-> JobsOf(u)]
  <2>1. d \in Deletion
    BY DeletionsAreNoPatches DEF JobsOf
  <2>2. thread' = [thread EXCEPT ![t] = d] /\ UNCHANGED <<people, doors, jobs, worker>>
        /\ requests' \in 0..MaxRequests
    BY <1>2 DEF StartDeleteUser, Request, TypeOK
  <2>3. /\ DOMAIN thread' = Threads
        /\ \A s \in Threads : thread'[s] = Nothing \/ thread'[s] \in Deletion \/ IsOfPatch(thread'[s])
    BY <2>1, <2>2 DEF TypeOK
  <2> QED
    BY <2>2, <2>3 DEF TypeOK, people, doors, jobs, worker
<1>3. ASSUME NEW t \in Threads, DeleteUser(t) PROVE TypeOK'
  <2> DEFINE d == thread[t]
  <2>1. d \in Deletion /\ d.user \in Users /\ d.jobs \in SUBSET Jobs
    BY <1>3 DEF DeleteUser, TypeOK, IsOfPatch, Deletion
  <2>2. /\ DOMAIN thread' = Threads
        /\ \A s \in Threads : thread'[s] = Nothing \/ thread'[s] \in Deletion \/ IsOfPatch(thread'[s])
    BY <1>3 DEF DeleteUser, TypeOK
  <2>3. UNCHANGED <<doors, orderedBy, order, worker, requests>>
    BY <1>3 DEF DeleteUser
  <2>4. /\ users' \subseteq Users /\ former' \subseteq Users \ users'
        /\ rows' \in [Jobs -> JobRow \cup {NoRow}]
        /\ \A j \in Jobs : rows'[j] # NoRow => rows'[j].user \in users' \cup {Admin, NoUser}
    <3>1. CASE CannotDelete(d.user, d.jobs)
      BY <1>3, <3>1 DEF DeleteUser, people, TypeOK
    <3>2. CASE ~ CannotDelete(d.user, d.jobs)
      <4>1. /\ rows' = Detached(d.user, d.jobs)
            /\ users' = users \ {d.user} /\ former' = former \cup {d.user}
        BY <1>3, <3>2 DEF DeleteUser
      <4>2. \A j \in Jobs : /\ rows'[j] = NoRow <=> rows[j] = NoRow
                            /\ Exists(j) => /\ rows'[j] \in JobRow
                                            /\ rows'[j].user \in {rows[j].user, NoUser} \ {d.user}
        BY <2>1, <3>2, <4>1, DetachedRows
      <4>3. rows' \in [Jobs -> JobRow \cup {NoRow}]
        BY <4>1, <4>2 DEF Detached, Exists
      <4>4. \A j \in Jobs : rows'[j] # NoRow => rows'[j].user \in users' \cup {Admin, NoUser}
        BY <2>1, <4>1, <4>2, RowTypes DEF Exists
      <4> QED
        BY <2>1, <4>1, <4>3, <4>4 DEF TypeOK
    <3> QED
      BY <3>1, <3>2
  <2> QED
    BY <2>2, <2>3, <2>4 DEF TypeOK, doors, worker
<1> QED
  BY <1>1, <1>2, <1>3

LEMMA KeysType ==
  ASSUME TypeOK,
         \/ \E k \in Keys : \/ DeleteKey(k) \/ \E p \in Permissions : PostKey(k, p)
                            \/ \E t \in Threads, p \in Patches : StartPatch(t, k, p)
         \/ \E t \in Threads : Patch(t)
         \/ NextDay
  PROVE  TypeOK'
<1>1. ASSUME NEW k \in Keys, NEW p \in Permissions, PostKey(k, p) PROVE TypeOK'
  <2> DEFINE new == [active |-> TRUE, permission |-> p, until |-> today + 1]
  <2>1. new \in ApiKey
    BY DEF ApiKey, TypeOK
  <2>2. keys' \in [Keys -> ApiKey \cup {NoRow}]
    BY <1>1, <2>1 DEF PostKey, TypeOK
  <2> QED
    BY <1>1, <2>2 DEF TypeOK, PostKey, Request, people, jobs, worker
<1>2. ASSUME NEW k \in Keys, DeleteKey(k) PROVE TypeOK'
  BY <1>2 DEF TypeOK, DeleteKey, Request, people, jobs, worker
<1>3. ASSUME NEW k \in Keys, NEW t \in Threads, NEW p \in Patches, StartPatch(t, k, p) PROVE TypeOK'
  <2> DEFINE d == [key |-> k, was |-> keys[k], want |-> Wanted(p)]
  <2>1. IsOfPatch(d)
    <3>1. keys[k] \in ApiKey
      BY <1>3 DEF TypeOK, StartPatch
    <3> QED
      BY <3>1, WantedIsPartOfKey DEF IsOfPatch, IsPatch
  <2>2. thread' = [thread EXCEPT ![t] = d] /\ UNCHANGED <<people, doors, jobs, worker>>
        /\ requests' \in 0..MaxRequests
    BY <1>3 DEF StartPatch, Request, TypeOK
  <2>3. /\ DOMAIN thread' = Threads
        /\ \A s \in Threads : thread'[s] = Nothing \/ thread'[s] \in Deletion \/ IsOfPatch(thread'[s])
    BY <2>1, <2>2 DEF TypeOK
  <2> QED
    BY <2>2, <2>3 DEF TypeOK, people, doors, jobs, worker
<1>4. ASSUME NEW t \in Threads, Patch(t) PROVE TypeOK'
  <2> DEFINE d == thread[t]
  <2>1. /\ thread' = [thread EXCEPT ![t] = Nothing]
        /\ keys' = IF keys[d.key] = NoRow THEN keys ELSE [keys EXCEPT ![d.key] = Patched(d)]
        /\ UNCHANGED <<people, today, jobs, worker, requests>>
    BY <1>4 DEF Patch
  <2>2. IsOfPatch(d)
    <3>1. d \notin Deletion
      BY <1>4 DEF Patch, Deletion, IsPatch
    <3> QED
      BY <1>4, <3>1 DEF Patch, TypeOK
  <2>3. keys[d.key] # NoRow => Patched(d) \in ApiKey
    BY <2>2, PatchedKeyIsKey
  <2>4. keys' \in [Keys -> ApiKey \cup {NoRow}]
    BY <2>1, <2>3 DEF TypeOK
  <2>5. /\ DOMAIN thread' = Threads
        /\ \A s \in Threads : thread'[s] = Nothing \/ thread'[s] \in Deletion \/ IsOfPatch(thread'[s])
    BY <2>1 DEF TypeOK
  <2> QED
    BY <2>1, <2>4, <2>5 DEF TypeOK, people, jobs, worker
<1>5. CASE NextDay
  BY <1>5 DEF TypeOK, NextDay, people, jobs, worker
<1> QED
  BY <1>1, <1>2, <1>3, <1>4, <1>5

LEMMA JobsType ==
  ASSUME TypeOK,
         \/ \E j \in Jobs : DeleteJob(j) \/ \E u \in Owners, b \in Boxes : StartPost(j, u, b)
         \/ Post
  PROVE  TypeOK'
<1>1. ASSUME NEW j \in Jobs, DeleteJob(j) PROVE TypeOK'
  BY <1>1 DEF TypeOK, DeleteJob, Request, people, doors
<1>2. ASSUME NEW j \in Jobs, NEW u \in Owners, NEW b \in Boxes, StartPost(j, u, b) PROVE TypeOK'
  <2>1. order' \in [job : Jobs, user : Owners, box : Boxes]
    BY <1>2 DEF StartPost
  <2>2. orderedBy' \in [Jobs -> Owners \cup {Nothing}]
    BY <1>2 DEF StartPost, TypeOK
  <2> QED
    BY <1>2, <2>1, <2>2 DEF TypeOK, StartPost, Request, people, doors, worker
<1>3. CASE Post
  <2>1. order \in [job : Jobs, user : Owners, box : Boxes] /\ order' = Nothing
        /\ UNCHANGED <<people, doors, orderedBy, thread, graph, updates, listed, requests>>
    BY <1>3 DEF Post, TypeOK
  <2>2. /\ rows' \in [Jobs -> JobRow \cup {NoRow}]
        /\ \A j \in Jobs : rows'[j] # NoRow => rows'[j].user \in users \cup {Admin, NoUser}
        /\ tasks' \subseteq Jobs \X Owners
    <3> DEFINE row == [user |-> order.user, status |-> "Queued", box |-> order.box,
                       tiles |-> {}, from |-> 0]
    <3>1. row \in JobRow /\ row.user = order.user
      BY <2>1 DEF JobRow
    <3>2. CASE ReferenceHolds(order.user)
      <4>1. rows' = [rows EXCEPT ![order.job] = row] /\ tasks' = tasks \cup {<<order.job, order.user>>}
        BY <1>3, <3>2 DEF Post
      <4> QED
        BY <2>1, <3>1, <3>2, <4>1 DEF TypeOK, ReferenceHolds
    <3>3. CASE ~ ReferenceHolds(order.user)
      BY <1>3, <3>3 DEF Post, TypeOK
    <3> QED
      BY <3>2, <3>3
  <2> QED
    BY <2>1, <2>2 DEF TypeOK, people, doors
<1> QED
  BY <1>1, <1>2, <1>3

LEMMA WorkType ==
  ASSUME TypeOK, WorkerStep \/ Publish
  PROVE  TypeOK'
<1>1. ASSUME NEW j \in Jobs, NEW u \in Owners, Create(j, u) \/ Update(j, u) PROVE TypeOK'
  <2>1. Package(j, u)
    BY <1>1 DEF Create, Update
  <2>2. Exists(j) => Made(rows[j]).user = rows[j].user
    BY MadeRows
  <2>3. \A i \in Jobs : rows'[i] # NoRow => rows'[i].user \in users \cup {Admin, NoUser}
    BY <2>1, <2>2, PackagedRows, RowTypes DEF Exists
  <2>4. rows' \in [Jobs -> JobRow \cup {NoRow}]
    BY <2>1, PackagedRows
  <2> QED
    BY <1>1, <2>3, <2>4 DEF TypeOK, Create, Update, people, doors
<1>2. CASE List
  <2>1. listed' \subseteq Jobs \X Owners
    BY <1>2 DEF List, JobsToUpdate, Exists, TypeOK
  <2> QED
    BY <1>2, <2>1 DEF TypeOK, List, people, doors, jobs
<1>3. CASE Publish
  BY <1>3 DEF TypeOK, Publish, people, doors, jobs
<1> QED
  BY <1>1, <1>2, <1>3 DEF WorkerStep

LEMMA NextType == TypeOK /\ [Next]_vars => TypeOK'
<1>1. TypeOK /\ UNCHANGED vars => TypeOK'
  BY DEF TypeOK, vars, people, doors, jobs, worker
<1> QED
  BY <1>1, PeopleType, KeysType, JobsType, WorkType DEF Next, ClientStep, ServerStep

(* Tables and threads are of their types, and no job names a user who is    *)
(* gone.                                                                   *)
THEOREM TypeCorrect == Spec => []TypeOK
  BY InitType, NextType, PTL DEF Spec

-----------------------------------------------------------------------------
(* The inductive invariant.                                                *)

(* A job is posted for who ordered it, until that user is deleted, in a box *)
(* that is valid; and what is Completed holds what its box selects.        *)
OrderIsTrue == order # Nothing => order.user = orderedBy[order.job] /\ ValidBox(order.box)

RowIsTrue(j) ==
  Exists(j) =>
    /\ orderedBy[j] # Nothing /\ rows[j].user \in {orderedBy[j], NoUser}
    /\ ValidBox(rows[j].box)
    /\ rows[j].status = "Completed" =>
         rows[j].tiles = Selection[rows[j].box] /\ rows[j].from <= graph

(* An update is listed for who ordered the job, or for nobody.             *)
ListIsTrue == \A j \in Jobs, u \in Owners : <<j, u>> \in listed => u \in {orderedBy[j], NoUser}

(* The graph the running update, or the last one, is for.                  *)
Due == graph - updates

(* What is listed for a user is not more than one graph behind yet, what is *)
(* not listed only if its user was deleted.                                *)
RowIsRecent(j) ==
  Exists(j) /\ rows[j].status = "Completed" =>
    /\ \A u \in Owners : <<j, u>> \in listed /\ u # NoUser => rows[j].from >= Due - 1
    /\ (\A u \in Owners : <<j, u>> \notin listed) =>
         rows[j].from >= Due \/ (Orphaned(j) /\ rows[j].from >= Due - 1)

AccountsInv ==
  OrderIsTrue /\ ListIsTrue /\ \A j \in Jobs : RowIsTrue(j) /\ RowIsRecent(j)

LEMMA InitAccounts == Init => AccountsInv
<1> SUFFICES ASSUME Init PROVE AccountsInv
  OBVIOUS
<1>1. order = Nothing /\ listed = {} /\ \A j \in Jobs : ~ Exists(j)
  BY DEF Init, Exists
<1> QED
  BY <1>1 DEF AccountsInv, OrderIsTrue, ListIsTrue, RowIsTrue, RowIsRecent

(* Most steps change nothing the invariant speaks of.                      *)
LEMMA OthersKeepAccounts ==
  ASSUME AccountsInv, UNCHANGED <<jobs, worker>>
  PROVE  AccountsInv'
  BY DEF AccountsInv, OrderIsTrue, ListIsTrue, RowIsTrue, RowIsRecent, Exists, Orphaned, Due, jobs, worker

LEMMA DeletionKeepsAccounts ==
  ASSUME TypeOK, AccountsInv, NEW t \in Threads, DeleteUser(t)
  PROVE  AccountsInv'
<1> DEFINE d == thread[t]
<1>1. d \in Deletion /\ d.user \in Users /\ d.jobs \in SUBSET Jobs
  BY DEF DeleteUser, TypeOK, IsOfPatch, Deletion
<1>2. UNCHANGED <<orderedBy, order, worker>>
  BY DEF DeleteUser
<1>3. CASE CannotDelete(d.user, d.jobs)
  BY <1>2, <1>3, OthersKeepAccounts DEF DeleteUser, jobs
<1>4. CASE ~ CannotDelete(d.user, d.jobs)
  <2>1. ASSUME NEW j \in Jobs, rows'[j] # NoRow
        PROVE  /\ Exists(j) /\ rows'[j].user \in {rows[j].user, NoUser}
               /\ rows'[j].box = rows[j].box /\ rows'[j].status = rows[j].status
               /\ rows'[j].tiles = rows[j].tiles /\ rows'[j].from = rows[j].from
    BY <1>1, <1>4, <2>1, DetachedRows DEF DeleteUser, Exists
  <2>2. OrderIsTrue' /\ ListIsTrue'
    BY <1>2 DEF AccountsInv, OrderIsTrue, ListIsTrue, worker
  <2>3. ASSUME NEW j \in Jobs PROVE RowIsTrue(j)'
    BY <1>2, <2>1 DEF AccountsInv, RowIsTrue, Exists, worker
  <2>4. ASSUME NEW j \in Jobs PROVE RowIsRecent(j)'
    BY <1>2, <2>1 DEF AccountsInv, RowIsTrue, RowIsRecent, Orphaned, Exists, Due, worker
  <2> QED
    BY <2>2, <2>3, <2>4 DEF AccountsInv
<1> QED
  BY <1>3, <1>4

LEMMA JobsKeepAccounts ==
  ASSUME TypeOK, AccountsInv,
         \/ \E j \in Jobs : DeleteJob(j) \/ \E u \in Owners, b \in Boxes : StartPost(j, u, b)
         \/ Post
  PROVE  AccountsInv'
<1>1. ASSUME NEW j \in Jobs, DeleteJob(j) PROVE AccountsInv'
  <2>1. /\ UNCHANGED <<orderedBy, order, graph, updates, listed>>
        /\ \A i \in Jobs : rows'[i] \in {rows[i], NoRow}
    BY <1>1 DEF DeleteJob, TypeOK
  <2> QED
    BY <2>1 DEF AccountsInv, OrderIsTrue, ListIsTrue, RowIsTrue, RowIsRecent, Exists, Orphaned, Due
<1>2. ASSUME NEW j \in Jobs, NEW u \in Owners, NEW b \in Boxes, StartPost(j, u, b) PROVE AccountsInv'
  <2>1. /\ UNCHANGED <<rows, worker>> /\ orderedBy[j] = Nothing /\ orderedBy'[j] = u
        /\ \A i \in Jobs \ {j} : orderedBy'[i] = orderedBy[i]
        /\ order' = [job |-> j, user |-> u, box |-> b] /\ ValidBox(b)
    <3>1. j \in Nat /\ orderedBy[j] = Nothing
      BY <1>2 DEF StartPost
    <3>2. orderedBy' = [orderedBy EXCEPT ![j] = u] /\ order' = [job |-> j, user |-> u, box |-> b]
          /\ ValidBox(b) /\ UNCHANGED <<rows, worker>>
      BY <1>2 DEF StartPost
    <3> QED
      BY <3>1, <3>2 DEF TypeOK
  <2>2. OrderIsTrue'
    BY <2>1 DEF OrderIsTrue
  <2>3. \A i \in Jobs : Exists(i) => i # j
    BY <2>1 DEF AccountsInv, RowIsTrue
  <2>4. ListIsTrue'
    BY <2>1 DEF AccountsInv, ListIsTrue, worker
  <2>5. ASSUME NEW i \in Jobs PROVE RowIsTrue(i)' /\ RowIsRecent(i)'
    BY <2>1, <2>3 DEF AccountsInv, RowIsTrue, RowIsRecent, Exists, Orphaned, Due, worker
  <2> QED
    BY <2>2, <2>4, <2>5 DEF AccountsInv
<1>3. CASE Post
  <2> DEFINE row == [user |-> order.user, status |-> "Queued", box |-> order.box,
                     tiles |-> {}, from |-> 0]
  <2>1. /\ order \in [job : Jobs, user : Owners, box : Boxes] /\ order' = Nothing /\ order # Nothing
        /\ UNCHANGED <<orderedBy, graph, updates, listed>>
        /\ rows' = rows \/ rows' = [rows EXCEPT ![order.job] = row]
    BY <1>3 DEF Post, TypeOK
  <2>2. order.user = orderedBy[order.job] /\ ValidBox(order.box) /\ order.user # Nothing
    BY <2>1 DEF AccountsInv, OrderIsTrue
  <2>3. \A i \in Jobs : rows'[i] = rows[i] \/ (i = order.job /\ rows'[i] = row)
    BY <2>1 DEF TypeOK
  <2>4. row.user = order.user /\ row.status = "Queued" /\ row.box = order.box
    OBVIOUS
  <2>5. ASSUME NEW i \in Jobs PROVE RowIsTrue(i)' /\ RowIsRecent(i)'
    <3>1. CASE rows'[i] = rows[i]
      BY <2>1, <3>1 DEF AccountsInv, RowIsTrue, RowIsRecent, Exists, Orphaned, Due
    <3>2. CASE i = order.job /\ rows'[i] = row
      BY <2>1, <2>2, <2>4, <3>2 DEF RowIsTrue, RowIsRecent, Exists
    <3> QED
      BY <2>3, <3>1, <3>2
  <2> QED
    BY <2>1, <2>5 DEF AccountsInv, OrderIsTrue, ListIsTrue
<1> QED
  BY <1>1, <1>2, <1>3

LEMMA WorkKeepsAccounts ==
  ASSUME TypeOK, AccountsInv, WorkerStep \/ Publish
  PROVE  AccountsInv'
<1>0. graph \in Nat /\ updates \in Nat /\ updates <= graph /\ \A j \in Jobs : Exists(j) => rows[j].from \in Nat
  BY RowTypes DEF TypeOK
<1>1. ASSUME NEW j \in Jobs, NEW u \in Owners, Create(j, u) \/ Update(j, u) PROVE AccountsInv'
  <2>0. /\ Package(j, u) /\ UNCHANGED <<users, orderedBy, order, graph, updates>>
        /\ \/ listed = {} /\ listed' = {}
           \/ <<j, u>> \in listed /\ listed' = listed \ {<<j, u>>}
    BY <1>1 DEF Create, Update, people
  <2>1. OrderIsTrue' /\ ListIsTrue'
    BY <2>0 DEF AccountsInv, OrderIsTrue, ListIsTrue
  <2>2. \A i \in Jobs : (i # j => rows'[i] = rows[i]) /\ (rows'[i] = NoRow <=> rows[i] = NoRow)
    BY <2>0, PackagedRows
  <2>3. ASSUME NEW i \in Jobs PROVE RowIsTrue(i)' /\ RowIsRecent(i)'
    <3>1. CASE i # j
      <4>1. rows'[i] = rows[i]
        BY <2>2, <3>1
      <4>2. \A v \in Owners : <<i, v>> \in listed' <=> <<i, v>> \in listed
        BY <2>0, <3>1
      <4> QED
        BY <2>0, <4>1, <4>2 DEF AccountsInv, RowIsTrue, RowIsRecent, Exists, Orphaned, Due
    <3>2. CASE i = j /\ Exists(j) /\ ~ UserMissing(u)
      <4>1. /\ rows'[j] = Made(rows[j]) /\ rows'[j].user = rows[j].user /\ rows'[j].box = rows[j].box
            /\ rows'[j].status = "Completed" => rows'[j].tiles = Selection[rows[j].box] /\ rows'[j].from = graph
        BY <2>0, <3>2, PackagedRows, MadeRows
      <4>2. orderedBy[j] # Nothing /\ rows[j].user \in {orderedBy[j], NoUser} /\ ValidBox(rows[j].box)
        BY <3>2 DEF AccountsInv, RowIsTrue
      <4>3. ValidBox(rows'[j].box)
        BY <4>1, <4>2
      <4>4. rows'[j].status = "Completed" =>
              rows'[j].tiles = Selection[rows'[j].box] /\ rows'[j].from <= graph
        BY <1>0, <4>1
      <4>5. RowIsTrue(j)'
        BY <2>0, <4>1, <4>2, <4>3, <4>4 DEF RowIsTrue
      <4>6. graph >= Due /\ graph >= Due - 1 /\ Due' = Due
        BY <1>0, <2>0 DEF Due
      <4> QED
        BY <3>2, <4>1, <4>5, <4>6 DEF RowIsRecent
    <3>3. CASE i = j /\ Exists(j) /\ UserMissing(u)
      <4>1. rows'[j] = rows[j] /\ u # NoUser /\ u \notin users \cup {Admin}
        BY <2>0, <3>3, PackagedRows DEF UserMissing
      <4>2. RowIsTrue(j)'
        BY <2>0, <4>1 DEF AccountsInv, RowIsTrue, Exists
      <4>3. CASE listed = {} /\ listed' = {}
        BY <2>0, <3>3, <4>1, <4>2, <4>3 DEF AccountsInv, RowIsRecent, Exists, Orphaned, Due
      <4>4. CASE <<j, u>> \in listed /\ listed' = listed \ {<<j, u>>}
        <5>1. u = orderedBy[j] /\ rows[j].user # u
          BY <3>3, <4>1, <4>4, RowTypes DEF AccountsInv, ListIsTrue
        <5>2. rows[j].status = "Completed" => rows[j].from >= Due - 1
          BY <3>3, <4>1, <4>4 DEF AccountsInv, RowIsRecent
        <5>3. Orphaned(j)' /\ Due' = Due
          BY <2>0, <3>3, <4>1, <5>1 DEF Orphaned, Exists, Due
        <5> QED
          BY <3>3, <4>1, <4>2, <5>2, <5>3 DEF RowIsRecent, Exists
      <4> QED
        BY <2>0, <4>3, <4>4
    <3>4. CASE i = j /\ ~ Exists(j)
      BY <2>2, <3>4 DEF RowIsTrue, RowIsRecent, Exists
    <3> QED
      BY <3>1, <3>2, <3>3, <3>4
  <2> QED
    BY <2>1, <2>3 DEF AccountsInv
<1>2. CASE List
  <2>0. /\ listed = {} /\ updates' = updates - 1 /\ updates > 0
        /\ listed' = { <<j, rows[j].user>> : j \in JobsToUpdate }
        /\ UNCHANGED <<rows, orderedBy, order, graph>>
    BY <1>2 DEF List, jobs
  <2>1. \A j \in Jobs, u \in Owners : <<j, u>> \in listed' <=> Exists(j) /\ u = rows[j].user
    BY <2>0 DEF JobsToUpdate
  <2>2. ListIsTrue'
    BY <2>0, <2>1 DEF AccountsInv, RowIsTrue, ListIsTrue
  <2>3. ASSUME NEW j \in Jobs PROVE RowIsTrue(j)'
    BY <2>0 DEF AccountsInv, RowIsTrue, Exists
  <2>4. ASSUME NEW j \in Jobs, Exists(j), rows[j].status = "Completed"
        PROVE  /\ rows[j].user \in Owners /\ <<j, rows[j].user>> \in listed'
               /\ rows[j].user # NoUser => rows[j].from >= Due
    <3>1. rows[j].user \in Owners /\ <<j, rows[j].user>> \in listed'
      BY <2>1, <2>4, RowTypes DEF JobRow
    <3>2. rows[j].user # NoUser => ~ Orphaned(j)
      BY <2>4 DEF AccountsInv, RowIsTrue, Orphaned
    <3>3. rows[j].from >= Due \/ Orphaned(j)
      BY <2>0, <2>4 DEF AccountsInv, RowIsRecent
    <3> QED
      BY <3>1, <3>2, <3>3
  <2>5. ASSUME NEW j \in Jobs PROVE RowIsRecent(j)'
    <3>1. Due' - 1 = Due
      BY <1>0, <2>0 DEF Due
    <3> QED
      BY <2>0, <2>1, <2>4, <3>1 DEF RowIsRecent, Exists
  <2>6. OrderIsTrue'
    BY <2>0 DEF AccountsInv, OrderIsTrue
  <2> QED
    BY <2>2, <2>3, <2>5, <2>6 DEF AccountsInv
<1>3. CASE Publish
  <2>1. /\ UNCHANGED <<rows, orderedBy, order, listed>> /\ graph' = graph + 1 /\ Due' = Due
    BY <1>0, <1>3 DEF Publish, jobs, Due
  <2>2. ASSUME NEW j \in Jobs PROVE RowIsTrue(j)'
    BY <1>0, <2>1 DEF AccountsInv, RowIsTrue, Exists
  <2>3. ASSUME NEW j \in Jobs PROVE RowIsRecent(j)'
    BY <2>1 DEF AccountsInv, RowIsRecent, Exists, Orphaned
  <2> QED
    BY <2>1, <2>2, <2>3 DEF AccountsInv, OrderIsTrue, ListIsTrue
<1> QED
  BY <1>1, <1>2, <1>3 DEF WorkerStep

LEMMA NextAccounts == TypeOK /\ AccountsInv /\ [Next]_vars => AccountsInv'
<1> SUFFICES ASSUME TypeOK, AccountsInv, [Next]_vars PROVE AccountsInv'
  OBVIOUS
<1>1. CASE UNCHANGED <<jobs, worker>>
  BY <1>1, OthersKeepAccounts
<1>2. CASE ~ UNCHANGED <<jobs, worker>>
  <2>1. \/ \E t \in Threads : DeleteUser(t)
        \/ \E j \in Jobs : DeleteJob(j) \/ \E u \in Owners, b \in Boxes : StartPost(j, u, b)
        \/ Post \/ WorkerStep \/ Publish
    BY <1>2 DEF Next, ClientStep, ServerStep, PostUser, StartDeleteUser, PostKey, DeleteKey, StartPatch,
                Patch, NextDay, vars
  <2> QED
    BY <2>1, DeletionKeepsAccounts, JobsKeepAccounts, WorkKeepsAccounts
<1> QED
  BY <1>1, <1>2

(* Orders, rows and the list of updates agree on who ordered what, and on   *)
(* how far a package may be behind.                                        *)
THEOREM AccountsInvHolds == Spec => []AccountsInv
  BY InitAccounts, NextAccounts, TypeCorrect, PTL DEF Spec

(* A package that can be downloaded has every tile the graph has for its    *)
(* box, of every level, whatever the box, the tile sizes and the graph.    *)
THEOREM PackagesAreComplete == Spec => []PackagesCoverTheirBox
<1>1. TypeOK /\ AccountsInv => PackagesCoverTheirBox
  <2> SUFFICES ASSUME TypeOK, AccountsInv, NEW j \in Jobs, Exists(j), rows[j].status = "Completed"
               PROVE  Needs[rows[j].box] \subseteq rows[j].tiles
    BY DEF PackagesCoverTheirBox
  <2>1. rows[j].box \in Boxes /\ rows[j].box \in Box /\ ValidBox(rows[j].box)
    BY RowTypes DEF AccountsInv, RowIsTrue
  <2>2. Needed(GraphTiles, rows[j].box) \subseteq TilesWithBox(GraphTiles, rows[j].box)
    BY <2>1, NeededTilesAreSelected
  <2>3. rows[j].tiles = Selection[rows[j].box]
    BY DEF AccountsInv, RowIsTrue
  <2> QED
    BY <2>1, <2>2, <2>3 DEF Needs, Selection
<1> QED
  BY <1>1, TypeCorrect, AccountsInvHolds, PTL

(* Once the updates are through no package is behind, but for the one graph *)
(* a package may miss whose user was deleted while it was updated.         *)
THEOREM PackagesAreRecent == Spec => []PackagesFallBehindByOne
<1>1. TypeOK /\ AccountsInv => PackagesFallBehindByOne
  <2> SUFFICES ASSUME TypeOK, AccountsInv, updates = 0, listed = {},
                      NEW j \in Jobs, Exists(j), rows[j].status = "Completed"
               PROVE  rows[j].from = graph \/ (Orphaned(j) /\ rows[j].from = graph - 1)
    BY DEF PackagesFallBehindByOne
  <2>1. rows[j].from \in Nat /\ graph \in Nat /\ rows[j].from <= graph /\ Due = graph
    BY RowTypes DEF AccountsInv, RowIsTrue, Due, TypeOK
  <2>2. rows[j].from >= Due \/ (Orphaned(j) /\ rows[j].from >= Due - 1)
    BY DEF AccountsInv, RowIsRecent
  <2> QED
    BY <2>1, <2>2
<1> QED
  BY <1>1, TypeCorrect, AccountsInvHolds, PTL

-----------------------------------------------------------------------------
(* What a step may not do.                                                 *)

(* The only steps that empty a thread's hands.                             *)
LEMMA WhoFinishes ==
  ASSUME TypeOK, [Next]_vars, NEW t \in Threads, thread[t] # Nothing, thread'[t] # thread[t]
  PROVE  DeleteUser(t) \/ Patch(t)
<1>1. ASSUME NEW s \in Threads, s # t, DeleteUser(s) \/ Patch(s) PROVE FALSE
  BY <1>1 DEF DeleteUser, Patch, TypeOK
<1>2. ASSUME NEW s \in Threads, NEW u \in Users, StartDeleteUser(s, u) PROVE FALSE
  BY <1>2 DEF StartDeleteUser, TypeOK
<1>3. ASSUME NEW s \in Threads, NEW k \in Keys, NEW p \in Patches, StartPatch(s, k, p) PROVE FALSE
  BY <1>3 DEF StartPatch, TypeOK
<1> QED
  BY <1>1, <1>2, <1>3
     DEF Next, ClientStep, ServerStep, WorkerStep, PostUser, PostKey, DeleteKey, NextDay, StartPost, Post,
         DeleteJob, Create, List, Update, Publish, vars

(* A PATCH leaves the fields it does not name as they are when it commits,  *)
(* and sets the others unless they held that value when it was read.       *)
THEOREM PatchesKeepToTheirFields == Spec => PatchesDoAsAsked
<1> DEFINE d(t) == thread[t]
           Good(t) == d(t) # Nothing /\ IsPatch(d(t)) /\ thread'[t] # d(t) /\ keys[d(t).key] # NoRow =>
             \A f \in Fields :
               IF f \in DOMAIN d(t).want
               THEN keys'[d(t).key][f] = d(t).want[f] \/ keys[d(t).key][f] # d(t).was[f]
               ELSE keys'[d(t).key][f] = keys[d(t).key][f]
<1>1. TypeOK /\ [Next]_vars => [\A t \in Threads : Good(t)]_vars
  <2> SUFFICES ASSUME TypeOK, [Next]_vars, NEW t \in Threads,
                      d(t) # Nothing, IsPatch(d(t)), thread'[t] # d(t), keys[d(t).key] # NoRow,
                      NEW f \in Fields
               PROVE  IF f \in DOMAIN d(t).want
                      THEN keys'[d(t).key][f] = d(t).want[f] \/ keys[d(t).key][f] # d(t).was[f]
                      ELSE keys'[d(t).key][f] = keys[d(t).key][f]
    OBVIOUS
  <2>1. Patch(t)
    BY WhoFinishes DEF DeleteUser
  <2>2. d(t).key \in Keys
    BY DEF TypeOK, IsOfPatch, Deletion, IsPatch
  <2>3. keys' = [keys EXCEPT ![d(t).key] = Patched(d(t))]
    BY <2>1 DEF Patch
  <2>4. keys'[d(t).key] = Patched(d(t))
    BY <2>2, <2>3 DEF TypeOK
  <2> QED
    BY <2>4 DEF Patched
<1> QED
  BY <1>1, TypeCorrect, PTL DEF Spec, PatchesDoAsAsked

(* A user who could not be deleted has other jobs than when the request was *)
(* read.                                                                   *)
THEOREM OnlyRacesStopDeletions == Spec => DeletionsFailInRacesOnly
<1> DEFINE d(t) == thread[t]
           Good(t) == d(t) # Nothing /\ ~ IsPatch(d(t)) /\ thread'[t] # d(t) /\ d(t).user \in users'
                        => JobsOf(d(t).user) # d(t).jobs
<1>1. TypeOK /\ [Next]_vars => [\A t \in Threads : Good(t)]_vars
  <2> SUFFICES ASSUME TypeOK, [Next]_vars, NEW t \in Threads,
                      d(t) # Nothing, ~ IsPatch(d(t)), thread'[t] # d(t), d(t).user \in users',
                      JobsOf(d(t).user) = d(t).jobs
               PROVE  FALSE
    OBVIOUS
  <2>1. DeleteUser(t)
    BY WhoFinishes DEF Patch
  <2>2. d(t).user \in Users
    BY DEF TypeOK, IsOfPatch, Deletion
  <2>3. CannotDelete(d(t).user, d(t).jobs)
    BY <2>1 DEF DeleteUser
  <2>4. PICK j \in Jobs : Exists(j) /\ Detached(d(t).user, d(t).jobs)[j].user = d(t).user
    BY <2>3 DEF CannotDelete, JobsOf
  <2>5. CASE j \in d(t).jobs
    <3>1. rows[j] \in JobRow /\ Detached(d(t).user, d(t).jobs)[j] = [rows[j] EXCEPT !.user = NoUser]
      BY <2>4, <2>5, RowTypes DEF Detached
    <3>2. [rows[j] EXCEPT !.user = NoUser].user = NoUser
      BY <3>1 DEF JobRow
    <3> QED
      BY <2>2, <2>4, <3>1, <3>2
  <2>6. CASE j \notin d(t).jobs
    BY <2>4, <2>6 DEF Detached, JobsOf
  <2> QED
    BY <2>5, <2>6
<1> QED
  BY <1>1, TypeCorrect, PTL DEF Spec, DeletionsFailInRacesOnly
=============================================================================
