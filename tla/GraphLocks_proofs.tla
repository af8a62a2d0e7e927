------------------------- MODULE GraphLocks_proofs -------------------------
(***************************************************************************)
(* What the polling acquisition promises, for any number of processes and  *)
(* directories and whatever the lease, the interval and the timeouts are.  *)
(***************************************************************************)
EXTENDS GraphLocks, LockTable_proofs

USE LocksAssumption

-----------------------------------------------------------------------------
(* The inductive invariant.                                                *)

(* Who holds a lock remembers a key that is named for them, and a row under *)
(* that key, which may have been reaped, is the one they asked for.        *)
HoldersKnowTheirRows ==
  \A c \in Clients :
    /\ pc[c] = "held" <=> lock[c] # NoLock
    /\ lock[c] # NoLock =>
         /\ lock[c][1] = c
         /\ rows[lock[c]] # NoRow =>
              rows[lock[c]].path = want[c].path /\ rows[lock[c]].mode = want[c].mode

(* A nap ends by the deadline, and so does what may be missed during it.   *)
NapsEndInTime ==
  \A c \in Clients :
    /\ remaining[c] >= 0
    /\ missed[c] <= PollInterval
    /\ pc[c] = "sleep" => nap[c] <= remaining[c] /\ missed[c] + nap[c] <= PollInterval

LocksInv == Compatible(rows) /\ HoldersKnowTheirRows /\ NapsEndInTime

-----------------------------------------------------------------------------
(* Type correctness.                                                       *)

(* The key of a new row is unused, nobody remembers it, and it is named    *)
(* for the client.                                                         *)
LEMMA NextKeyIsFresh ==
  ASSUME NEW c, NEW i \in NextKey(c)
  PROVE  /\ i \in LockId /\ i \in Unused(rows) /\ i[1] = c
         /\ \A d \in Clients : lock[d] # i
  BY DEF NextKey, KeysOf, Unused

LEMMA NoRequestType == NoRequest \in Request
  BY DEF NoRequest, Request, LockMode

LEMMA InitType == Init => TypeOK
  BY NoRequestType DEF Init, TypeOK, LockTables, EmptyTable, Pc

LEMMA TickedRows ==
  ASSUME TypeOK, Tick
  PROVE  /\ rows' \in LockTables
         /\ \A i \in LockId :
              /\ rows'[i] = NoRow <=> rows[i] = NoRow
              /\ rows[i] # NoRow => /\ rows'[i].path = rows[i].path
                                    /\ rows'[i].mode = rows[i].mode
                                    /\ rows'[i].left <= rows[i].left
              /\ Live(rows, i) => rows'[i].left = rows[i].left - 1
<1>1. rows \in LockTables
      /\ rows' = [i \in LockId |-> IF Live(rows, i) THEN [rows[i] EXCEPT !.left = @ - 1]
                                   ELSE rows[i]]
  BY DEF TypeOK, Tick
<1>2. ASSUME NEW i \in LockId, Live(rows, i)
      PROVE  /\ rows'[i] \in LockRow
             /\ rows'[i].path = rows[i].path /\ rows'[i].mode = rows[i].mode
             /\ rows'[i].left = rows[i].left - 1
  BY <1>1, <1>2 DEF LockTables, LockRow, Live
<1>3. ASSUME NEW i \in LockId, ~ Live(rows, i)
      PROVE  rows'[i] = rows[i]
  BY <1>1, <1>3
<1>4. ASSUME NEW i \in LockId, rows[i] # NoRow
      PROVE  rows[i] \in LockRow /\ rows[i].left \in Nat
  BY <1>1, <1>4 DEF LockTables, LockRow
<1>5. rows' \in LockTables
  BY <1>1, <1>2, <1>3 DEF LockTables
<1> QED
  BY <1>2, <1>3, <1>4, <1>5, NoRowAssumption DEF Live

LEMMA NextType == TypeOK /\ [Next]_vars => TypeOK'
<1> SUFFICES ASSUME TypeOK, [Next]_vars PROVE TypeOK'
  OBVIOUS
<1> USE DEF TypeOK, Pc
<1>1. ASSUME NEW c \in Clients, Call(c) PROVE TypeOK'
  BY <1>1 DEF Call
<1>2. ASSUME NEW c \in Clients, TryGranted(c) PROVE TypeOK'
  <2>1. PICK i \in NextKey(c) :
          /\ rows' = Granted(rows, i, want[c].path, want[c].mode, Ttl)
          /\ lock' = [lock EXCEPT ![c] = i]
    BY <1>2 DEF TryGranted
  <2>0. i \in LockId /\ want[c].path \in Path /\ want[c].mode \in LockMode
    BY <2>1, NextKeyIsFresh DEF Request
  <2>2. i \in LockId /\ rows' \in LockTables
    BY <2>0, <2>1, TableOperations
  <2>3. lock' \in [Clients -> LockId \cup {NoLock}]
    BY <2>1, <2>2
  <2>4. pc' \in [Clients -> Pc] /\ remaining' \in [Clients -> Int] /\ missed' \in [Clients -> Nat]
        /\ want' = want /\ nap' = nap
    BY <1>2 DEF TryGranted
  <2> QED
    BY <2>2, <2>3, <2>4
<1>3. ASSUME NEW c \in Clients, TryRefused(c) PROVE TypeOK'
  <2>1. rows' \in LockTables
    BY <1>3 DEF TryRefused, Denied, Reap, LockTables
  <2>2. remaining[c] > 0 => Nap(remaining[c]) \in 0..PollInterval
    BY DEF Nap
  <2> QED
    BY <1>3, <2>1, <2>2, NoRequestType DEF TryRefused, TimeLeft
<1>4. ASSUME NEW c \in Clients, Wake(c) PROVE TypeOK'
  BY <1>4 DEF Wake
<1>5. ASSUME NEW c \in Clients, Release(c) PROVE TypeOK'
  BY <1>5, NoRequestType DEF Release, GivenBack, Released, LockTables
<1>6. ASSUME NEW c \in Clients, Crash(c) PROVE TypeOK'
  BY <1>6, NoRequestType DEF Crash
<1>7. CASE Tick
  <2>1. rows' \in LockTables
    BY <1>7, TickedRows
  <2>2. nap' \in [Clients -> 0..PollInterval]
    <3>1. \A c \in Clients : nap[c] \in 0..PollInterval /\ (pc[c] = "sleep" => nap[c] # 0)
      BY <1>7 DEF Tick, Due
    <3>2. nap' = [c \in Clients |-> IF pc[c] = "sleep" THEN nap[c] - 1 ELSE nap[c]]
      BY <1>7 DEF Tick
    <3> QED
      BY <3>1, <3>2
  <2>3. missed' \in [Clients -> Nat] /\ remaining' \in [Clients -> Int]
    BY <1>7 DEF Tick
  <2> QED
    BY <1>7, <2>1, <2>2, <2>3 DEF Tick
<1>8. CASE UNCHANGED vars
  BY <1>8 DEF vars
<1> QED
  BY <1>1, <1>2, <1>3, <1>4, <1>5, <1>6, <1>7, <1>8 DEF Next, Attempt

(* The table, the requests, the clocks and the keys that are remembered    *)
(* are of their types (lock_utils.py).                                     *)
THEOREM TypeCorrect == Spec => []TypeOK
  BY InitType, NextType, PTL DEF Spec

-----------------------------------------------------------------------------
(* The leases.                                                             *)

LEMMA InitInv == Init => LocksInv
  BY DEF Init, LocksInv, EmptyTable, Compatible, Live, HoldersKnowTheirRows, NapsEndInTime

LEMMA NextCompatible ==
  ASSUME TypeOK, TypeOK', LocksInv, [Next]_vars
  PROVE  Compatible(rows')
<1> USE DEF LocksInv
<1>0. rows \in LockTables /\ rows' \in LockTables
  BY DEF TypeOK
<1>1. ASSUME NEW c \in Clients, TryGranted(c) PROVE Compatible(rows')
  <2>1. PICK i \in NextKey(c) : rows' = Granted(rows, i, want[c].path, want[c].mode, Ttl)
    BY <1>1 DEF TryGranted
  <2>2. want[c].path \in Path /\ want[c].mode \in LockMode
    BY DEF TypeOK, Request
  <2> QED
    BY <1>0, <1>1, <2>1, <2>2, NextKeyIsFresh, GrantKeepsCompatible DEF TryGranted, Free
<1>2. ASSUME NEW c \in Clients, TryRefused(c) PROVE Compatible(rows')
  BY <1>0, <1>2, DeniedRows, FewerRowsCompatible DEF TryRefused
<1>3. ASSUME NEW c \in Clients, Release(c) PROVE Compatible(rows')
  <2>1. \A j \in LockId : Live(rows', j) => Live(rows, j) /\ rows'[j] = rows[j]
    BY <1>0, <1>3 DEF Release, GivenBack, Released, Live, LockTables
  <2> QED
    BY <1>0, <2>1, FewerRowsCompatible
<1>4. CASE Tick
  <2>1. \A j \in LockId :
          Live(rows', j) => /\ Live(rows, j)
                            /\ rows'[j].path = rows[j].path /\ rows'[j].mode = rows[j].mode
    <3> SUFFICES ASSUME NEW j \in LockId, Live(rows', j)
                 PROVE  /\ Live(rows, j)
                        /\ rows'[j].path = rows[j].path /\ rows'[j].mode = rows[j].mode
      OBVIOUS
    <3>1. rows[j] # NoRow /\ rows'[j].left > 0 /\ rows'[j].left <= rows[j].left
          /\ rows'[j].path = rows[j].path /\ rows'[j].mode = rows[j].mode
      BY <1>4, TickedRows DEF Live
    <3>2. rows[j].left \in Nat /\ rows'[j].left \in Nat
      BY <1>0, <3>1, TickedRows, <1>4 DEF LockTables, LockRow
    <3> QED
      BY <3>1, <3>2 DEF Live
  <2> QED
    BY <1>0, <2>1, FewerRowsCompatible
<1>5. CASE UNCHANGED rows
  BY <1>5 DEF Compatible, Live
<1> QED
  BY <1>1, <1>2, <1>3, <1>4, <1>5
     DEF Next, Attempt, Call, Wake, Crash, vars

(* A row under a key somebody remembers is not made anew, and not changed   *)
(* but for its time.                                                       *)
LEMMA RememberedRows ==
  ASSUME TypeOK, TypeOK', LocksInv, [Next]_vars, NEW c \in Clients,
         lock[c] # NoLock, lock'[c] = lock[c]
  PROVE  /\ rows'[lock[c]] # NoRow =>
              /\ rows[lock[c]] # NoRow
              /\ rows'[lock[c]].path = rows[lock[c]].path
              /\ rows'[lock[c]].mode = rows[lock[c]].mode
         /\ Live(rows, lock[c]) =>
              rows'[lock[c]] # NoRow /\ rows'[lock[c]].left >= rows[lock[c]].left - 1
<1> DEFINE k == lock[c]
<1>0. k \in LockId /\ k[1] = c /\ rows \in LockTables
      /\ \A d \in Clients : lock[d] # NoLock => lock[d] \in LockId /\ lock[d][1] = d
  BY DEF TypeOK, LocksInv, HoldersKnowTheirRows
<1>01. rows[k] # NoRow => rows[k].left \in Nat
  BY <1>0 DEF LockTables, LockRow
<1>1. ASSUME NEW d \in Clients, TryGranted(d)
      PROVE  rows'[k] = IF Live(rows, k) THEN rows[k] ELSE NoRow
  <2>1. PICK i \in NextKey(d) : rows' = Granted(rows, i, want[d].path, want[d].mode, Ttl)
    BY <1>1 DEF TryGranted
  <2>2. i # k
    BY NextKeyIsFresh
  <2> QED
    BY <1>0, <2>1, <2>2 DEF Granted, Reap
<1>2. ASSUME NEW d \in Clients, TryRefused(d)
      PROVE  rows'[k] = IF Live(rows, k) THEN rows[k] ELSE NoRow
  BY <1>0, <1>2 DEF TryRefused, Denied, Reap
<1>3. ASSUME NEW d \in Clients, Release(d) PROVE rows'[k] = rows[k]
  <2>1. lock[d] # NoLock /\ lock'[d] = NoLock
    BY <1>3 DEF Release, TypeOK, LocksInv, HoldersKnowTheirRows
  <2>2. lock[d] # k
    BY <1>0, <2>1
  <2> QED
    BY <1>0, <1>3, <2>2 DEF Release, GivenBack, Released
<1>4. CASE Tick
  BY <1>0, <1>01, <1>4, TickedRows DEF Live
<1>5. CASE UNCHANGED rows
  BY <1>01, <1>5 DEF Live
<1>6. \/ rows'[k] = rows[k]
      \/ rows'[k] = IF Live(rows, k) THEN rows[k] ELSE NoRow
      \/ Tick
  BY <1>1, <1>2, <1>3, <1>5 DEF Next, Attempt, Call, Wake, Crash, vars
<1>7. CASE rows'[k] = rows[k]
  BY <1>01, <1>7 DEF Live
<1>8. CASE rows'[k] = IF Live(rows, k) THEN rows[k] ELSE NoRow
  BY <1>01, <1>8 DEF Live
<1> QED
  BY <1>4, <1>6, <1>7, <1>8

LEMMA NextHolders ==
  ASSUME TypeOK, TypeOK', LocksInv, [Next]_vars
  PROVE  HoldersKnowTheirRows'
<1> SUFFICES ASSUME NEW c \in Clients
             PROVE  /\ pc'[c] = "held" <=> lock'[c] # NoLock
                    /\ lock'[c] # NoLock =>
                         /\ lock'[c][1] = c
                         /\ rows'[lock'[c]] # NoRow =>
                              /\ rows'[lock'[c]].path = want'[c].path
                              /\ rows'[lock'[c]].mode = want'[c].mode
  BY DEF HoldersKnowTheirRows
<1>0. HoldersKnowTheirRows
  BY DEF LocksInv
<1>1. CASE TryGranted(c)
  <2>1. PICK i \in NextKey(c) :
          /\ rows' = Granted(rows, i, want[c].path, want[c].mode, Ttl)
          /\ lock' = [lock EXCEPT ![c] = i]
    BY <1>1 DEF TryGranted
  <2>2. i \in LockId /\ i[1] = c /\ i # NoLock
    BY <2>1, NextKeyIsFresh
  <2>3. lock'[c] = i /\ pc'[c] = "held" /\ want' = want
    BY <1>1, <2>1 DEF TryGranted, TypeOK
  <2>4. rows'[i] = [path |-> want[c].path, mode |-> want[c].mode, left |-> Ttl]
    BY <2>1, <2>2 DEF Granted, Reap
  <2> QED
    BY <2>2, <2>3, <2>4
<1>2. CASE Release(c) \/ Crash(c)
  BY <1>2 DEF Release, Crash, TypeOK
<1>3. CASE Call(c) \/ TryRefused(c) \/ Wake(c)
  <2>1. lock[c] = NoLock
    BY <1>0, <1>3 DEF HoldersKnowTheirRows, Call, TryRefused, Wake
  <2> QED
    BY <1>3, <2>1 DEF Call, TryRefused, Wake, TypeOK
<1>4. CASE /\ lock'[c] = lock[c] /\ want'[c] = want[c]
           /\ pc'[c] = "held" <=> pc[c] = "held"
  BY <1>0, <1>4, RememberedRows DEF HoldersKnowTheirRows
<1>5. ASSUME NEW d \in Clients \ {c},
             Call(d) \/ TryGranted(d) \/ TryRefused(d) \/ Wake(d) \/ Release(d) \/ Crash(d)
      PROVE  lock'[c] = lock[c] /\ want'[c] = want[c] /\ pc'[c] = pc[c]
  BY <1>5 DEF Call, TryGranted, TryRefused, Wake, Release, Crash, TypeOK
<1>6. CASE Tick \/ UNCHANGED vars
  BY <1>4, <1>6 DEF Tick, vars, TypeOK
<1> QED
  BY <1>1, <1>2, <1>3, <1>4, <1>5, <1>6 DEF Next, Attempt

LEMMA NextNaps ==
  ASSUME TypeOK, TypeOK', LocksInv, [Next]_vars
  PROVE  NapsEndInTime'
<1> SUFFICES ASSUME NEW c \in Clients
             PROVE  /\ remaining'[c] >= 0
                    /\ missed'[c] <= PollInterval
                    /\ pc'[c] = "sleep" => /\ nap'[c] <= remaining'[c]
                                           /\ missed'[c] + nap'[c] <= PollInterval
  BY DEF NapsEndInTime
<1>0. /\ remaining[c] \in Int /\ missed[c] \in Nat /\ nap[c] \in 0..PollInterval
      /\ remaining[c] >= 0
      /\ missed[c] <= PollInterval
      /\ pc[c] = "sleep" => nap[c] <= remaining[c] /\ missed[c] + nap[c] <= PollInterval
  BY DEF LocksInv, NapsEndInTime, TypeOK
<1>1. CASE Call(c)
  BY <1>0, <1>1 DEF Call, TypeOK
<1>2. CASE TryGranted(c)
  BY <1>0, <1>2 DEF TryGranted, TypeOK
<1>3. CASE TryRefused(c)
  <2>1. remaining[c] > 0 => Nap(remaining[c]) <= remaining[c] /\ Nap(remaining[c]) <= PollInterval
    BY <1>0 DEF Nap
  <2>2. Nap(remaining[c]) \in Int
    BY <1>0 DEF Nap
  <2> QED
    BY <1>0, <1>3, <2>1, <2>2 DEF TryRefused, TimeLeft, TypeOK
<1>4. CASE Wake(c) \/ Release(c) \/ Crash(c)
  BY <1>0, <1>4 DEF Wake, Release, Crash, TypeOK
<1>5. ASSUME NEW d \in Clients \ {c},
             Call(d) \/ TryGranted(d) \/ TryRefused(d) \/ Wake(d) \/ Release(d) \/ Crash(d)
      PROVE  /\ pc'[c] = pc[c] /\ remaining'[c] = remaining[c] /\ nap'[c] = nap[c]
             /\ missed'[c] = missed[c]
  BY <1>5 DEF Call, TryGranted, TryRefused, Wake, Release, Crash, TypeOK
<1>6. CASE Tick
  <2>1. CASE pc[c] = "sleep"
    <3>1. nap[c] > 0 /\ remaining'[c] = remaining[c] - 1 /\ nap'[c] = nap[c] - 1
      BY <1>0, <1>6, <2>1 DEF Tick, Due
    <3>2. missed'[c] = 0 \/ missed'[c] = missed[c] + 1
      BY <1>6 DEF Tick
    <3> QED
      BY <1>0, <2>1, <3>1, <3>2
  <2>2. CASE pc[c] # "sleep"
    BY <1>0, <1>6, <2>2 DEF Tick, TypeOK
  <2> QED
    BY <2>1, <2>2
<1>7. CASE UNCHANGED vars
  BY <1>0, <1>7 DEF vars
<1> QED
  BY <1>0, <1>1, <1>2, <1>3, <1>4, <1>5, <1>6, <1>7 DEF Next, Attempt

(* Leases exclude each other, holders know their rows, naps end in time.   *)
THEOREM LocksInvHolds == Spec => []LocksInv
<1>1. TypeOK /\ TypeOK' /\ LocksInv /\ [Next]_vars => LocksInv'
  BY NextCompatible, NextHolders, NextNaps DEF LocksInv
<1> QED
  BY <1>1, InitInv, TypeCorrect, PTL DEF Spec

-----------------------------------------------------------------------------
(* What follows from the invariant.                                        *)

(* Holders of one directory whose leases run hold it shared.               *)
THEOREM HoldersDoAgree == Spec => []HoldersAgree
<1>1. TypeOK /\ LocksInv => HoldersAgree
  <2> SUFFICES ASSUME TypeOK, LocksInv, NEW c \in Clients, NEW d \in Clients,
                      c # d, pc[c] = "held", pc[d] = "held", want[c].path = want[d].path,
                      Live(rows, lock[c]), Live(rows, lock[d])
               PROVE  want[c].mode = "shared" /\ want[d].mode = "shared"
    BY DEF HoldersAgree
  <2>1. /\ lock[c] \in LockId /\ lock[d] \in LockId /\ lock[c] # lock[d]
        /\ rows[lock[c]].path = want[c].path /\ rows[lock[c]].mode = want[c].mode
        /\ rows[lock[d]].path = want[d].path /\ rows[lock[d]].mode = want[d].mode
    BY DEF LocksInv, HoldersKnowTheirRows, TypeOK, Live
  <2> QED
    BY <2>1 DEF LocksInv, Compatible
<1> QED
  BY <1>1, TypeCorrect, LocksInvHolds, PTL

(* No call overstays its timeout.                                          *)
THEOREM DeadlinesHold == Spec => []DeadlinesAreMet
<1>1. LocksInv => DeadlinesAreMet
  BY DEF LocksInv, NapsEndInTime, DeadlinesAreMet
<1> QED
  BY <1>1, LocksInvHolds, PTL

(* No call sleeps beside a free lock for longer than one interval.         *)
THEOREM FreeLocksAreTaken == Spec => []FreeLocksAreNoticed
<1>1. LocksInv => FreeLocksAreNoticed
  BY DEF LocksInv, NapsEndInTime, FreeLocksAreNoticed
<1> QED
  BY <1>1, LocksInvHolds, PTL

(* Nobody but its holder ends a lease with time left, whoever comes late.  *)
THEOREM LeasesLast == Spec => LeasesAreOnlyEndedByTheirHolders
<1> DEFINE Kept ==
      \A c \in Clients :
        pc[c] = "held" /\ pc'[c] = "held" /\ rows[lock[c]] # NoRow /\ rows[lock[c]].left > 0
          => rows'[lock[c]] # NoRow /\ rows'[lock[c]].left >= rows[lock[c]].left - 1
<1>1. TypeOK /\ TypeOK' /\ LocksInv /\ [Next]_vars => Kept
  <2> SUFFICES ASSUME TypeOK, TypeOK', LocksInv, [Next]_vars,
                      NEW c \in Clients, pc[c] = "held", pc'[c] = "held", Live(rows, lock[c])
               PROVE  rows'[lock[c]] # NoRow /\ rows'[lock[c]].left >= rows[lock[c]].left - 1
    BY DEF Live
  <2>1. lock[c] # NoLock
    BY DEF LocksInv, HoldersKnowTheirRows
  <2>2. ASSUME NEW d \in Clients, Call(d) \/ TryRefused(d) \/ Wake(d) \/ TryGranted(d)
        PROVE  lock'[c] = lock[c]
    BY <2>2 DEF Call, TryRefused, Wake, TryGranted, TypeOK
  <2>3. ASSUME NEW d \in Clients, Release(d) \/ Crash(d)
        PROVE  lock'[c] = lock[c]
    BY <2>3 DEF Release, Crash, TypeOK
  <2>4. ASSUME Tick \/ UNCHANGED vars PROVE lock'[c] = lock[c]
    BY <2>4 DEF Tick, vars
  <2>5. lock'[c] = lock[c]
    BY <2>2, <2>3, <2>4 DEF Next, Attempt
  <2> QED
    BY <2>1, <2>5, RememberedRows
<1>2. TypeOK /\ TypeOK' /\ LocksInv /\ [Next]_vars => [Kept]_vars
  BY <1>1
<1> QED
  BY <1>2, TypeCorrect, LocksInvHolds, PTL DEF Spec, LeasesAreOnlyEndedByTheirHolders

-----------------------------------------------------------------------------
(* The table and the clock as leases.                                      *)

LEMMA FewerRowsEndLeases ==
  ASSUME \A j \in LockId :
           Live(rows', j) => Live(rows, j) /\ rows'[j].path = rows[j].path /\ rows'[j].mode = rows[j].mode
  PROVE  Service!Next \/ UNCHANGED LeasesOf(rows)
<1> DEFINE gone == LeasesOf(rows) \ LeasesOf(rows')
<1>1. LeasesOf(rows') \subseteq LeasesOf(rows)
  BY FewerLeases
<1>2. gone \in SUBSET LeasesOf(rows) /\ LeasesOf(rows)' = LeasesOf(rows) \ gone
  <2>1. LeasesOf(rows)' = LeasesOf(rows')
    BY DEF LeasesOf, Live
  <2> QED
    BY <1>1, <2>1
<1> QED
  BY <1>2 DEF Service!Next, Service!End

LEMMA StepLeases == TypeOK /\ [Next]_vars => [Service!Next]_(LeasesOf(rows))
<1> SUFFICES ASSUME TypeOK, [Next]_vars PROVE Service!Next \/ UNCHANGED LeasesOf(rows)
  OBVIOUS
<1>0. rows \in LockTables
  BY DEF TypeOK
<1>1. ASSUME NEW c \in Clients, TryGranted(c) PROVE Service!Next
  <2>1. PICK i \in NextKey(c) : rows' = Granted(rows, i, want[c].path, want[c].mode, Ttl)
    BY <1>1 DEF TryGranted
  <2>2. want[c].path \in Path /\ want[c].mode \in LockMode /\ i \in LockId /\ i \in Unused(rows)
        /\ Grantable(rows, want[c].path, want[c].mode)
    BY <1>1, <2>1, NextKeyIsFresh DEF TypeOK, Request, TryGranted, Free
  <2> DEFINE l == [id |-> i, path |-> want[c].path, mode |-> want[c].mode]
  <2>3. LeasesOf(rows') = LeasesOf(rows) \cup {l}
        /\ \A k \in LeasesOf(rows) :
             k.id # i /\ (k.path = want[c].path => k.mode = "shared" /\ want[c].mode = "shared")
    BY <1>0, <2>1, <2>2, GrantTakesLease
  <2>4. LeasesOf(rows)' = LeasesOf(rows')
    BY DEF LeasesOf, Live
  <2>5. l \in Service!Lease
    BY <2>2 DEF Service!Lease, LockMode
  <2>6. Service!Take(l)
    BY <2>3, <2>4 DEF Service!Take, Service!Admits
  <2> QED
    BY <2>5, <2>6 DEF Service!Next
<1>2. ASSUME NEW c \in Clients, TryRefused(c) PROVE Service!Next \/ UNCHANGED LeasesOf(rows)
  BY <1>0, <1>2, DeniedRows, FewerRowsEndLeases DEF TryRefused
<1>3. ASSUME NEW c \in Clients, Release(c) PROVE Service!Next \/ UNCHANGED LeasesOf(rows)
  <2>1. \A j \in LockId : Live(rows', j) => Live(rows, j) /\ rows'[j] = rows[j]
    BY <1>0, <1>3 DEF Release, GivenBack, Released, Live, LockTables
  <2> QED
    BY <2>1, FewerRowsEndLeases
<1>4. CASE Tick
  <2>1. ASSUME NEW j \in LockId, Live(rows', j)
        PROVE  Live(rows, j) /\ rows'[j].path = rows[j].path /\ rows'[j].mode = rows[j].mode
    <3>1. /\ rows[j] # NoRow /\ rows'[j].left > 0 /\ rows'[j].left <= rows[j].left
          /\ rows'[j].path = rows[j].path /\ rows'[j].mode = rows[j].mode
      BY <1>4, <2>1, TickedRows DEF Live
    <3>2. rows[j].left \in Nat /\ rows'[j].left \in Nat
      BY <1>0, <1>4, <2>1, <3>1, TickedRows DEF LockTables, LockRow, Live
    <3> QED
      BY <3>1, <3>2 DEF Live
  <2> QED
    BY <2>1, FewerRowsEndLeases
<1>5. CASE UNCHANGED rows
  BY <1>5 DEF LeasesOf, Live
<1> QED
  BY <1>1, <1>2, <1>3, <1>4, <1>5 DEF Next, Attempt, Call, Wake, Crash, vars

(* The polling under the clock is a service of leases: one is taken only   *)
(* beside leases that admit it, and goes on as it was taken until it ends. *)
THEOREM LocksImplementLeases == Spec => ImplementsLeases
<1>1. Init => Service!Init
  BY DEF Init, Service!Init, LeasesOf, EmptyTable, Live
<1> QED
  BY <1>1, StepLeases, TypeCorrect, PTL DEF Spec, ImplementsLeases, Service!Spec

=============================================================================
