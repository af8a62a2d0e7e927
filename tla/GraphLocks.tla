---------------------------- MODULE GraphLocks ----------------------------
(***************************************************************************)
(* utils/lock_utils.py against the clock: processes that take leases on    *)
(* directories with a timeout, keep them for as long as they like, give    *)
(* them back or die.                                                       *)
(*                                                                         *)
(* One tick is the unit every duration is counted in.  An attempt takes no *)
(* time, and a process that is due for one makes it before the next tick:  *)
(* the timing properties say what the polling promises on a machine that   *)
(* is fast enough.  A client that is through with a call rests until the   *)
(* next tick, so that time cannot stand still.                             *)
(***************************************************************************)
EXTENDS LockTable

CONSTANTS
  Clients,        \* builders and workers, all of which run the same code
  Timeouts,       \* the timeouts they are called with
  Ttl,            \* GRAPH_LOCK_TTL
  PollInterval,   \* LOCK_POLL_INTERVAL
  NoLock,         \* lock_id is None
  KeysEach        \* bound: how many of its rows a client can have at once

ASSUME LocksAssumption ==
  /\ LockId = Clients \X (1..KeysEach)
  /\ NoLock \notin LockId
  /\ KeysEach \in Nat
  /\ Path # {}
  /\ Timeouts \subseteq Nat
  /\ Ttl \in Nat \ {0}
  /\ PollInterval \in Nat \ {0}

VARIABLES
  rows,        \* the graph_locks table
  pc,          \* client -> its place in _acquire and in the body of the lock
  want,        \* client -> the path and the mode it asks for
  remaining,   \* client -> the time until its deadline
  nap,         \* client -> the time until it wakes up
  lock,        \* client -> the id of its row
  missed       \* client -> history: how long it has slept beside a free lock

vars == <<rows, pc, want, remaining, nap, lock, missed>>

Pc == {"idle", "try", "sleep", "held", "rest"}

Request == [path : Path, mode : LockMode]

NoRequest == [path |-> CHOOSE p \in Path : TRUE, mode |-> "shared"]

Init ==
  /\ rows = EmptyTable
  /\ pc = [c \in Clients |-> "idle"]
  /\ want = [c \in Clients |-> NoRequest]
  /\ remaining = [c \in Clients |-> 0]
  /\ nap = [c \in Clients |-> 0]
  /\ lock = [c \in Clients |-> NoLock]
  /\ missed = [c \in Clients |-> 0]

Free(c) == Grantable(rows, want[c].path, want[c].mode)

(* Serial keys: what a live process remembers is not given out again. *)
KeysOf(c) == { i \in Unused(rows) : i[1] = c /\ \A d \in Clients : lock[d] # i }

NextKey(c) == { i \in KeysOf(c) : \A j \in KeysOf(c) : i[2] <= j[2] }

(* _acquire is entered: the deadline is set. *)
Call(c) ==
  /\ pc[c] = "idle"
  /\ KeysOf(c) # {}
  /\ pc' = [pc EXCEPT ![c] = "try"]
  /\ \E r \in Request : want' = [want EXCEPT ![c] = r]
  /\ \E timeout \in Timeouts : remaining' = [remaining EXCEPT ![c] = timeout]
  /\ UNCHANGED <<rows, nap, lock, missed>>

(* _try_acquire, one transaction under the table's own lock. *)
TryGranted(c) ==
  /\ pc[c] = "try"
  /\ Free(c)
  /\ \E i \in NextKey(c) :
       /\ rows' = Granted(rows, i, want[c].path, want[c].mode, Ttl)
       /\ lock' = [lock EXCEPT ![c] = i]
  /\ pc' = [pc EXCEPT ![c] = "held"]
  /\ remaining' = [remaining EXCEPT ![c] = 0]
  /\ missed' = [missed EXCEPT ![c] = 0]
  /\ UNCHANGED <<want, nap>>

(* Mutations: one long sleep to the deadline; a full interval every time. *)
WholeNap(r) == r

FullNap(r) == PollInterval

Nap(r) == IF r < PollInterval THEN r ELSE PollInterval

(* Mutation: the deadline itself is no deadline. *)
NotPast(c) == remaining[c] >= 0

TimeLeft(c) == remaining[c] > 0

TryRefused(c) ==
  /\ pc[c] = "try"
  /\ ~ Free(c)
  /\ rows' = Denied(rows)
  /\ missed' = [missed EXCEPT ![c] = 0]
  /\ \/ /\ TimeLeft(c)
        /\ pc' = [pc EXCEPT ![c] = "sleep"]
        /\ nap' = [nap EXCEPT ![c] = Nap(remaining[c])]
        /\ UNCHANGED <<want, remaining>>
     \/ /\ ~ TimeLeft(c)
        /\ pc' = [pc EXCEPT ![c] = "rest"]
        /\ want' = [want EXCEPT ![c] = NoRequest]
        /\ remaining' = [remaining EXCEPT ![c] = 0]
        /\ UNCHANGED nap
  /\ UNCHANGED lock

Wake(c) ==
  /\ pc[c] = "sleep"
  /\ nap[c] = 0
  /\ pc' = [pc EXCEPT ![c] = "try"]
  /\ UNCHANGED <<rows, want, remaining, nap, lock, missed>>

(* Mutation: the rows on the path are deleted and not the row of that id. *)
PathGivenBack(c) ==
  [i \in LockId |-> IF rows[i] # NoRow /\ rows[i].path = want[c].path THEN NoRow ELSE rows[i]]

GivenBack(c) == Released(rows, lock[c])

(* The finally of both context managers. *)
Release(c) ==
  /\ pc[c] = "held"
  /\ rows' = GivenBack(c)
  /\ lock' = [lock EXCEPT ![c] = NoLock]
  /\ pc' = [pc EXCEPT ![c] = "rest"]
  /\ want' = [want EXCEPT ![c] = NoRequest]
  /\ UNCHANGED <<remaining, nap, missed>>

(* The process is killed with the lock in its hands. *)
Crash(c) ==
  /\ pc[c] = "held"
  /\ lock' = [lock EXCEPT ![c] = NoLock]
  /\ pc' = [pc EXCEPT ![c] = "rest"]
  /\ want' = [want EXCEPT ![c] = NoRequest]
  /\ UNCHANGED <<rows, remaining, nap, missed>>

Due(c) == pc[c] = "try" \/ (pc[c] = "sleep" /\ nap[c] = 0)

Tick ==
  /\ \A c \in Clients : ~ Due(c)
  /\ rows' = [i \in LockId |->
                IF Live(rows, i) THEN [rows[i] EXCEPT !.left = @ - 1] ELSE rows[i]]
  /\ remaining' = [c \in Clients |-> IF pc[c] = "sleep" THEN remaining[c] - 1
                                    ELSE remaining[c]]
  /\ nap' = [c \in Clients |-> IF pc[c] = "sleep" THEN nap[c] - 1 ELSE nap[c]]
  /\ missed' = [c \in Clients |-> IF pc[c] = "sleep" /\ Free(c) THEN missed[c] + 1 ELSE 0]
  /\ pc' = [c \in Clients |-> IF pc[c] = "rest" THEN "idle" ELSE pc[c]]
  /\ UNCHANGED <<want, lock>>

Attempt(c) == TryGranted(c) \/ TryRefused(c)

Next ==
  \/ \E c \in Clients :
       Call(c) \/ Attempt(c) \/ Wake(c) \/ Release(c) \/ Crash(c)
  \/ Tick

(* Time passes whatever the clients do, and a waiting client is scheduled. *)
(* No holder has to give its lock back.                                    *)
Fairness ==
  /\ WF_vars(Tick)
  /\ \A c \in Clients : WF_vars(Attempt(c)) /\ WF_vars(Wake(c))

Spec == Init /\ [][Next]_vars /\ Fairness

-----------------------------------------------------------------------------
TypeOK ==
  /\ rows \in LockTables
  /\ pc \in [Clients -> Pc]
  /\ want \in [Clients -> Request]
  /\ remaining \in [Clients -> Int]
  /\ nap \in [Clients -> 0..PollInterval]
  /\ lock \in [Clients -> LockId \cup {NoLock}]
  /\ missed \in [Clients -> Nat]

(* Two processes that both believe to hold a lock on one directory, and    *)
(* whose leases have not run out, both hold it shared.                     *)
HoldersAgree ==
  \A c, d \in Clients :
    /\ c # d
    /\ pc[c] = "held" /\ pc[d] = "held"
    /\ want[c].path = want[d].path
    /\ Live(rows, lock[c]) /\ Live(rows, lock[d])
    => want[c].mode = "shared" /\ want[d].mode = "shared"

(* A lease with time left keeps its row, and the whole of that time, until *)
(* its holder lets go.  A holder that comes back late, when its expired    *)
(* row has been reaped and the directory leased to somebody else, releases *)
(* nothing that is not its own (_release deletes by id).                   *)
LeasesAreOnlyEndedByTheirHolders ==
  [][\A c \in Clients :
       pc[c] = "held" /\ pc'[c] = "held" /\ rows[lock[c]] # NoRow /\ rows[lock[c]].left > 0
         => rows'[lock[c]] # NoRow /\ rows'[lock[c]].left >= rows[lock[c]].left - 1]_vars

(* The rows, the reaping, the naps and the clock amount to leases (module   *)
(* Leases): one is taken beside compatible ones only, and none changes     *)
(* hands, path or mode, or comes back after it ended.                      *)
Service == INSTANCE Leases WITH leases <- LeasesOf(rows)

ImplementsLeases == Service!Spec

(* A call never overstays its timeout: the last nap ends at the deadline.  *)
DeadlinesAreMet == \A c \in Clients : remaining[c] >= 0

(* A lock that has come free is left lying for one interval at most.       *)
FreeLocksAreNoticed == \A c \in Clients : missed[c] <= PollInterval

(* Every call returns, with the lock or without it.                        *)
AcquireReturns ==
  \A c \in Clients : pc[c] \in {"try", "sleep"} ~> pc[c] \in {"held", "rest"}

=============================================================================
