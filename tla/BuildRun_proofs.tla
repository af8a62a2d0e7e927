--------------------------- MODULE BuildRun_proofs ---------------------------
(***************************************************************************)
(* What the build process promises for any number of builders, of passes,  *)
(* of restarts and of kills.                                               *)
(***************************************************************************)
EXTENDS BuildRun, FiniteSetTheorems, TLAPS

USE BuildAssumption DEF Builders

-----------------------------------------------------------------------------
(* The inductive invariant.                                                *)

(* Who is between acquiring the build lock and releasing it is its holder. *)
LockIsHeld == \A b \in Builders : pc[b] \in Locked => lock = b

(* `swapped` says what the run has done: nothing before the swap.  A --once *)
(* builder gets to its end by a swap alone.                                *)
RunsAreRemembered ==
  \A b \in Builders :
    /\ pc[b] \in Locked \ {"unlock"} => ~ swapped[b]
    /\ pc[b] \in AfterSwap => swapped[b]
    /\ b \in Once =>
         /\ pc[b] # "sleep"
         /\ pc[b] = "after" => swapped[b]
         /\ exit[b] = "ok" => swapped[b]
         /\ exit[b] = "locked" => ~ swapped[b]

(* A swap is enqueued, lost, or on its way.                                *)
OnTheirWay == {b \in Builders : pc[b] \in AfterSwap}

SwapsAreCounted == graphs = updates + lost + Cardinality(OnTheirWay)

(* A --once builder that is through after its swap has a task of its own,  *)
(* one that failed after it a lost swap of its own.                        *)
IsThrough(b)   == swapped[b] /\ (pc[b] = "after" \/ exit[b] = "ok")
HasFailed(b)   == swapped[b] /\ (pc[b] = "caught" \/ exit[b] = "failed")
Through == {b \in Once : IsThrough(b)}
InVain  == {b \in Once : HasFailed(b)}

ExitsAreCounted == Cardinality(Through) <= updates /\ Cardinality(InVain) <= lost

(* A builder in a run knows that it builds, and when it is the only one    *)
(* that ever ran and its last write was not lost, the file says so.        *)
StateIsKnown ==
  \A b \in Builders :
    /\ pc[b] # "off" => b \in started
    /\ pc[b] \in Locked => memory[b].state = "building"
    /\ Alone(b) /\ pc[b] \in Locked /\ ~ missed => file = memory[b]

(* update_pbf runs on a PBF, and what is built from one that it left.      *)
PbfIsFresh ==
  /\ \A b \in Builders : pc[b] = "update" => pbf # "missing"
  /\ TilesComeFromFreshData

RunInv ==
  /\ LockIsHeld /\ RunsAreRemembered /\ SwapsAreCounted /\ ExitsAreCounted
  /\ StateIsKnown /\ PbfIsFresh

-----------------------------------------------------------------------------
(* The status operations.                                                  *)

LEMMA StageTable ==
  /\ DOMAIN StageOf = {"prune", "download", "update", "config", "elevation", "enhance", "swap"}
  /\ \A s \in DOMAIN StageOf : StageOf[s] \in Stages
  BY DEF StageOf, Stages

(* Every operation yields a status; only the one that a build begins with  *)
(* forgets an error.                                                       *)
LEMMA StatusOperations ==
  ASSUME NEW data \in StatusData
  PROVE  /\ \A s \in Stages : /\ Staged(data, s) \in StatusData
                              /\ Staged(data, s).state = "building"
                              /\ data.state = "building" /\ data.error => Staged(data, s).error
         /\ \A when \in {"none", "cron", "external"} :
              /\ Idled(data, when) \in StatusData
              /\ Idled(data, when).error = data.error
         /\ Failed(data) \in StatusData /\ Failed(data).error
         /\ Reset \in StatusData
  BY DEF StatusData, Staged, Idled, Failed, Reset, Stages

(* A write that is lost leaves the file as it was.                         *)
WriteMayBeLost(b) ==
  /\ \/ file' = memory'[b] /\ ~ missed'
     \/ file' = file /\ missed'
  /\ file' \in StatusData /\ missed' \in BOOLEAN /\ faults' \in 0 .. MaxFaults

LEMMA Written ==
  ASSUME TypeOK, NEW b \in Builders, NEW data \in StatusData, Write(b, data)
  PROVE  /\ memory' \in [Builders -> StatusData] /\ WriteMayBeLost(b)
         /\ memory'[b] = data /\ \A d \in Builders \ {b} : memory'[d] = memory[d]
<1>1. memory' = [memory EXCEPT ![b] = data] /\ file \in StatusData /\ faults \in 0 .. MaxFaults
  BY DEF TypeOK, Write
<1>2. WriteMayBeLost(b)
  <2>1. memory'[b] = data
    BY <1>1 DEF TypeOK
  <2>2. CASE file' = data /\ missed' = FALSE /\ faults' = faults
    <3>1. missed' \in BOOLEAN /\ ~ missed'
      BY <2>2
    <3>2. file' = memory'[b] /\ file' \in StatusData /\ faults' \in 0 .. MaxFaults
      BY <1>1, <2>1, <2>2
    <3> QED
      BY <3>1, <3>2, Zenon DEF WriteMayBeLost
  <2>3. CASE file' = file /\ missed' = TRUE /\ Fault
    BY <1>1, <2>3 DEF WriteMayBeLost, Fault
  <2> QED
    BY <2>2, <2>3 DEF Write
<1> QED
  BY <1>1, <1>2 DEF TypeOK

LEMMA Entered ==
  ASSUME TypeOK, NEW b \in Builders, NEW step \in Steps, Enter(b, step)
  PROVE  /\ pc' = [pc EXCEPT ![b] = step]
         /\ memory' \in [Builders -> StatusData]
         /\ file' \in StatusData /\ missed' \in BOOLEAN /\ faults' \in 0 .. MaxFaults
         /\ \A d \in Builders \ {b} : memory'[d] = memory[d]
         /\ \/ /\ memory'[b].state = "building" /\ WriteMayBeLost(b)
               /\ memory[b].state = "building" /\ memory[b].error => memory'[b].error
            \/ step # "prune" /\ UNCHANGED status
<1>1. memory[b] \in StatusData /\ memory \in [Builders -> StatusData]
      /\ file \in StatusData /\ missed \in BOOLEAN /\ faults \in 0 .. MaxFaults
  BY DEF TypeOK
<1>2. CASE step \in DOMAIN StageOf
  <2>1. Write(b, Staged(memory[b], StageOf[step]))
    BY <1>2 DEF Enter
  <2>2. StageOf[step] \in Stages
    BY <1>2, StageTable
  <2>3. /\ memory' \in [Builders -> StatusData] /\ WriteMayBeLost(b)
        /\ memory'[b] = Staged(memory[b], StageOf[step])
        /\ \A d \in Builders \ {b} : memory'[d] = memory[d]
    BY <1>1, <2>1, <2>2, StatusOperations, Written
  <2> QED
    <3>1. /\ memory'[b].state = "building"
          /\ memory[b].state = "building" /\ memory[b].error => memory'[b].error
      <4>1. LET new == Staged(memory[b], StageOf[step]) IN
            /\ new.state = "building"
            /\ memory[b].state = "building" /\ memory[b].error => new.error
        BY <1>1, <2>2, StatusOperations
      <4> QED
        BY <2>3, <4>1, Zenon
    <3> QED
      BY <2>3, <3>1 DEF Enter, Goes, WriteMayBeLost
<1>3. CASE step \notin DOMAIN StageOf
  BY <1>1, <1>3, StageTable DEF Enter, Goes, status
<1> QED
  BY <1>2, <1>3

(* Where a run goes on to.                                                 *)
LEMMA StepTable ==
  /\ DOMAIN NextStep = {"config", "tiles", "elevation", "enhance", "meta"}
  /\ \A s \in DOMAIN NextStep : NextStep[s] \in {"tiles", "elevation", "enhance", "meta", "swap"}
  BY DEF NextStep

-----------------------------------------------------------------------------
(* Swaps under way.                                                        *)

LEMMA SwapsOnTheirWay ==
  ASSUME NEW S \in SUBSET Builders
  PROVE  /\ Cardinality(S) \in Nat
         /\ \A b \in S : Cardinality(S) >= 1 /\ Cardinality(S \ {b}) = Cardinality(S) - 1
         /\ \A b \in Builders \ S : Cardinality(S \cup {b}) = Cardinality(S) + 1
<1>1. IsFiniteSet(S)
  BY FS_Subset
<1>2. Cardinality(S) \in Nat
  BY <1>1, FS_CardinalityType
<1>3. ASSUME NEW b \in S
      PROVE  Cardinality(S) >= 1 /\ Cardinality(S \ {b}) = Cardinality(S) - 1
  <2>1. Cardinality(S) # 0
    BY <1>1, FS_EmptySet
  <2>2. Cardinality(S \ {b}) = Cardinality(S) - 1
    BY <1>1, FS_RemoveElement
  <2> QED
    BY <1>2, <2>1, <2>2
<1>4. ASSUME NEW b \in Builders \ S PROVE Cardinality(S \cup {b}) = Cardinality(S) + 1
  BY <1>1, FS_AddElement
<1> QED
  BY <1>2, <1>3, <1>4

(* Who is past its swap still owes a task for it.                          *)
LEMMA UnderWay ==
  ASSUME TypeOK, SwapsAreCounted
  PROVE  /\ graphs \in Nat /\ updates \in Nat /\ lost \in Nat
         /\ \A b \in Builders : pc[b] \in AfterSwap => updates + lost + 1 <= graphs
<1>1. graphs \in Nat /\ updates \in Nat /\ lost \in Nat
  BY DEF TypeOK
<1>2. OnTheirWay \in SUBSET Builders
      /\ \A b \in Builders : pc[b] \in AfterSwap => b \in OnTheirWay
  BY DEF OnTheirWay
<1>3. /\ Cardinality(OnTheirWay) \in Nat
      /\ \A b \in OnTheirWay : Cardinality(OnTheirWay) >= 1
  BY <1>2, SwapsOnTheirWay
<1> QED
  BY <1>1, <1>2, <1>3 DEF SwapsAreCounted

-----------------------------------------------------------------------------
(* Type correctness.                                                       *)

LEMMA InitType == Init => TypeOK
<1> SUFFICES ASSUME Init PROVE TypeOK
  OBVIOUS
<1>1. Reset \in StatusData
  BY DEF Reset, StatusData, Stages
<1>2. missed \in BOOLEAN
  BY Zenon DEF Init
<1>3. faults = 0
  BY Zenon DEF Init
<1>4. faults \in 0 .. MaxFaults
  BY <1>3
<1> QED
  BY <1>1, <1>2, <1>4 DEF Init, TypeOK, Steps

LEMMA NextType == TypeOK /\ SwapsAreCounted /\ [Next]_vars => TypeOK'
<1> SUFFICES ASSUME TypeOK, SwapsAreCounted, [Next]_vars PROVE TypeOK'
  OBVIOUS
<1> USE DEF Steps, Locked, Subprocess
<1>a. /\ graphs \in Nat /\ updates \in Nat /\ lost \in Nat
      /\ \A b \in Builders : pc[b] \in AfterSwap => updates + lost + 1 <= graphs
  BY UnderWay
<1>1. ASSUME NEW b \in Builders, Wake(b) \/ Quit(b) \/ Skip(b) PROVE TypeOK'
  <2>1. CASE Wake(b)
    BY <2>1 DEF TypeOK, Wake, Goes, life, status, world
  <2>2. CASE Quit(b)
    BY <2>2 DEF TypeOK, Quit, LooksAtStop, Goes, Exits, status, world
  <2>3. CASE Skip(b)
    BY <2>3 DEF TypeOK, Skip, MayAttempt, Goes, Exits, status, world
  <2> QED
    BY <1>1, <2>1, <2>2, <2>3
<1>2. ASSUME NEW b \in Builders, GoToSleep(b) \/ Leave(b) \/ Report(b) PROVE TypeOK'
  <2>1. PICK when \in {"none", "cron", "external"} : Write(b, Idled(memory[b], when))
    BY <1>2 DEF GoToSleep, Leave, Report
  <2>2. memory' \in [Builders -> StatusData] /\ WriteMayBeLost(b)
    BY <2>1, Written, StatusOperations DEF TypeOK
  <2> QED
    BY <1>2, <2>2 DEF TypeOK, WriteMayBeLost, GoToSleep, Leave, Report, Goes, Exits, life, world
<1>3. ASSUME NEW b \in Builders, Caught(b) PROVE TypeOK'
  <2>1. memory' \in [Builders -> StatusData] /\ WriteMayBeLost(b)
    BY <1>3, Written, StatusOperations DEF TypeOK, Caught
  <2> QED
    BY <1>3, <2>1 DEF TypeOK, WriteMayBeLost, Caught, Goes, Exits, world
<1>4. ASSUME NEW b \in Builders, TakeLock(b) \/ Prune(b) PROVE TypeOK'
  <2>1. PICK step \in {"prune", "download", "update"} : Enter(b, step)
    BY <1>4 DEF TakeLock, Prune
  <2>2. /\ memory' \in [Builders -> StatusData] /\ pc' = [pc EXCEPT ![b] = step]
        /\ file' \in StatusData /\ missed' \in BOOLEAN /\ faults' \in 0 .. MaxFaults
    BY <2>1, Entered
  <2>3. CASE TakeLock(b)
    BY <2>2, <2>3 DEF TypeOK, TakeLock, MayAttempt, life
  <2>4. CASE Prune(b)
    BY <2>2, <2>4 DEF TypeOK, Prune, life, world
  <2> QED
    BY <1>4, <2>3, <2>4
<1>5. ASSUME NEW b \in Builders, Download(b) \/ UpdateIsDone(b) PROVE TypeOK'
  <2>1. /\ memory' \in [Builders -> StatusData] /\ pc' = [pc EXCEPT ![b] = "config"]
        /\ file' \in StatusData /\ missed' \in BOOLEAN /\ faults' \in 0 .. MaxFaults
    BY <1>5, Entered DEF Download, UpdateIsDone
  <2> QED
    BY <1>5, <2>1 DEF TypeOK, Download, UpdateIsDone, Updated, life
<1>6. ASSUME NEW b \in Builders, BuildStep(b) PROVE TypeOK'
  <2>1. PICK step \in {"tiles", "elevation", "enhance", "meta", "swap"} : Enter(b, step)
    BY <1>6, StepTable DEF BuildStep
  <2>2. /\ memory' \in [Builders -> StatusData] /\ pc' = [pc EXCEPT ![b] = step]
        /\ file' \in StatusData /\ missed' \in BOOLEAN /\ faults' \in 0 .. MaxFaults
    BY <2>1, Entered
  <2> QED
    BY <1>6, <2>2, StepTable DEF TypeOK, BuildStep, life, world
<1>7. ASSUME NEW b \in Builders, StepFails(b) \/ DownloadFails(b) PROVE TypeOK'
  <2>1. CASE StepFails(b)
    BY <2>1 DEF TypeOK, StepFails, Raise, Talks, Goes, status, world
  <2>2. CASE DownloadFails(b)
    BY <2>2 DEF TypeOK, DownloadFails, Raise, Goes, status
  <2> QED
    BY <1>7, <2>1, <2>2
<1>8. ASSUME NEW b \in Builders, MoreToUpdate(b) PROVE TypeOK'
  BY <1>8 DEF TypeOK, MoreToUpdate, PassesLeft, life, status, world
<1>9. ASSUME NEW b \in Builders, Swap(b) \/ Unlock(b) PROVE TypeOK'
  <2>1. CASE Swap(b)
    BY <1>a, <2>1 DEF TypeOK, Swap, Goes, life, status
  <2>2. CASE Unlock(b)
    BY <2>2 DEF TypeOK, Unlock, AfterUnlock, Goes, life, status
  <2> QED
    BY <1>9, <2>1, <2>2
<1>10. ASSUME NEW b \in Builders, Enqueue(b) \/ EnqueueFails(b) PROVE TypeOK'
  <2>1. updates + lost + 1 <= graphs
    BY <1>a, <1>10 DEF Enqueue, EnqueueFails, AfterSwap
  <2> QED
    BY <1>a, <1>10, <2>1 DEF TypeOK, Enqueue, EnqueueFails, EnqueueRaises, Goes, life, status
<1>11. ASSUME NEW b \in Builders, Start(b) PROVE TypeOK'
  <2>1. memory' \in [Builders -> StatusData]
    BY <1>11, StatusOperations DEF TypeOK, Start
  <2>2. PICK step \in {"sleep", "attempt"} : pc' = [pc EXCEPT ![b] = step]
    BY <1>11 DEF Start, Goes
  <2>3. pass' = pass /\ terminated' = terminated /\ faults' = faults /\ file' = file /\ missed' = missed
        /\ UNCHANGED world
    BY <1>11 DEF Start
  <2>4. ~ terminated[b] /\ pass[b] = 0
    BY <1>11 DEF TypeOK, Start
  <2> QED
    BY <1>11, <2>1, <2>2, <2>3, <2>4 DEF TypeOK, Start, world
<1>12. ASSUME NEW b \in Builders, Heartbeat(b) PROVE TypeOK'
  BY <1>12 DEF TypeOK, Heartbeat, run, life, world
<1>13. ASSUME NEW b \in Builders, Signal(b) PROVE TypeOK'
  <2>1. CASE UNCHANGED terminated
    BY <1>13, <2>1 DEF TypeOK, Signal, run, status, world
  <2>2. CASE terminated' = [terminated EXCEPT ![b] = TRUE] /\ Talks(b)
    BY <1>13, <2>2 DEF TypeOK, Signal, Talks, run, status, world
  <2> QED
    BY <1>13, <2>1, <2>2 DEF Signal
<1>14. ASSUME NEW b \in Builders, Crash(b) PROVE TypeOK'
  BY <1>a, <1>14 DEF TypeOK, Crash, Fault, Exits, Goes
<1>15. CASE LeaseExpires
  BY <1>15 DEF TypeOK, LeaseExpires, run, life, status
<1>16. CASE UNCHANGED vars
  BY <1>16 DEF TypeOK, vars, run, life, status, world
<1>17. ASSUME NEW b \in Builders, AttemptFails(b) \/ UnlockFails(b) PROVE TypeOK'
  <2>1. CASE AttemptFails(b)
    BY <2>1 DEF TypeOK, AttemptFails, MayAttempt, Fault, Goes, life
  <2>2. CASE UnlockFails(b)
    <3>1. pc[b] = "unlock" => updates + lost + 1 <= graphs
      BY <1>a DEF AfterSwap
    <3>2. lost' \in 0 .. graphs /\ lock' \in Builders \cup {Nobody}
      BY <1>a, <2>2, <3>1 DEF TypeOK, UnlockFails
    <3> QED
      BY <2>2, <3>2 DEF TypeOK, UnlockFails, Fault, Goes, life
  <2> QED
    BY <1>17, <2>1, <2>2
<1> QED
  BY <1>1, <1>2, <1>3, <1>4, <1>5, <1>6, <1>7, <1>8, <1>9, <1>10, <1>11, <1>12, <1>13, <1>14,
     <1>15, <1>16, <1>17 DEF Next, BuilderStep

-----------------------------------------------------------------------------
(* What a step of one builder leaves alone.                                *)

StepOf(b) == BuilderStep(b) \/ Start(b) \/ Heartbeat(b) \/ Signal(b) \/ Crash(b)

LEMMA NextIsAStep == Next <=> (\E b \in Builders : StepOf(b)) \/ LeaseExpires
  BY DEF Next, StepOf

(* The builders that are not in it, and the lock unless it takes it or     *)
(* gives it back.                                                          *)
LEMMA OthersStay ==
  ASSUME TypeOK, NEW b \in Builders, StepOf(b)
  PROVE  /\ \A d \in Builders \ {b} :
              /\ pc'[d] = pc[d] /\ swapped'[d] = swapped[d] /\ exit'[d] = exit[d]
              /\ memory'[d] = memory[d] /\ pass'[d] = pass[d]
         /\ \/ lock' = lock /\ (pc'[b] \in Locked => pc[b] \in Locked)
            \/ TakeLock(b)
            \/ pc'[b] \notin Locked /\ (lock # Nobody => lock' = lock \/ pc[b] \in Locked)
<1> DEFINE Others == \A d \in Builders \ {b} :
                       /\ pc'[d] = pc[d] /\ swapped'[d] = swapped[d] /\ exit'[d] = exit[d]
                       /\ memory'[d] = memory[d] /\ pass'[d] = pass[d]
           LockStays == lock' = lock /\ (pc'[b] \in Locked => pc[b] \in Locked)
<1> USE DEF Locked, Subprocess, Steps
<1>1. CASE Wake(b) \/ Quit(b) \/ Skip(b)
  BY <1>1 DEF TypeOK, Wake, Quit, Skip, Goes, Exits, life, status, world
<1>2. CASE GoToSleep(b) \/ Leave(b) \/ Report(b) \/ Caught(b)
  BY <1>2 DEF TypeOK, GoToSleep, Leave, Report, Caught, Write, Goes, Exits, life, world
<1>3. CASE TakeLock(b)
  <2>1. /\ Enter(b, "prune") /\ exit' = exit /\ pass' = pass
        /\ swapped' = [swapped EXCEPT ![b] = FALSE]
    BY <1>3 DEF TakeLock, life
  <2> QED
    BY <1>3, <2>1, Entered DEF TypeOK
<1>4. CASE Prune(b) \/ Download(b) \/ UpdateIsDone(b) \/ BuildStep(b)
  <2>1. PICK step \in Steps : Enter(b, step)
    BY <1>4, StepTable DEF Prune, Download, UpdateIsDone, BuildStep
  <2>2. /\ lock' = lock /\ exit' = exit /\ swapped' = swapped /\ pc[b] \in Locked
        /\ pass' = pass \/ pass' = [pass EXCEPT ![b] = 0]
    BY <1>4, StepTable DEF Prune, Download, UpdateIsDone, BuildStep, life, world
  <2> QED
    BY <2>1, <2>2, Entered DEF TypeOK
<1>5. CASE StepFails(b) \/ DownloadFails(b) \/ MoreToUpdate(b)
  BY <1>5 DEF TypeOK, StepFails, DownloadFails, MoreToUpdate, Raise, Talks, Goes, life, status, world
<1>6. CASE Swap(b) \/ Enqueue(b) \/ EnqueueFails(b)
  BY <1>6 DEF TypeOK, Swap, Enqueue, EnqueueFails, EnqueueRaises, Goes, life, status
<1>7. CASE Unlock(b) \/ UnlockFails(b) \/ AttemptFails(b)
  BY <1>7 DEF TypeOK, Unlock, AfterUnlock, UnlockFails, AttemptFails, Goes, life, status
<1>8. CASE Start(b)
  BY <1>8 DEF TypeOK, Start, Goes, world
<1>9. CASE Heartbeat(b) \/ Signal(b) \/ Crash(b)
  BY <1>9 DEF TypeOK, Heartbeat, Signal, Crash, Exits, Goes, run, life, status, world
<1> QED
  BY <1>1, <1>2, <1>3, <1>4, <1>5, <1>6, <1>7, <1>8, <1>9 DEF StepOf, BuilderStep

-----------------------------------------------------------------------------
(* One build at a time.                                                    *)

LEMMA NextLock ==
  ASSUME TypeOK, LockIsHeld, [Next]_vars
  PROVE  LockIsHeld'
<1>1. ASSUME NEW b \in Builders, StepOf(b) PROVE LockIsHeld'
  <2>1. CASE lock' = lock /\ (pc'[b] \in Locked => pc[b] \in Locked)
    BY <1>1, <2>1, OthersStay DEF LockIsHeld
  <2>2. CASE TakeLock(b)
    <3>1. lock' = b /\ lock = Nobody
      BY <2>2 DEF TakeLock
    <3> QED
      BY <1>1, <3>1, OthersStay DEF LockIsHeld
  <2>3. CASE pc'[b] \notin Locked /\ (lock # Nobody => lock' = lock \/ pc[b] \in Locked)
    BY <1>1, <2>3, OthersStay DEF LockIsHeld
  <2> QED
    BY <1>1, <2>1, <2>2, <2>3, OthersStay
<1>2. CASE LeaseExpires
  BY <1>2 DEF LockIsHeld, LeaseExpires, run
<1>3. CASE UNCHANGED vars
  BY <1>3 DEF LockIsHeld, vars, run, world
<1> QED
  BY <1>1, <1>2, <1>3, NextIsAStep

-----------------------------------------------------------------------------
(* What the runs have done.                                                *)

LEMMA NextCount ==
  ASSUME TypeOK, SwapsAreCounted, [Next]_vars
  PROVE  SwapsAreCounted'
<1> USE DEF AfterSwap
<1>0. /\ OnTheirWay \in SUBSET Builders /\ OnTheirWay' \in SUBSET Builders
      /\ graphs \in Nat /\ updates \in Nat /\ lost \in Nat /\ Cardinality(OnTheirWay) \in Nat
  BY SwapsOnTheirWay DEF TypeOK, OnTheirWay
<1>1. ASSUME NEW b \in Builders, StepOf(b) PROVE SwapsAreCounted'
  <2>0. \A d \in Builders \ {b} : pc'[d] = pc[d]
    BY <1>1, OthersStay
  <2>1. CASE Swap(b)
    <3>1. pc[b] \notin AfterSwap /\ pc'[b] \in AfterSwap
          /\ graphs' = graphs + 1 /\ updates' = updates /\ lost' = lost
      BY <2>1 DEF TypeOK, Swap, Goes
    <3>2. b \notin OnTheirWay /\ OnTheirWay' = OnTheirWay \cup {b}
      BY <2>0, <3>1 DEF OnTheirWay
    <3> QED
      BY <1>0, <3>1, <3>2, SwapsOnTheirWay DEF SwapsAreCounted
  <2>2. CASE \/ Enqueue(b) \/ EnqueueFails(b)
             \/ (Crash(b) \/ UnlockFails(b)) /\ pc[b] \in AfterSwap
    <3>1. /\ pc[b] \in AfterSwap /\ pc'[b] \notin AfterSwap /\ graphs' = graphs
          /\ \/ updates' = updates + 1 /\ lost' = lost
             \/ updates' = updates /\ lost' = lost + 1
      BY <2>2 DEF TypeOK, Enqueue, EnqueueFails, EnqueueRaises, Crash, UnlockFails, Goes, Exits
    <3>2. b \in OnTheirWay /\ OnTheirWay' = OnTheirWay \ {b}
      BY <2>0, <3>1 DEF OnTheirWay
    <3>3. Cardinality(OnTheirWay') = Cardinality(OnTheirWay) - 1
      BY <1>0, <3>2, SwapsOnTheirWay
    <3> QED
      BY <1>0, <3>1, <3>3 DEF SwapsAreCounted
  <2>3. CASE /\ graphs' = graphs /\ updates' = updates /\ lost' = lost
             /\ pc'[b] \in AfterSwap <=> pc[b] \in AfterSwap
    <3>1. OnTheirWay' = OnTheirWay
      BY <2>0, <2>3 DEF OnTheirWay
    <3> QED
      BY <2>3, <3>1 DEF SwapsAreCounted
  <2>4. CASE Wake(b) \/ Quit(b) \/ Skip(b) \/ GoToSleep(b) \/ Leave(b) \/ Caught(b)
    BY <2>3, <2>4 DEF TypeOK, Wake, Quit, Skip, MayAttempt, LooksAtStop, GoToSleep, Leave, Caught,
                      Goes, Exits, world
  <2>5. CASE TakeLock(b) \/ Prune(b) \/ Download(b) \/ UpdateIsDone(b) \/ BuildStep(b)
    <3>1. PICK step \in Steps \ AfterSwap : Enter(b, step)
      BY <2>5, StepTable DEF TakeLock, Prune, Download, UpdateIsDone, BuildStep, Steps, Locked, Subprocess
    <3>2. pc[b] \notin AfterSwap /\ graphs' = graphs /\ updates' = updates /\ lost' = lost
      BY <2>5, StepTable DEF TakeLock, MayAttempt, Prune, Download, UpdateIsDone, BuildStep, world
    <3>3. pc'[b] = step
      BY <3>1, Entered DEF TypeOK
    <3> QED
      BY <2>3, <3>2, <3>3
  <2>6. CASE StepFails(b) \/ DownloadFails(b) \/ MoreToUpdate(b)
    BY <2>3, <2>6 DEF TypeOK, StepFails, DownloadFails, MoreToUpdate, Raise, Talks, Subprocess, Goes, world
  <2>7. CASE Unlock(b) \/ Report(b)
    BY <2>3, <2>7 DEF TypeOK, Unlock, AfterUnlock, Report, Goes, world
  <2>8. CASE Start(b) \/ Heartbeat(b) \/ Signal(b)
    BY <2>3, <2>8 DEF TypeOK, Start, Heartbeat, Signal, Goes, run, world
  <2>9. CASE AttemptFails(b) \/ ((Crash(b) \/ UnlockFails(b)) /\ pc[b] \notin AfterSwap)
    BY <2>3, <2>9 DEF TypeOK, AttemptFails, MayAttempt, Crash, UnlockFails, Exits, Goes
  <2> QED
    BY <1>1, <2>1, <2>2, <2>4, <2>5, <2>6, <2>7, <2>8, <2>9 DEF StepOf, BuilderStep
<1>2. CASE LeaseExpires \/ UNCHANGED vars
  BY <1>2 DEF SwapsAreCounted, OnTheirWay, LeaseExpires, vars, run, world
<1> QED
  BY <1>1, <1>2, NextIsAStep

(* A set of builders that gets one more as its bound does.                 *)
LEMMA OneMoreIsCounted ==
  ASSUME NEW S \in SUBSET Once, NEW T \in SUBSET Once, NEW b, NEW n \in Nat, NEW k \in Nat,
         Cardinality(S) <= n, k = n \/ k = n + 1,
         T \subseteq S \cup {b}, b \in T => b \in S \/ k = n + 1
  PROVE  Cardinality(T) <= k
<1>1. IsFiniteSet(S) /\ Cardinality(S) \in Nat
  <2>1. IsFiniteSet(Once)
    BY FS_Subset
  <2> QED
    BY <2>1, FS_Subset, FS_CardinalityType
<1>2. CASE b \in T /\ b \notin S
  <2>1. IsFiniteSet(S \cup {b}) /\ Cardinality(S \cup {b}) = Cardinality(S) + 1
    BY <1>1, <1>2, FS_AddElement
  <2>2. Cardinality(T) <= Cardinality(S \cup {b})
    BY <2>1, FS_Subset
  <2> QED
    BY <1>1, <1>2, <2>1, <2>2, FS_Subset, FS_CardinalityType
<1>3. CASE T \subseteq S
  <2>1. Cardinality(T) <= Cardinality(S) /\ Cardinality(T) \in Nat
    BY <1>1, <1>3, FS_Subset, FS_CardinalityType
  <2> QED
    BY <1>1, <2>1
<1> QED
  BY <1>2, <1>3

LEMMA NextRemembered ==
  ASSUME TypeOK, TypeOK', RunsAreRemembered, ExitsAreCounted, [Next]_vars
  PROVE  RunsAreRemembered' /\ ExitsAreCounted'
<1> USE DEF AfterSwap, Locked, Subprocess, IsThrough, HasFailed
<1> DEFINE Remembered(b) ==
      /\ pc[b] \in Locked \ {"unlock"} => ~ swapped[b]
      /\ pc[b] \in AfterSwap => swapped[b]
      /\ b \in Once =>
           /\ pc[b] # "sleep"
           /\ pc[b] = "after" => swapped[b]
           /\ exit[b] = "ok" => swapped[b]
           /\ exit[b] = "locked" => ~ swapped[b]
    Counts(b) ==
      /\ updates' = updates \/ updates' = updates + 1
      /\ lost' = lost \/ lost' = lost + 1
      /\ b \in Once /\ IsThrough(b)' => IsThrough(b) \/ updates' = updates + 1
      /\ b \in Once /\ HasFailed(b)' => HasFailed(b) \/ lost' = lost + 1
<1>0. \A b \in Builders : Remembered(b)
  BY DEF RunsAreRemembered
<1>a. updates \in Nat /\ lost \in Nat
  BY DEF TypeOK
<1>1. ASSUME NEW b \in Builders, StepOf(b) PROVE Remembered(b)' /\ Counts(b)
  <2>0. Remembered(b)
    BY <1>0
  <2>1. CASE Wake(b) \/ Quit(b)
    BY <1>a, <2>0, <2>1 DEF TypeOK, Wake, Quit, Goes, Exits, life, world
  <2>2. CASE Skip(b)
    BY <1>a, <2>2 DEF TypeOK, Skip, MayAttempt, Goes, Exits, world
  <2>3. CASE GoToSleep(b) \/ Leave(b)
    BY <1>a, <2>0, <2>3 DEF TypeOK, GoToSleep, Leave, Goes, Exits, life, world
  <2>4. CASE Caught(b)
    BY <1>a, <2>0, <2>4 DEF TypeOK, Caught, Goes, Exits, world
  <2>5. CASE TakeLock(b)
    <3>1. Enter(b, "prune") /\ swapped' = [swapped EXCEPT ![b] = FALSE] /\ exit' = exit
          /\ updates' = updates /\ lost' = lost /\ exit[b] = "none"
      BY <2>5 DEF TypeOK, TakeLock, MayAttempt, life
    <3>2. pc'[b] = "prune"
      BY <3>1, Entered DEF TypeOK, Steps
    <3> QED
      BY <1>a, <3>1, <3>2 DEF TypeOK
  <2>6. CASE Prune(b) \/ Download(b) \/ UpdateIsDone(b) \/ BuildStep(b)
    <3>1. PICK step \in Locked \ {"unlock"} : Enter(b, step)
      BY <2>6, StepTable DEF Prune, Download, UpdateIsDone, BuildStep
    <3>2. swapped' = swapped /\ exit' = exit /\ updates' = updates /\ lost' = lost
          /\ pc[b] \in Locked \ {"unlock"} /\ exit[b] = "none"
      BY <2>6, StepTable DEF TypeOK, Prune, Download, UpdateIsDone, BuildStep, life, world
    <3>3. pc'[b] = step
      BY <3>1, Entered DEF TypeOK, Steps
    <3> QED
      BY <1>a, <2>0, <3>2, <3>3
  <2>7. CASE StepFails(b) \/ DownloadFails(b) \/ MoreToUpdate(b)
    BY <1>a, <2>0, <2>7 DEF TypeOK, StepFails, DownloadFails, MoreToUpdate, Raise, Talks, Goes, life, world
  <2>8. CASE Swap(b) \/ Unlock(b) \/ Report(b)
    BY <1>a, <2>0, <2>8 DEF TypeOK, Swap, Unlock, AfterUnlock, Report, Goes, life, world
  <2>9. CASE Enqueue(b) \/ EnqueueFails(b)
    BY <1>a, <2>0, <2>9 DEF TypeOK, Enqueue, EnqueueFails, EnqueueRaises, Goes, life
  <2>10. CASE Start(b) \/ Heartbeat(b) \/ Signal(b)
    BY <1>a, <2>0, <2>10 DEF TypeOK, Start, Heartbeat, Signal, Goes, run, life, world
  <2>11. CASE Crash(b)
    BY <1>a, <2>0, <2>11 DEF TypeOK, Crash, Goes, Exits
  <2>12. CASE AttemptFails(b) \/ UnlockFails(b)
    BY <1>a, <2>0, <2>12 DEF TypeOK, AttemptFails, MayAttempt, UnlockFails, Goes, life
  <2> QED
    BY <1>1, <2>1, <2>2, <2>3, <2>4, <2>5, <2>6, <2>7, <2>8, <2>9, <2>10, <2>11, <2>12
       DEF StepOf, BuilderStep
<1>2. ASSUME NEW b \in Builders, StepOf(b) PROVE RunsAreRemembered' /\ ExitsAreCounted'
  <2>1. Counts(b)
    BY <1>1, <1>2
  <2>2. ASSUME NEW d \in Builders \ {b}
        PROVE  /\ Remembered(d)'
               /\ IsThrough(d)' <=> IsThrough(d)
               /\ HasFailed(d)' <=> HasFailed(d)
    BY <1>0, <1>2, OthersStay
  <2>3. /\ Through' \subseteq Through \cup {b} /\ (b \in Through' => b \in Through \/ updates' = updates + 1)
        /\ InVain' \subseteq InVain \cup {b} /\ (b \in InVain' => b \in InVain \/ lost' = lost + 1)
    BY <2>1, <2>2 DEF Through, InVain
  <2>4. /\ Through \in SUBSET Once /\ Through' \in SUBSET Once
        /\ InVain \in SUBSET Once /\ InVain' \in SUBSET Once
    BY DEF Through, InVain
  <2>5. Cardinality(Through') <= updates'
    BY <1>a, <2>1, <2>3, <2>4, OneMoreIsCounted DEF ExitsAreCounted
  <2>6. Cardinality(InVain') <= lost'
    BY <1>a, <2>1, <2>3, <2>4, OneMoreIsCounted DEF ExitsAreCounted
  <2> QED
    BY <1>1, <1>2, <2>2, <2>5, <2>6 DEF RunsAreRemembered, ExitsAreCounted
<1>3. CASE LeaseExpires \/ UNCHANGED vars
  <2>1. Through' = Through /\ InVain' = InVain /\ updates' = updates /\ lost' = lost
    BY <1>3 DEF Through, InVain, LeaseExpires, vars, run, life, world
  <2> QED
    BY <1>3, <2>1 DEF RunsAreRemembered, ExitsAreCounted, LeaseExpires, vars, run, life, world
<1> QED
  BY <1>2, <1>3, NextIsAStep

-----------------------------------------------------------------------------
(* What the status says.                                                   *)

LEMMA NextKnown ==
  ASSUME TypeOK, StateIsKnown, [Next]_vars
  PROVE  StateIsKnown'
<1> USE DEF Locked, Subprocess
<1> DEFINE Builds(b) == pc[b] \in Locked => memory[b].state = "building"
           Shown(b)  == Alone(b) /\ pc[b] \in Locked /\ ~ missed => file = memory[b]
<1>0. \A b \in Builders : (pc[b] # "off" => b \in started) /\ Builds(b) /\ Shown(b)
  BY DEF StateIsKnown
<1>1. ASSUME NEW b \in Builders, StepOf(b)
      PROVE  /\ started' = started \/ (Start(b) /\ started' = started \cup {b})
             /\ pc[b] = "off" => Start(b)
             /\ Builds(b)' /\ Shown(b)'
  <2>0. Builds(b) /\ Shown(b)
    BY <1>0
  <2>1. CASE \/ Wake(b) \/ Quit(b) \/ Skip(b) \/ Enqueue(b) \/ EnqueueFails(b)
             \/ AttemptFails(b) \/ UnlockFails(b)
    <3>1. started' = started /\ pc[b] # "off"
      BY <2>1 DEF Wake, Quit, Skip, MayAttempt, LooksAtStop, Enqueue, EnqueueFails, AttemptFails,
                  UnlockFails, life
    <3>2. pc'[b] \notin Locked
      BY <2>1 DEF TypeOK, Wake, Quit, Skip, Enqueue, EnqueueFails, EnqueueRaises, AttemptFails, UnlockFails,
                  Goes, Exits
    <3> QED
      BY <3>1, <3>2
  <2>2. CASE GoToSleep(b) \/ Leave(b) \/ Report(b) \/ Caught(b)
    BY <2>2 DEF TypeOK, GoToSleep, Leave, Report, Caught, Goes, Exits, life, world
  <2>3. CASE TakeLock(b) \/ Prune(b) \/ Download(b) \/ UpdateIsDone(b) \/ BuildStep(b)
    <3>1. PICK step \in Steps : Enter(b, step) /\ (TakeLock(b) => step = "prune")
      BY <2>3, StepTable DEF TakeLock, Prune, Download, UpdateIsDone, BuildStep, Steps
    <3>2. started' = started /\ pc[b] # "off" /\ (~ TakeLock(b) => pc[b] \in Locked)
      BY <2>3, StepTable DEF TakeLock, MayAttempt, Prune, Download, UpdateIsDone, BuildStep, life, world
    <3> HIDE DEF Locked
    <3> QED
      BY <2>0, <3>1, <3>2, Entered DEF Alone, WriteMayBeLost, status
  <2>4. CASE StepFails(b) \/ DownloadFails(b) \/ MoreToUpdate(b) \/ Swap(b) \/ Unlock(b)
    BY <2>0, <2>4 DEF TypeOK, StepFails, DownloadFails, MoreToUpdate, Swap, Unlock, Raise, Talks,
                      Goes, life, status, world, Alone
  <2>5. CASE Start(b)
    BY <2>5 DEF TypeOK, Start, Goes
  <2>6. CASE Heartbeat(b) \/ Signal(b)
    BY <2>0, <2>6 DEF TypeOK, Heartbeat, Signal, Talks, run, life, status, Alone
  <2>7. CASE Crash(b)
    BY <2>7 DEF TypeOK, Crash, Goes, Exits
  <2> QED
    BY <1>1, <2>1, <2>2, <2>3, <2>4, <2>5, <2>6, <2>7 DEF StepOf, BuilderStep
<1>2. ASSUME NEW b \in Builders, StepOf(b) PROVE StateIsKnown'
  <2>1. b \in started'
    BY <1>0, <1>1, <1>2 DEF Start
  <2>2. ASSUME NEW d \in Builders \ {b}
        PROVE  /\ pc'[d] # "off" => d \in started'
               /\ Builds(d)' /\ Shown(d)'
    BY <1>0, <1>1, <1>2, <2>1, OthersStay DEF Alone
  <2> QED
    BY <1>1, <1>2, <2>1, <2>2 DEF StateIsKnown
<1>3. CASE LeaseExpires \/ UNCHANGED vars
  BY <1>3 DEF StateIsKnown, LeaseExpires, vars, run, life, status, Alone
<1> QED
  BY <1>2, <1>3, NextIsAStep

-----------------------------------------------------------------------------
(* What the tiles are made from.                                           *)

LEMMA NextFresh ==
  ASSUME TypeOK, LockIsHeld, PbfIsFresh, [Next]_vars
  PROVE  PbfIsFresh'
<1> USE DEF Locked, Subprocess
<1> DEFINE Fresh(b) ==
      /\ pc[b] = "update" => pbf # "missing"
      /\ pc[b] \in {"config", "tiles", "elevation", "enhance"} /\ MaxPasses > 0
           => pbf \in {"current", "partial"}
<1>0. \A b \in Builders : Fresh(b)
  BY DEF PbfIsFresh, TilesComeFromFreshData
<1>1. ASSUME NEW b \in Builders, StepOf(b)
      PROVE  /\ Fresh(b)'
             /\ pbf' = pbf \/ lock = b \/ lock = Nobody
  <2>0. Fresh(b)
    BY <1>0
  <2>1. CASE Wake(b) \/ Quit(b) \/ Skip(b) \/ GoToSleep(b) \/ Leave(b) \/ Caught(b) \/ Report(b)
    BY <2>1 DEF TypeOK, Wake, Quit, Skip, GoToSleep, Leave, Caught, Report, Goes, Exits, world
  <2>2. CASE TakeLock(b)
    <3>1. lock = Nobody /\ pc'[b] = "prune"
      BY <2>2, Entered DEF TakeLock, TypeOK, Steps
    <3> QED
      BY <3>1
  <2>3. CASE Prune(b)
    <3>1. PICK step \in {"download", "update"} :
            Enter(b, step) /\ (step = "update" => pbf # "missing")
      BY <2>3 DEF Prune
    <3>2. pc'[b] = step /\ pbf' = pbf
      BY <2>3, <3>1, Entered DEF Prune, world, TypeOK, Steps
    <3> QED
      BY <3>1, <3>2
  <2>4. CASE Download(b) \/ UpdateIsDone(b)
    <3>1. pc'[b] = "config"
      BY <2>4, Entered DEF Download, UpdateIsDone, TypeOK, Steps
    <3>2. pbf' = "current" \/ (pc[b] = "update" /\ pbf' = Updated)
      BY <2>4 DEF Download, UpdateIsDone
    <3>3. lock = b
      BY <2>4 DEF Download, UpdateIsDone, LockIsHeld
    <3> QED
      BY <2>0, <3>1, <3>2, <3>3 DEF TypeOK, Updated
  <2>5. CASE BuildStep(b)
    <3>1. PICK step \in {"tiles", "elevation", "enhance", "meta", "swap"} :
            Enter(b, step) /\ (step \in {"tiles", "elevation", "enhance"}
                                 => pc[b] \in {"config", "tiles", "elevation"})
      BY <2>5 DEF BuildStep, NextStep
    <3>2. pc'[b] = step /\ pbf' = pbf
      BY <2>5, <3>1, Entered DEF BuildStep, world, TypeOK, Steps
    <3> QED
      BY <2>0, <3>1, <3>2
  <2>6. CASE DownloadFails(b) \/ Crash(b)
    <3>1. pc[b] # "off" /\ pc'[b] \in {"raise", "off"} /\ (pbf' = pbf \/ pc[b] \in Locked)
      BY <2>6 DEF TypeOK, DownloadFails, Raise, Crash, Goes, Exits
    <3> QED
      BY <3>1 DEF LockIsHeld
  <2>7. CASE StepFails(b) \/ MoreToUpdate(b) \/ Swap(b) \/ Unlock(b) \/ Enqueue(b) \/ EnqueueFails(b)
    BY <2>0, <2>7 DEF TypeOK, StepFails, MoreToUpdate, Swap, Unlock, AfterUnlock, Enqueue, EnqueueFails,
                      EnqueueRaises, Raise, Goes, world
  <2>8. CASE Start(b) \/ Heartbeat(b) \/ Signal(b)
    BY <2>0, <2>8 DEF TypeOK, Start, Heartbeat, Signal, Goes, run, world
  <2>9. CASE AttemptFails(b) \/ UnlockFails(b)
    BY <2>9 DEF TypeOK, AttemptFails, UnlockFails, Goes
  <2> QED
    BY <1>1, <2>1, <2>2, <2>3, <2>4, <2>5, <2>6, <2>7, <2>8, <2>9 DEF StepOf, BuilderStep
<1>2. ASSUME NEW b \in Builders, StepOf(b), NEW d \in Builders \ {b} PROVE Fresh(d)'
  <2>1. pc'[d] = pc[d]
    BY <1>2, OthersStay
  <2>2. pc[d] \in Locked => pbf' = pbf
    BY <1>1, <1>2 DEF LockIsHeld
  <2> QED
    BY <1>0, <2>1, <2>2
<1>3. CASE LeaseExpires \/ UNCHANGED vars
  BY <1>3 DEF PbfIsFresh, TilesComeFromFreshData, LeaseExpires, vars, run, world
<1> QED
  BY <1>1, <1>2, <1>3, NextIsAStep DEF PbfIsFresh, TilesComeFromFreshData

-----------------------------------------------------------------------------
(* The theorems.                                                           *)

LEMMA InitInv == Init => RunInv
<1> SUFFICES ASSUME Init PROVE RunInv
  OBVIOUS
<1>1. \A b \in Builders : pc[b] = "off" /\ exit[b] = "none"
  BY DEF Init
<1>2. OnTheirWay = {}
  BY <1>1 DEF OnTheirWay, AfterSwap
<1>3. SwapsAreCounted
  BY <1>2, FS_EmptySet DEF Init, SwapsAreCounted
<1>4. ExitsAreCounted
  <2>1. Through = {} /\ InVain = {}
    BY <1>1 DEF Through, InVain, IsThrough, HasFailed
  <2> QED
    BY <2>1, FS_EmptySet DEF Init, ExitsAreCounted
<1> QED
  BY <1>1, <1>3, <1>4 DEF Init, RunInv, LockIsHeld, RunsAreRemembered, StateIsKnown, PbfIsFresh,
                   TilesComeFromFreshData, Locked, Subprocess, AfterSwap

(* The invariant holds of every behaviour of the build process.            *)
THEOREM RunInvHolds == Spec => [](TypeOK /\ RunInv)
<1>1. TypeOK /\ RunInv /\ [Next]_vars => (TypeOK /\ RunInv)'
  BY NextType, NextLock, NextCount, NextRemembered, NextKnown, NextFresh DEF RunInv
<1> QED
  BY <1>1, InitType, InitInv, PTL DEF Spec

(* Every variable stays in its type; the passes stay under their limit, and *)
(* no more updates are enqueued or lost than graphs were swapped.          *)
THEOREM TypeCorrect == Spec => []TypeOK
  BY RunInvHolds, PTL

(* One builder at a time is in a run, from the pruning to the swap.        *)
THEOREM OneBuildAtATime ==
  Spec => [](\A b, d \in Builders : pc[b] \in Locked /\ pc[d] \in Locked => b = d)
<1>1. RunInv => \A b, d \in Builders : pc[b] \in Locked /\ pc[d] \in Locked => b = d
  BY DEF RunInv, LockIsHeld
<1> QED
  BY <1>1, RunInvHolds, PTL

(* No swap gets lost unnoticed: it has its update_all_packages, or is on    *)
(* the way to it, or failed or died on that way.  There are no more exit   *)
(* codes 0 of --once builders than tasks, none of them without a swap, and *)
(* no more exit codes 1 after a swap than swaps without a task; a builder  *)
(* that found the lock taken did not swap.                                 *)
THEOREM SwapsAreAllAccountedFor == Spec => []SwapsAreAccountedFor
<1>1. TypeOK /\ RunInv => SwapsAreAccountedFor
  <2> SUFFICES ASSUME TypeOK, RunInv PROVE SwapsAreAccountedFor
    OBVIOUS
  <2> DEFINE Zeros == {b \in Once : exit[b] = "ok"}
             Ones  == {b \in Once : exit[b] = "failed" /\ swapped[b]}
  <2>1. Zeros \subseteq Through /\ Ones \subseteq InVain
    BY DEF RunInv, RunsAreRemembered, Through, InVain, IsThrough, HasFailed
  <2>2. IsFiniteSet(Through) /\ IsFiniteSet(InVain)
    BY FS_Subset DEF Through, InVain
  <2>3. /\ Cardinality(Zeros) <= Cardinality(Through) /\ Cardinality(Ones) <= Cardinality(InVain)
        /\ Cardinality(Zeros) \in Nat /\ Cardinality(Ones) \in Nat
        /\ Cardinality(Through) \in Nat /\ Cardinality(InVain) \in Nat
    BY <2>1, <2>2, FS_Subset, FS_CardinalityType
  <2>4. Cardinality(Zeros) <= updates /\ Cardinality(Ones) <= lost
    BY <2>3 DEF RunInv, ExitsAreCounted, TypeOK
  <2>5. graphs = updates + lost + Cardinality({b \in Builders : pc[b] \in AfterSwap})
    BY DEF RunInv, SwapsAreCounted, OnTheirWay
  <2> HIDE DEF Zeros, Ones
  <2>6. \A b \in Once : (exit[b] = "ok" => swapped[b]) /\ (exit[b] = "locked" => ~ swapped[b])
    BY DEF RunInv, RunsAreRemembered
  <2> QED
    BY <2>4, <2>5, <2>6 DEF SwapsAreAccountedFor, Zeros, Ones
<1> QED
  BY <1>1, RunInvHolds, PTL

(* A builder that is the only one is never reported idle while it builds,  *)
(* unless the last write to the status file was lost.                      *)
THEOREM IdleIsTrue == Spec => []IdleMeansNoBuild
<1>1. RunInv => IdleMeansNoBuild
  BY DEF RunInv, StateIsKnown, IdleMeansNoBuild
<1> QED
  BY <1>1, RunInvHolds, PTL

(* No tile is built from data that this run did not look after.            *)
THEOREM TilesAreFresh == Spec => []TilesComeFromFreshData
<1>1. RunInv => TilesComeFromFreshData
  BY DEF RunInv, PbfIsFresh
<1> QED
  BY <1>1, RunInvHolds, PTL

(* What a step of a builder that knows of an error does to the file.       *)
LEMMA StepKeepsErrors ==
  ASSUME TypeOK, StateIsKnown, NEW b \in Builders, StepOf(b), memory[b].error, file.error
  PROVE  file'.error \/ pc'[b] = "prune"
<1>0. memory[b] \in StatusData
  BY DEF TypeOK
<1>1. CASE Wake(b) \/ Quit(b) \/ Skip(b) \/ AttemptFails(b) \/ StepFails(b) \/ DownloadFails(b)
           \/ MoreToUpdate(b) \/ Swap(b) \/ Unlock(b) \/ UnlockFails(b) \/ Enqueue(b) \/ EnqueueFails(b)
           \/ Start(b) \/ Signal(b) \/ Crash(b)
  <2>1. file' = file
    BY <1>1 DEF Wake, Quit, Skip, AttemptFails, StepFails, DownloadFails, MoreToUpdate, Swap, Unlock,
                UnlockFails, Enqueue, EnqueueFails, Start, Signal, Crash, status
  <2> QED
    BY <2>1
<1>2. CASE GoToSleep(b) \/ Leave(b) \/ Report(b) \/ Caught(b)
  <2>1. PICK data \in StatusData : Write(b, data) /\ data.error
    BY <1>0, <1>2, StatusOperations DEF GoToSleep, Leave, Report, Caught
  <2> QED
    BY <2>1, Written DEF WriteMayBeLost
<1>3. CASE TakeLock(b)
  BY <1>3, Entered DEF TakeLock, TypeOK, Steps, Locked
<1>4. CASE Prune(b) \/ Download(b) \/ UpdateIsDone(b) \/ BuildStep(b)
  <2>1. PICK step \in Steps : Enter(b, step)
    BY <1>4, StepTable DEF Prune, Download, UpdateIsDone, BuildStep, Steps, Locked, Subprocess
  <2>2. memory[b].state = "building"
    BY <1>4, StepTable DEF StateIsKnown, Prune, Download, UpdateIsDone, BuildStep, Locked, Subprocess
  <2> QED
    BY <2>1, <2>2, Entered DEF WriteMayBeLost, status
<1>5. CASE Heartbeat(b)
  BY <1>5 DEF Heartbeat
<1> QED
  BY <1>1, <1>2, <1>3, <1>4, <1>5 DEF StepOf, BuilderStep

(* The error of a failed build can be read in the status file until the    *)
(* next build begins, as long as one builder does them and runs on: sleep, *)
(* skipped runs, late heartbeats and writes that are lost do not take it   *)
(* away.                                                                   *)
THEOREM ErrorsStay == Spec => ErrorsAreKept
<1> DEFINE Kept ==
      \A b \in Builders :
        Alone(b) /\ memory[b].error /\ file.error /\ ~ file'.error => pc'[b] = "prune"
<1>1. ASSUME TypeOK, StateIsKnown, [Next]_vars PROVE [Kept]_vars
  <2> SUFFICES ASSUME Next, NEW b \in Builders, Alone(b), memory[b].error, file.error
               PROVE  file'.error \/ pc'[b] = "prune"
    BY <1>1
  <2>1. CASE StepOf(b)
    BY <1>1, <2>1, StepKeepsErrors
  <2>2. ASSUME NEW d \in Builders \ {b}, StepOf(d) PROVE file' = file
    <3>1. pc[d] = "off"
      BY <1>1 DEF StateIsKnown, Alone
    <3>2. Start(d)
      BY <2>2, <3>1, StepTable DEF StepOf, BuilderStep, Wake, Quit, LooksAtStop, Skip, MayAttempt, GoToSleep,
         Leave, Caught, AttemptFails, TakeLock, Prune, StepFails, DownloadFails, Download, UpdateIsDone,
         MoreToUpdate, BuildStep, Swap, Unlock, UnlockFails, Report, Enqueue, EnqueueFails, Heartbeat, Talks,
         Subprocess, Signal, Crash
    <3> QED
      BY <3>2 DEF Start
  <2>3. CASE LeaseExpires
    BY <2>3 DEF LeaseExpires, status
  <2> QED
    BY <2>1, <2>2, <2>3, NextIsAStep
<1>2. TypeOK /\ RunInv /\ [Next]_vars => [Kept]_vars
  BY <1>1 DEF RunInv
<1> QED
  BY <1>2, RunInvHolds, PTL DEF Spec, ErrorsAreKept

-----------------------------------------------------------------------------
(* What the worker counts on.                                              *)

LEMMA StepPublishes ==
  ASSUME TypeOK, SwapsAreCounted, NEW b \in Builders, StepOf(b)
  PROVE  Published!Next \/ UNCHANGED <<graphs, updates>>
<1>1. CASE Swap(b)
  BY <1>1 DEF Swap, Published!Next, Published!Swap
<1>2. CASE Enqueue(b)
  <2>1. updates < graphs
    BY <1>2, UnderWay DEF Enqueue, AfterSwap
  <2> QED
    BY <1>2, <2>1 DEF Enqueue, Published!Next, Published!Announce
<1>3. CASE Start(b) \/ Heartbeat(b) \/ Signal(b) \/ Crash(b)
  BY <1>3 DEF Start, Heartbeat, Signal, Crash, world
<1>4. CASE Wake(b) \/ Quit(b) \/ Skip(b) \/ GoToSleep(b) \/ Leave(b) \/ Caught(b) \/ TakeLock(b) \/ Prune(b)
  BY <1>4 DEF Wake, Quit, Skip, GoToSleep, Leave, Caught, TakeLock, Prune, world
<1>5. CASE StepFails(b) \/ DownloadFails(b) \/ Download(b) \/ UpdateIsDone(b) \/ MoreToUpdate(b)
           \/ BuildStep(b) \/ Unlock(b) \/ Report(b) \/ EnqueueFails(b) \/ AttemptFails(b) \/ UnlockFails(b)
  BY <1>5 DEF StepFails, DownloadFails, Download, UpdateIsDone, MoreToUpdate, BuildStep, Unlock,
              Report, EnqueueFails, AttemptFails, UnlockFails, world
<1> QED
  BY <1>1, <1>2, <1>3, <1>4, <1>5 DEF StepOf, BuilderStep

(* To everybody else the build process is Publications: no task without a  *)
(* swap before it, and never two for one.                                  *)
THEOREM BuildsImplementPublications == Spec => ImplementsPublications
<1>1. Init => Published!Init
  BY DEF Init, Published!Init
<1>2. TypeOK /\ RunInv /\ [Next]_vars => [Published!Next]_(Published!vars)
  <2> SUFFICES ASSUME TypeOK, SwapsAreCounted, [Next]_vars
               PROVE  Published!Next \/ UNCHANGED <<graphs, updates>>
    BY DEF RunInv, Published!vars
  <2>1. CASE LeaseExpires \/ UNCHANGED vars
    BY <2>1 DEF LeaseExpires, vars, world
  <2> QED
    BY <2>1, StepPublishes, NextIsAStep
<1> QED
  BY <1>1, <1>2, RunInvHolds, PTL DEF Spec, ImplementsPublications, Published!Spec

-----------------------------------------------------------------------------
(* The way to the end of a process.                                        *)

LEMMA WayDown ==
  ASSUME NEW n
  PROVE  /\ Way("off", n) = 0 /\ Way("after", n) = 1 /\ Way("caught", n) = 2
         /\ Way("raise", n) = 3 /\ Way("enqueue", n) = 3 /\ Way("report", n) = 4
         /\ Way("unlock", n) = 5 /\ Way("swap", n) = 6 /\ Way("meta", n) = 7
         /\ Way("enhance", n) = 8 /\ Way("elevation", n) = 9 /\ Way("tiles", n) = 10
         /\ Way("config", n) = 11 /\ Way("download", n) = 12
         /\ Way("update", n) = 12 + MaxPasses - n
         /\ Way("prune", n) = 13 + MaxPasses /\ Way("attempt", n) = 14 + MaxPasses
         /\ Way("sleep", n) = 15 + MaxPasses
  BY DEF Way

(* Where each step leads: nearer to the end.                               *)
LEMMA StepGetsOn ==
  ASSUME TypeOK, TypeOK', NEW b \in Builders, StepOf(b), pc[b] # "off", stop[b] \/ b \in Once
  PROVE  (pc'[b] = pc[b] /\ pass'[b] = pass[b]) \/ StepsLeft(b)' < StepsLeft(b)
<1>0. /\ MaxPasses \in Nat /\ pc[b] \in Steps /\ pass[b] \in Nat /\ pass'[b] \in Nat
      /\ pass[b] = 0 \/ (pc[b] = "update" /\ pass[b] < MaxPasses)
      /\ pass'[b] = 0 \/ (pc'[b] = "update" /\ pass'[b] < MaxPasses)
  BY DEF TypeOK
<1>a. ASSUME NEW step \in Steps, pc' = [pc EXCEPT ![b] = step] PROVE pc'[b] = step
  BY <1>a DEF TypeOK
<1> DEFINE Down(from, to) == pc[b] = from /\ pc'[b] \in to
<1> USE DEF Steps, Locked, Subprocess
<1>1. CASE Wake(b) \/ Quit(b) \/ Skip(b) \/ GoToSleep(b) \/ Leave(b) \/ Caught(b)
  <2>1. \/ Down("sleep", {"attempt", "off"}) \/ Down("attempt", {"after", "off"})
        \/ Down("after", {"off"}) \/ Down("caught", {"after", "off"})
    BY <1>0, <1>1, <1>a, BuildAssumption DEF Wake, Quit, LooksAtStop, Skip, MayAttempt, GoToSleep, Loops,
       Leave, Caught, Goes, Exits
  <2> QED
    BY <1>0, <2>1, WayDown DEF StepsLeft
<1>2. CASE TakeLock(b) \/ Prune(b) \/ Download(b) \/ UpdateIsDone(b) \/ BuildStep(b)
  <2>1. PICK step \in Steps :
          /\ Enter(b, step)
          /\ \/ pc[b] = "attempt" /\ step = "prune"
             \/ pc[b] = "prune" /\ step \in {"download", "update"}
             \/ pc[b] \in {"download", "update"} /\ step = "config"
             \/ pc[b] = "config" /\ step = "tiles"
             \/ pc[b] = "tiles" /\ step \in {"elevation", "enhance"}
             \/ pc[b] = "elevation" /\ step = "enhance"
             \/ pc[b] = "enhance" /\ step = "meta"
             \/ pc[b] = "meta" /\ step = "swap"
    BY <1>2 DEF TakeLock, MayAttempt, Prune, Download, UpdateIsDone, BuildStep, NextStep
  <2>2. pc'[b] = step
    BY <1>a, <2>1, Entered
  <2> QED
    BY <1>0, <2>1, <2>2, WayDown DEF StepsLeft
<1>3. CASE StepFails(b) \/ DownloadFails(b)
  <2>1. pc[b] \in Subprocess \cup {"prune", "meta", "swap"} /\ pc'[b] = "raise"
    BY <1>3, <1>a DEF StepFails, DownloadFails, Raise, Talks, Goes
  <2> QED
    BY <1>0, <2>1, WayDown DEF StepsLeft
<1>4. CASE MoreToUpdate(b)
  <2>1. pc[b] = "update" /\ pc'[b] = "update" /\ pass'[b] = pass[b] + 1
    BY <1>4 DEF MoreToUpdate, TypeOK
  <2> QED
    BY <1>0, <2>1, WayDown DEF StepsLeft
<1>5. CASE Swap(b) \/ Unlock(b) \/ Report(b) \/ Enqueue(b) \/ EnqueueFails(b)
  <2>1. \/ Down("swap", {"unlock"}) \/ Down("unlock", {"report"}) \/ Down("raise", {"caught"})
        \/ Down("report", {"enqueue"}) \/ Down("enqueue", {"after", "caught"})
    BY <1>5, <1>a DEF Swap, Unlock, AfterUnlock, Report, Enqueue, EnqueueFails, EnqueueRaises, Goes
  <2> QED
    BY <1>0, <2>1, WayDown DEF StepsLeft
<1>6. CASE Crash(b) \/ AttemptFails(b) \/ UnlockFails(b)
  <2>1. \/ pc'[b] = "off"
        \/ Down("attempt", {"caught"}) \/ Down("unlock", {"caught"}) \/ Down("raise", {"caught"})
    BY <1>6, <1>a DEF Crash, AttemptFails, MayAttempt, UnlockFails, Exits, Goes
  <2> QED
    BY <1>0, <2>1, WayDown DEF StepsLeft
<1>7. CASE Start(b) \/ Heartbeat(b) \/ Signal(b)
  BY <1>7 DEF Start, Heartbeat, Signal, run
<1> QED
  BY <1>1, <1>2, <1>3, <1>4, <1>5, <1>6, <1>7 DEF StepOf, BuilderStep

(* From a signal on, and in a --once builder from the start, there is no   *)
(* way back: neither the schedule nor a failure begins another run.        *)
THEOREM LastRunsDoGetOn == Spec => LastRunsGetOn
<1> DEFINE GetsOn == \A b \in Builders :
                       pc[b] # "off" /\ (stop[b] \/ b \in Once)
                         => <<pc[b], pass[b]>>' = <<pc[b], pass[b]>> \/ StepsLeft(b)' < StepsLeft(b)
<1>1. TypeOK /\ TypeOK' /\ [Next]_vars => [GetsOn]_vars
  <2> SUFFICES ASSUME TypeOK, TypeOK', Next, NEW b \in Builders, pc[b] # "off", stop[b] \/ b \in Once
               PROVE  (pc'[b] = pc[b] /\ pass'[b] = pass[b]) \/ StepsLeft(b)' < StepsLeft(b)
    OBVIOUS
  <2>1. CASE StepOf(b)
    BY <2>1, StepGetsOn
  <2>2. ASSUME NEW d \in Builders \ {b}, StepOf(d)
        PROVE  pc'[b] = pc[b] /\ pass'[b] = pass[b]
    BY <2>2, OthersStay
  <2>3. CASE LeaseExpires
    BY <2>3 DEF LeaseExpires, run
  <2> QED
    BY <2>1, <2>2, <2>3, NextIsAStep
<1> QED
  BY <1>1, TypeCorrect, PTL DEF Spec, LastRunsGetOn
=============================================================================
