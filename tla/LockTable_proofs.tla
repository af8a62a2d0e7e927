-------------------------- MODULE LockTable_proofs --------------------------
(***************************************************************************)
(* What the statements of lock_utils.py do to the table, whatever the ids, *)
(* the paths and the number of rows.                                       *)
(***************************************************************************)
EXTENDS LockTable, TLAPS

(* The attempts and the release keep the table a table. *)
LEMMA TableOperations ==
  ASSUME NEW t \in LockTables, NEW i \in LockId
  PROVE  /\ EmptyTable \in LockTables
         /\ Denied(t) \in LockTables
         /\ Released(t, i) \in LockTables
         /\ \A p \in Path, m \in LockMode, ttl \in Nat :
              Granted(t, i, p, m, ttl) \in LockTables
  BY DEF LockTables, EmptyTable, Denied, Reap, Released, Granted, LockRow

(* A grant leaves every other live row as it is and adds one. *)
LEMMA GrantedRows ==
  ASSUME NEW t \in LockTables, NEW i \in LockId, NEW p \in Path, NEW m \in LockMode,
         NEW ttl \in Nat \ {0}
  PROVE  /\ Granted(t, i, p, m, ttl)[i] = [path |-> p, mode |-> m, left |-> ttl]
         /\ Live(Granted(t, i, p, m, ttl), i)
         /\ \A j \in LockId \ {i} :
              /\ Live(t, j) => Granted(t, i, p, m, ttl)[j] = t[j]
              /\ Live(Granted(t, i, p, m, ttl), j) <=> Live(t, j)
<1> DEFINE row == [path |-> p, mode |-> m, left |-> ttl]
<1>1. row \in LockRow /\ row.left > 0
  BY DEF LockRow
<1>2. row # NoRow
  BY <1>1, NoRowAssumption
<1>3. Granted(t, i, p, m, ttl)[i] = row
  BY DEF Granted, Reap
<1>4. \A j \in LockId \ {i} :
        Granted(t, i, p, m, ttl)[j] = IF Live(t, j) THEN t[j] ELSE NoRow
  BY DEF Granted, Reap
<1> QED
  BY <1>1, <1>2, <1>3, <1>4 DEF Live

(* A refusal, a release and the end of a lease leave every live row but    *)
(* the released or expired one as it is, and add none.                     *)
LEMMA DeniedRows ==
  ASSUME NEW t \in LockTables
  PROVE  \A j \in LockId :
           /\ Live(t, j) => Denied(t)[j] = t[j]
           /\ Live(Denied(t), j) <=> Live(t, j)
  BY DEF Denied, Reap, Live

LEMMA ReleasedRows ==
  ASSUME NEW t \in LockTables, NEW i \in LockId
  PROVE  /\ Released(t, i)[i] = NoRow
         /\ \A j \in LockId \ {i} : Released(t, i)[j] = t[j]
         /\ \A j \in LockId : Live(Released(t, i), j) <=> j # i /\ Live(t, j)
  BY DEF Released, Live, LockTables

(* A lock that is grantable can be granted: the leases still exclude each  *)
(* other afterwards.  This is the whole of _try_acquire's promise.         *)
THEOREM GrantKeepsCompatible ==
  ASSUME NEW t \in LockTables, Compatible(t),
         NEW i \in Unused(t), NEW p \in Path, NEW m \in LockMode, NEW ttl \in Nat \ {0},
         Grantable(t, p, m)
  PROVE  Compatible(Granted(t, i, p, m, ttl))
<1> DEFINE u == Granted(t, i, p, m, ttl)
<1>1. i \in LockId
  BY DEF Unused
<1>2. /\ u[i] = [path |-> p, mode |-> m, left |-> ttl]
      /\ \A j \in LockId \ {i} :
           (Live(u, j) <=> Live(t, j)) /\ (Live(t, j) => u[j] = t[j])
  BY <1>1, GrantedRows
<1>3. \A j \in LockId : Live(t, j) /\ t[j].path = p =>
         m = "shared" /\ t[j].mode # "exclusive"
  BY DEF Grantable, Conflicts
<1>4. \A j \in LockId : Live(t, j) => t[j].mode \in LockMode
  BY DEF LockTables, LockRow, Live
<1> HIDE DEF u
<1>5. SUFFICES ASSUME NEW j \in LockId, NEW k \in LockId,
                      j # k, Live(u, j), Live(u, k), u[j].path = u[k].path
               PROVE  u[j].mode = "shared" /\ u[k].mode = "shared"
  BY DEF Compatible, u
<1>6. CASE j = i
  BY <1>2, <1>3, <1>4, <1>5, <1>6 DEF LockMode
<1>7. CASE k = i
  BY <1>2, <1>3, <1>4, <1>5, <1>7 DEF LockMode
<1>8. CASE j # i /\ k # i
  BY <1>2, <1>5, <1>8 DEF Compatible
<1> QED
  BY <1>6, <1>7, <1>8

(* Rows that only go away, or run out, exclude each other as before. *)
LEMMA FewerRowsCompatible ==
  ASSUME NEW t \in LockTables, NEW u \in LockTables, Compatible(t),
         \A j \in LockId :
           Live(u, j) => /\ Live(t, j)
                         /\ u[j].path = t[j].path
                         /\ u[j].mode = t[j].mode
  PROVE  Compatible(u)
  BY DEF Compatible

-----------------------------------------------------------------------------
(* The leases a table stands for.                                          *)

LeaseOf(t, i) == [id |-> i, path |-> t[i].path, mode |-> t[i].mode]

(* Fewer live rows, with the path and mode they had, are fewer leases.     *)
LEMMA FewerLeases ==
  ASSUME NEW t, NEW u,
         \A j \in LockId :
           Live(u, j) => Live(t, j) /\ u[j].path = t[j].path /\ u[j].mode = t[j].mode
  PROVE  LeasesOf(u) \subseteq LeasesOf(t)
<1> SUFFICES ASSUME NEW j \in LockId, Live(u, j) PROVE LeaseOf(u, j) \in LeasesOf(t)
  BY DEF LeasesOf, LeaseOf
<1>1. Live(t, j) /\ LeaseOf(u, j) = LeaseOf(t, j)
  BY DEF LeaseOf
<1> QED
  BY <1>1 DEF LeasesOf, LeaseOf

(* A grant adds the lease it is for, which the others admit.               *)
LEMMA GrantTakesLease ==
  ASSUME NEW t \in LockTables, NEW i \in Unused(t), NEW p \in Path, NEW m \in LockMode,
         NEW ttl \in Nat \ {0}, Grantable(t, p, m)
  PROVE  LET l == [id |-> i, path |-> p, mode |-> m] IN
         /\ LeasesOf(Granted(t, i, p, m, ttl)) = LeasesOf(t) \cup {l}
         /\ \A k \in LeasesOf(t) :
              k.id # i /\ (k.path = p => k.mode = "shared" /\ m = "shared")
<1> DEFINE u == Granted(t, i, p, m, ttl)
           l == [id |-> i, path |-> p, mode |-> m]
<1>1. i \in LockId /\ ~ Live(t, i)
  BY DEF Unused, Live
<1>2. /\ Live(u, i) /\ LeaseOf(u, i) = l
      /\ \A j \in LockId \ {i} :
           (Live(u, j) <=> Live(t, j)) /\ (Live(t, j) => LeaseOf(u, j) = LeaseOf(t, j))
  <2>1. /\ u[i] = [path |-> p, mode |-> m, left |-> ttl] /\ Live(u, i)
        /\ \A j \in LockId \ {i} :
             (Live(t, j) => u[j] = t[j]) /\ (Live(u, j) <=> Live(t, j))
    BY <1>1, GrantedRows
  <2> HIDE DEF u
  <2> QED
    BY <2>1 DEF LeaseOf
<1> HIDE DEF u, l
<1>3. LeasesOf(u) = LeasesOf(t) \cup {l}
  <2>1. \A k : k \in LeasesOf(u) <=> \E j \in LockId : Live(u, j) /\ k = LeaseOf(u, j)
    BY DEF LeasesOf, LeaseOf
  <2>2. \A k : k \in LeasesOf(t) <=> \E j \in LockId : Live(t, j) /\ k = LeaseOf(t, j)
    BY DEF LeasesOf, LeaseOf
  <2> QED
    BY <1>1, <1>2, <2>1, <2>2
<1>4. ASSUME NEW k \in LeasesOf(t)
      PROVE  k.id # i /\ (k.path = p => k.mode = "shared" /\ m = "shared")
  <2>1. PICK j \in LockId : Live(t, j) /\ k = LeaseOf(t, j)
    BY DEF LeasesOf, LeaseOf
  <2>2. j # i /\ t[j].mode \in LockMode
    BY <1>1, <2>1 DEF LockTables, LockRow, Live
  <2>3. t[j].path = p => m # "shared" \/ t[j].mode # "exclusive"
    BY <2>1 DEF Grantable, Conflicts
  <2>4. t[j].path = p => m = "shared" /\ t[j].mode = "shared"
    BY <2>1, <2>2 DEF Grantable, Conflicts, LockMode
  <2> QED
    BY <2>1, <2>2, <2>4 DEF LeaseOf
<1> QED
  BY <1>3, <1>4 DEF l, u

(* A refusal reaps no lease, and an empty table has none.                  *)
LEMMA RefusalKeepsLeases ==
  ASSUME NEW t \in LockTables
  PROVE  LeasesOf(Denied(t)) = LeasesOf(t) /\ LeasesOf(EmptyTable) = {}
<1>1. LeasesOf(Denied(t)) \subseteq LeasesOf(t) /\ LeasesOf(t) \subseteq LeasesOf(Denied(t))
  BY DeniedRows, FewerLeases
<1>2. LeasesOf(EmptyTable) = {}
  BY DEF LeasesOf, EmptyTable, Live
<1> QED
  BY <1>1, <1>2

=============================================================================
