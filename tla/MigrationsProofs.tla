--------------------------- MODULE MigrationsProofs ---------------------------
(***************************************************************************)
(* The safety of migrations.Up for any number of replicas, files, crashes  *)
(* and restarts, with and without Vault.                                   *)
(*                                                                         *)
(* Check-then-act is safe here because of two facts the invariant states:  *)
(* the locks of a file's DDL let one open transaction have run it           *)
(* (Exclusive), and the one about to commit has seen that it is not        *)
(* recorded since it took them (Unrecorded).                               *)
(***************************************************************************)
EXTENDS Migrations, TLAPS

Progress ==
  \A r \in Replicas :
    /\ pc[r] = "ensure" => file[r] = 1
    /\ pc[r] \in {"exec", "record", "commit"} => file[r] \in Files
    /\ pc[r] = "done" => file[r] = NumFiles + 1
    /\ pc[r] # "down" => \A g \in 1..(file[r] - 1) : g \in recorded

Prefix == \A f \in recorded : \A g \in 1..f : g \in recorded

Exclusive ==
  \A q, r \in Replicas :
    /\ pc[q] \in {"record", "commit"} /\ pc[r] \in {"record", "commit"}
    /\ file[q] = file[r]
    => q = r

Unrecorded == \A r \in Replicas : pc[r] = "commit" => file[r] \notin recorded

(* The schema is always the one after some prefix of the files, and nobody *)
(* runs a file before all earlier ones are committed.                      *)
InOrder ==
  /\ \A f \in recorded : \A g \in 1..f : g \in recorded
  /\ \A r \in Replicas : pc[r] \in {"exec", "record", "commit"}
                           => \A g \in 1..(file[r] - 1) : g \in recorded

IndInv ==
  /\ TypeOK
  /\ Progress
  /\ Prefix
  /\ Exclusive
  /\ Unrecorded
  /\ RunOnce

(* The invariant holds before any replica has run a statement. *)
LEMMA InitEstablishes == Init => IndInv
<1> SUFFICES ASSUME Init PROVE IndInv
  OBVIOUS
<1>1. NumFiles \in Nat \ {0} /\ MaxCrashes \in Nat
  BY MigrationsAssumption
<1>2. TypeOK
  <2>1. table \in BOOLEAN /\ vault \in BOOLEAN
        /\ owns \in [Replicas -> BOOLEAN] /\ granted \in [Replicas -> BOOLEAN]
    BY MigrationsAssumption, Zenon DEF Init
  <2>2. 1 \in 1..(NumFiles + 1) /\ 0 \in 0..MaxCrashes
    BY <1>1
  <2> QED BY <2>1, <2>2 DEF Init, TypeOK
<1>3. Progress /\ Prefix
  BY DEF Init, Progress, Prefix
<1>4. Exclusive /\ Unrecorded
  BY DEF Init, Exclusive, Unrecorded
<1>5. RunOnce
  BY DEF Init, RunOnce
<1> QED BY <1>2, <1>3, <1>4, <1>5 DEF IndInv

(* A replica that stops, for whatever reason, leaves the database alone. *)
LEMMA StopPreserves ==
  ASSUME IndInv, NEW r \in Replicas, Goto(r, "down"), crashes' \in 0..MaxCrashes,
         UNCHANGED <<table, recorded, runs, file, owns, granted, vault>>
  PROVE  IndInv'
<1>1. TypeOK'
  BY DEF IndInv, TypeOK, Goto
<1>2. Progress'
  BY DEF IndInv, TypeOK, Progress, Goto
<1>3. Exclusive' /\ Unrecorded'
  BY DEF IndInv, TypeOK, Exclusive, Unrecorded, Goto
<1>4. RunOnce' /\ Prefix'
  BY DEF IndInv, RunOnce, Prefix
<1> QED BY <1>1, <1>2, <1>3, <1>4 DEF IndInv

(* Steps that only move a replica on to its next statement. *)
LEMMA MovePreserves ==
  ASSUME IndInv, NEW r \in Replicas, UpReturns(r) \/ Begin(r) \/ Exec(r) \/ Record(r)
  PROVE  IndInv'
<1> USE DEF IndInv
<1>1. UNCHANGED <<table, recorded, runs, file, owns, granted, crashes, vault>>
  BY DEF UpReturns, Begin, Exec, Record
<1>2. TypeOK'
  BY <1>1 DEF TypeOK, UpReturns, Begin, Exec, Record, Goto
<1>3. RunOnce' /\ Prefix'
  BY <1>1 DEF RunOnce, Prefix
<1>4. CASE UpReturns(r)
  <2>1. file[r] = NumFiles + 1
    BY <1>4, MigrationsAssumption DEF TypeOK, UpReturns
  <2>2. Progress'
    BY <1>1, <1>4, <2>1 DEF TypeOK, Progress, UpReturns, Goto
  <2>3. Exclusive' /\ Unrecorded'
    BY <1>1, <1>4 DEF TypeOK, Exclusive, Unrecorded, UpReturns, Goto
  <2> QED BY <1>2, <1>3, <2>2, <2>3
<1>5. CASE Begin(r)
  <2>1. Progress'
    BY <1>1, <1>5 DEF TypeOK, Progress, Begin, Goto
  <2>2. Exclusive' /\ Unrecorded'
    BY <1>1, <1>5 DEF TypeOK, Exclusive, Unrecorded, Begin, Goto
  <2> QED BY <1>2, <1>3, <2>1, <2>2
<1>6. CASE Exec(r)
  <2>1. Progress'
    BY <1>1, <1>6 DEF TypeOK, Progress, Exec, Goto
  <2>2. Exclusive' /\ Unrecorded'
    BY <1>1, <1>6 DEF TypeOK, Exclusive, Unrecorded, Exec, Blocked, Goto
  <2> QED BY <1>2, <1>3, <2>1, <2>2
<1>7. CASE Record(r)
  <2>1. Progress'
    BY <1>1, <1>7 DEF TypeOK, Progress, Record, Goto
  <2>2. Exclusive' /\ Unrecorded'
    BY <1>1, <1>7 DEF TypeOK, Exclusive, Unrecorded, Record, Goto
  <2> QED BY <1>2, <1>3, <2>1, <2>2
<1> QED BY <1>4, <1>5, <1>6, <1>7

(***************************************************************************)
(* A commit records its file, which nobody had recorded, once; nobody else *)
(* is about to commit the same file.                                       *)
(***************************************************************************)
LEMMA CommitPreserves ==
  ASSUME IndInv, NEW r \in Replicas, Commit(r) \/ CommitLost(r)
  PROVE  IndInv'
<1> USE DEF IndInv
<1>0. NumFiles \in Nat \ {0} /\ MaxCrashes \in Nat
  BY MigrationsAssumption
<1>1. pc[r] = "commit" /\ Committed(r)
  BY DEF Commit, CommitLost
<1>2. file[r] \in Files /\ file[r] \notin recorded
  BY <1>1 DEF Progress, Unrecorded
<1>3. RunOnce' /\ runs' \in [Files -> 0..2]
  BY <1>1, <1>2 DEF TypeOK, RunOnce, Committed
<1>4. recorded' \subseteq Files /\ recorded \subseteq recorded'
  BY <1>1, <1>2 DEF TypeOK, Committed
<1>5. ASSUME NEW q \in Replicas, q # r, pc[q] = "commit" PROVE file[q] \notin recorded'
  BY <1>1, <1>5 DEF Exclusive, Unrecorded, Committed
<1>6. \A g \in 1..file[r] : g \in recorded'
  <2>1. \A g \in 1..(file[r] - 1) : g \in recorded
    BY <1>1 DEF Progress
  <2>2. file[r] \in recorded' /\ file[r] \in Nat
    BY <1>0, <1>1, <1>2 DEF Committed, Files
  <2>3. \A g \in 1..file[r] : g = file[r] \/ g \in 1..(file[r] - 1)
    BY <2>2
  <2> QED BY <1>4, <2>1, <2>2, <2>3
<1>7. Prefix'
  BY <1>1, <1>6 DEF Prefix, Committed
<1>8. CASE Commit(r)
  <2>1. owns' \in [Replicas -> BOOLEAN]
    BY <1>8, Zenon DEF TypeOK, Commit
  <2>2. file[r] + 1 \in 1..(NumFiles + 1)
    BY <1>0, <1>2 DEF Files
  <2>3. TypeOK'
    BY <1>3, <1>4, <1>8, <2>1, <2>2 DEF TypeOK, Commit, Goto
  <2>4. Progress'
    <3>1. ASSUME NEW q \in Replicas, q # r
          PROVE  /\ pc'[q] = "ensure" => file'[q] = 1
                 /\ pc'[q] \in {"exec", "record", "commit"} => file'[q] \in Files
                 /\ pc'[q] = "done" => file'[q] = NumFiles + 1
                 /\ pc'[q] # "down" => \A g \in 1..(file'[q] - 1) : g \in recorded'
      BY <1>4, <1>8, <3>1 DEF TypeOK, Progress, Commit, Goto
    <3>2. pc'[r] = "check" /\ file'[r] = file[r] + 1
      BY <1>8 DEF TypeOK, Commit, Goto
    <3>3. \A g \in 1..(file'[r] - 1) : g \in recorded'
      BY <1>0, <1>2, <1>6, <3>2 DEF Files
    <3> QED BY <3>1, <3>2, <3>3 DEF Progress
  <2>5. Exclusive'
    BY <1>8 DEF TypeOK, Exclusive, Commit, Goto
  <2>6. Unrecorded'
    BY <1>5, <1>8 DEF TypeOK, Unrecorded, Commit, Goto
  <2> QED BY <1>3, <1>7, <2>3, <2>4, <2>5, <2>6
<1>9. CASE CommitLost(r)
  <2>1. TypeOK'
    BY <1>0, <1>3, <1>4, <1>9 DEF TypeOK, CommitLost, Goto
  <2>2. Progress'
    BY <1>4, <1>9 DEF TypeOK, Progress, CommitLost, Goto
  <2>3. Exclusive'
    BY <1>9 DEF TypeOK, Exclusive, CommitLost, Goto
  <2>4. Unrecorded'
    BY <1>5, <1>9 DEF TypeOK, Unrecorded, CommitLost, Goto
  <2> QED BY <1>3, <1>7, <2>1, <2>2, <2>3, <2>4
<1> QED BY <1>8, <1>9

(* Starting, and going past a file that is recorded. *)
LEMMA StartPreserves ==
  ASSUME IndInv, NEW r \in Replicas, EnsureTable(r) \/ Skip(r) \/ Restart(r)
  PROVE  IndInv'
<1> USE DEF IndInv
<1>0. NumFiles \in Nat \ {0}
  BY MigrationsAssumption
<1>1. RunOnce' /\ Prefix'
  BY DEF RunOnce, Prefix, EnsureTable, Skip, Restart
<1>2. CASE EnsureTable(r)
  <2>1. table' \in BOOLEAN /\ granted' \in [Replicas -> BOOLEAN]
    BY <1>2, Zenon DEF TypeOK, EnsureTable
  <2>2. TypeOK'
    BY <1>2, <2>1 DEF TypeOK, EnsureTable, Goto
  <2>3. Progress'
    BY <1>2 DEF TypeOK, Progress, EnsureTable, Goto
  <2>4. Exclusive' /\ Unrecorded'
    BY <1>2 DEF TypeOK, Exclusive, Unrecorded, EnsureTable, Goto
  <2> QED BY <1>1, <2>2, <2>3, <2>4
<1>3. CASE Skip(r)
  <2>1. file[r] \in Files
    BY <1>3 DEF TypeOK, Skip
  <2>2. TypeOK'
    BY <1>0, <1>3, <2>1 DEF TypeOK, Skip, Files
  <2>3. Progress'
    <3>1. file' = [file EXCEPT ![r] = file[r] + 1] /\ UNCHANGED <<pc, recorded>>
      BY <1>3 DEF Skip
    <3>2. \A g \in 1..file[r] : g \in recorded
      BY <1>3, <2>1 DEF Progress, Skip, Files
    <3>3. file'[r] = file[r] + 1 /\ \A q \in Replicas : q # r => file'[q] = file[q]
      BY <3>1 DEF TypeOK
    <3>4. pc[r] = "check"
      BY <1>3 DEF Skip
    <3> QED BY <1>0, <2>1, <3>1, <3>2, <3>3, <3>4 DEF Progress, Files
  <2>4. Exclusive' /\ Unrecorded'
    BY <1>3 DEF TypeOK, Exclusive, Unrecorded, Skip
  <2> QED BY <1>1, <2>2, <2>3, <2>4
<1>4. CASE Restart(r)
  <2>1. owns' \in [Replicas -> BOOLEAN] /\ granted' \in [Replicas -> BOOLEAN]
    BY <1>4, Zenon DEF TypeOK, Restart
  <2>2. TypeOK'
    BY <1>0, <1>4, <2>1 DEF TypeOK, Restart, Goto
  <2>3. Progress'
    BY <1>4 DEF TypeOK, Progress, Restart, Goto
  <2>4. Exclusive' /\ Unrecorded'
    BY <1>4 DEF TypeOK, Exclusive, Unrecorded, Restart, Goto
  <2> QED BY <1>1, <2>2, <2>3, <2>4
<1> QED BY <1>2, <1>3, <1>4

(* The invariant holds in every state. *)
LEMMA Invariance == Spec => []IndInv
<1>1. ASSUME IndInv, NEW r \in Replicas, UpStep(r) \/ CommitLost(r) \/ Crash(r)
      PROVE  IndInv'
  <2>1. CASE EnsureCollides(r) \/ CheckDenied(r) \/ ExecFails(r) \/ RecordFails(r)
    BY <1>1, <2>1, StopPreserves
    DEF EnsureCollides, CheckDenied, ExecFails, RecordFails, Fatal, IndInv, TypeOK
  <2>2. CASE Crash(r)
    BY <1>1, <2>2, StopPreserves, MigrationsAssumption DEF Crash, IndInv, TypeOK
  <2> QED BY <1>1, <2>1, <2>2, MovePreserves, CommitPreserves, StartPreserves DEF UpStep
<1>2. ASSUME IndInv, UNCHANGED vars PROVE IndInv'
  BY <1>2 DEF IndInv, TypeOK, Progress, Prefix, Exclusive, Unrecorded, RunOnce, vars
<1>3. IndInv /\ [Next]_vars => IndInv'
  BY <1>1, <1>2 DEF Next
<1> QED BY <1>3, InitEstablishes, PTL DEF Spec

--------------------------------------------------------------------------------

(* Whatever fails and whoever crashes, a replica's place, its ownership and *)
(* its grants stay meaningful.                                             *)
THEOREM MigrationsTypeCorrect == Spec => []TypeOK
BY Invariance, PTL DEF IndInv

(* Replicas that find the same file missing never both apply it, and a     *)
(* file is recorded exactly when it was applied.                           *)
THEOREM MigrationsRunOnce == Spec => []RunOnce
BY Invariance, PTL DEF IndInv

(* Files are applied in their order, whoever applies them.                 *)
THEOREM MigrationsInOrder == Spec => []InOrder
<1>1. IndInv => InOrder
  BY DEF IndInv, Progress, Prefix, InOrder
<1> QED BY <1>1, Invariance, PTL

(* Up returns nil to main only when every file is recorded.                *)
THEOREM MigratedBeforeServing == Spec => []ServesMigrated
<1>1. ASSUME IndInv, NEW r \in Replicas, pc[r] = "done" PROVE recorded = Files
  <2>1. file[r] - 1 = NumFiles
    BY <1>1, MigrationsAssumption DEF IndInv, Progress
  <2>2. \A g \in Files : g \in recorded
    BY <1>1, <2>1 DEF IndInv, Progress, Files
  <2> QED BY <1>1, <2>2 DEF IndInv, TypeOK
<1>2. IndInv => ServesMigrated
  BY <1>1 DEF ServesMigrated
<1> QED BY <1>2, Invariance, PTL

--------------------------------------------------------------------------------
(* Losing the owner of the orders table *)

(* Only the table's owner gets past the files that refer to it. *)
OwnerRuns ==
  \A r \in Replicas : pc[r] \in {"record", "commit"} /\ file[r] \in OwnerOnly /\ vault => owns[r]

(* Ownership is lost with the process only. *)
LEMMA OwnerInvariance == Spec => []OwnerRuns
<1>1. Init => OwnerRuns
  BY DEF Init, OwnerRuns
<1>2. ASSUME IndInv, OwnerRuns, NEW r \in Replicas, UpStep(r) \/ CommitLost(r) \/ Crash(r)
      PROVE  OwnerRuns'
  <2>1. vault' = vault /\ \A q \in Replicas \ {r} : pc'[q] = pc[q] /\ file'[q] = file[q] /\ owns'[q] = owns[q]
    BY <1>2 DEF IndInv, TypeOK, UpStep, EnsureTable, EnsureCollides, UpReturns, Skip, Begin,
      CheckDenied, Exec, ExecFails, Record, RecordFails, Commit, Restart, CommitLost, Crash, Fatal, Goto
  <2>2. pc'[r] \in {"record", "commit"} => Exec(r) \/ Record(r)
    BY <1>2 DEF IndInv, TypeOK, UpStep, EnsureTable, EnsureCollides, UpReturns, Skip, Begin,
      CheckDenied, ExecFails, RecordFails, Commit, Restart, CommitLost, Crash, Fatal, Goto
  <2>3. CASE Exec(r)
    BY <2>1, <2>3, <1>2 DEF Exec, ExecSucceeds, MayRun, OwnerRuns
  <2>4. CASE Record(r)
    BY <2>1, <2>4, <1>2 DEF Record, OwnerRuns
  <2>5. CASE pc'[r] \notin {"record", "commit"}
    BY <2>1, <2>5, <1>2 DEF OwnerRuns
  <2> QED BY <2>2, <2>3, <2>4, <2>5
<1>3. ASSUME OwnerRuns, UNCHANGED vars PROVE OwnerRuns'
  BY <1>3 DEF OwnerRuns, vars
<1>4. IndInv /\ OwnerRuns /\ [Next]_vars => OwnerRuns'
  BY <1>2, <1>3 DEF Next
<1> QED BY <1>1, <1>4, Invariance, PTL DEF Spec

(***************************************************************************)
(* With Vault, a replica that dies between the file that creates the       *)
(* orders table and the last one that only its owner may run leaves the    *)
(* schema unfinished for good: no later step of any replica, under         *)
(* whatever new database user, undoes it, and none ever serves.  So the    *)
(* exception of UpCompletesUnlessOrphaned cannot be dropped.               *)
(***************************************************************************)
THEOREM OrphanedForGood ==
  Spec => [](Orphaned => \A r \in Replicas : pc[r] # "done") /\ [][Orphaned => Orphaned']_vars
<1>1. TypeOK /\ ServesMigrated /\ Orphaned => \A r \in Replicas : pc[r] # "done"
  BY MigrationsAssumption DEF ServesMigrated, Orphaned
<1>2. ASSUME IndInv, OwnerRuns, Orphaned, NEW r \in Replicas, UpStep(r) \/ CommitLost(r) \/ Crash(r)
      PROVE  Orphaned'
  <2>1. vault' = vault /\ \A q \in Replicas \ {r} : pc'[q] = pc[q] /\ owns'[q] = owns[q]
    BY <1>2 DEF IndInv, TypeOK, UpStep, EnsureTable, EnsureCollides, UpReturns, Skip, Begin,
      CheckDenied, Exec, ExecFails, Record, RecordFails, Commit, Restart, CommitLost, Crash, Fatal, Goto
  <2>2. CASE Commit(r) \/ CommitLost(r)
    <3>1. /\ pc[r] = "commit" /\ recorded' = recorded \cup {file[r]}
          /\ file[r] \notin recorded /\ ~owns[r]
      BY <1>2, <2>2 DEF Commit, CommitLost, Committed, IndInv, Unrecorded, Orphaned
    <3>2. file[r] \notin OwnerOnly /\ file[r] # Creates
      BY <1>2, <3>1 DEF OwnerRuns, Orphaned
    <3>3. ~owns'[r]
      BY <1>2, <2>2, <3>1, <3>2 DEF Commit, CommitLost, IndInv, TypeOK
    <3> QED BY <1>2, <2>1, <3>1, <3>2, <3>3 DEF Orphaned
  <2>3. CASE Restart(r)
    <3>1. recorded' = recorded /\ ~owns'[r]
      BY <1>2, <2>3 DEF Restart, IndInv, TypeOK
    <3> QED BY <1>2, <2>1, <3>1 DEF Orphaned
  <2>4. CASE ~Commit(r) /\ ~CommitLost(r) /\ ~Restart(r)
    <3>1. recorded' = recorded /\ owns' = owns /\ pc[r] # "down"
      BY <1>2, <2>4 DEF UpStep, EnsureTable, EnsureCollides, UpReturns, Skip, Begin,
        CheckDenied, Exec, ExecFails, Record, RecordFails, Crash, Fatal
    <3> QED BY <1>2, <2>1, <3>1 DEF Orphaned
  <2> QED BY <2>2, <2>3, <2>4
<1>3. IndInv /\ OwnerRuns /\ [Next]_vars => [Orphaned => Orphaned']_vars
  BY <1>2 DEF Next
<1> QED
  BY <1>1, <1>3, Invariance, OwnerInvariance, MigrationsTypeCorrect, MigratedBeforeServing, PTL DEF Spec
================================================================================
