------------------------------ MODULE Migrations ------------------------------
(***************************************************************************)
(* migrations.Up, run by every replica of a service when it starts: for    *)
(* each file in order, look whether it is recorded, and if not run it and  *)
(* record it in one transaction.  Nothing keeps two replicas from running  *)
(* Up at the same time; main ends the process on any error, and the        *)
(* orchestrator starts it again.                                           *)
(*                                                                         *)
(* Files are numbered in their sorted order.  With Vault, every start of a *)
(* replica is a new database user, which owns the tables it creates; the   *)
(* grants it gets cover the tables that exist when it is made.             *)
(***************************************************************************)
EXTENDS Naturals

CONSTANTS Replicas,
          NumFiles,     \* the *.up.sql files
          Repeatable,   \* files that succeed when run again (DROP ... IF EXISTS)
          Creates,      \* the file that creates the orders table ...
          OwnerOnly,    \* ... which these refer to or alter: its owner alone may
          Deployments,  \* whether with Vault (TRUE), without, or either
          MaxCrashes    \* bound: processes killed, commits whose answer is lost

Files == 1..NumFiles

ASSUME MigrationsAssumption ==
  /\ NumFiles \in Nat \ {0} /\ MaxCrashes \in Nat
  /\ Repeatable \subseteq Files
  /\ Creates \in Files /\ OwnerOnly \subseteq Files
  /\ Deployments \subseteq BOOLEAN

VARIABLES
  table,     \* schema_migrations exists
  recorded,  \* its rows
  runs,      \* how often each file was run by a committed transaction, up to 2
  pc,        \* the next statement of each replica
  file,      \* the file it is at
  owns,      \* its database user created the orders table
  granted,   \* its database user may use schema_migrations
  crashes,
  vault      \* cfg.UseVault(), the same in all replicas

vars == <<table, recorded, runs, pc, file, owns, granted, crashes, vault>>

Init ==
  /\ table = FALSE /\ recorded = {}
  /\ runs = [f \in Files |-> 0]
  /\ pc = [r \in Replicas |-> "ensure"]
  /\ file = [r \in Replicas |-> 1]
  /\ owns = [r \in Replicas |-> FALSE]
  /\ granted = [r \in Replicas |-> FALSE]
  /\ crashes = 0
  /\ vault \in Deployments

Goto(r, label) == pc' = [pc EXCEPT ![r] = label]

(* An error of any statement: a rollback, and logger.Fatal. *)
Fatal(r) ==
  /\ Goto(r, "down")
  /\ UNCHANGED <<table, recorded, runs, file, owns, granted, crashes, vault>>

--------------------------------------------------------------------------------

(* CREATE TABLE IF NOT EXISTS schema_migrations *)
EnsureTable(r) ==
  /\ pc[r] = "ensure"
  /\ table' = TRUE
  /\ granted' = [granted EXCEPT ![r] = granted[r] \/ ~table]
  /\ Goto(r, "check")
  /\ UNCHANGED <<recorded, runs, file, owns, crashes, vault>>

(* Another replica made the table while this statement ran: the insertion  *)
(* into the catalog violates a unique index.                               *)
EnsureCollides(r) ==
  /\ pc[r] = "ensure"
  /\ table /\ ~granted[r]
  /\ Fatal(r)

Permitted(r) == ~vault \/ granted[r]

(* The last file was dealt with: Up returns nil. *)
UpReturns(r) ==
  /\ pc[r] = "check"
  /\ file[r] > NumFiles
  /\ Goto(r, "done")
  /\ UNCHANGED <<table, recorded, runs, file, owns, granted, crashes, vault>>

(* Mutant: a file that is recorded already is an error. *)
Skip_Fatal(r) ==
  /\ pc[r] = "check"
  /\ file[r] \in recorded
  /\ Permitted(r)
  /\ Fatal(r)

(* SELECT COUNT: recorded already, go on to the next file. *)
Skip(r) ==
  /\ pc[r] = "check"
  /\ file[r] \in recorded
  /\ Permitted(r)
  /\ file' = [file EXCEPT ![r] = @ + 1]
  /\ UNCHANGED <<table, recorded, runs, pc, owns, granted, crashes, vault>>

(* Not recorded: read the file and begin. *)
Begin(r) ==
  /\ pc[r] = "check"
  /\ file[r] \in Files \ recorded
  /\ Permitted(r)
  /\ Goto(r, "exec")
  /\ UNCHANGED <<table, recorded, runs, file, owns, granted, crashes, vault>>

CheckDenied(r) ==
  /\ pc[r] = "check"
  /\ file[r] \in Files
  /\ ~Permitted(r)
  /\ Fatal(r)

(* Another transaction has run the same file and is still open: its DDL    *)
(* locks make ours wait.                                                   *)
Blocked(r) == \E q \in Replicas \ {r} : pc[q] \in {"record", "commit"} /\ file[q] = file[r]

(* REFERENCES and ALTER TABLE are not among the grants a Vault user gets. *)
MayRun(r) == file[r] \in OwnerOnly /\ vault => owns[r]

(* The file's objects exist already unless it can be run again. *)
ExecSucceeds(r) == MayRun(r) /\ (runs[file[r]] = 0 \/ file[r] \in Repeatable)

Exec(r) ==
  /\ pc[r] = "exec"
  /\ ~Blocked(r)
  /\ ExecSucceeds(r)
  /\ Goto(r, "record")
  /\ UNCHANGED <<table, recorded, runs, file, owns, granted, crashes, vault>>

ExecFails(r) ==
  /\ pc[r] = "exec"
  /\ ~Blocked(r)
  /\ ~ExecSucceeds(r)
  /\ Fatal(r)

(* Mutant: the INSERT says ON CONFLICT DO NOTHING. *)
Record_IgnoresConflict(r) ==
  /\ pc[r] = "record"
  /\ Goto(r, "commit")
  /\ UNCHANGED <<table, recorded, runs, file, owns, granted, crashes, vault>>

(* INSERT INTO schema_migrations: the primary key refuses a second row. *)
Record(r) ==
  /\ pc[r] = "record"
  /\ file[r] \notin recorded
  /\ Goto(r, "commit")
  /\ UNCHANGED <<table, recorded, runs, file, owns, granted, crashes, vault>>

RecordFails(r) ==
  /\ pc[r] = "record"
  /\ file[r] \in recorded
  /\ Fatal(r)

(* Both changes become visible together. *)
Committed(r) ==
  /\ recorded' = recorded \cup {file[r]}
  /\ runs' = [runs EXCEPT ![file[r]] = IF @ < 2 THEN @ + 1 ELSE @]

(* Mutant: the loop stops after the first file it had to run. *)
Commit_ReturnsEarly(r) ==
  /\ pc[r] = "commit"
  /\ Committed(r)
  /\ Goto(r, "done")
  /\ UNCHANGED <<table, file, owns, granted, crashes, vault>>

(* Mutant: the loop's index is advanced twice. *)
Commit_SkipsNext(r) ==
  /\ pc[r] = "commit"
  /\ Committed(r)
  /\ owns' = [owns EXCEPT ![r] = @ \/ file[r] = Creates]
  /\ file' = [file EXCEPT ![r] = @ + 2]
  /\ Goto(r, "check")
  /\ UNCHANGED <<table, granted, crashes, vault>>

Commit(r) ==
  /\ pc[r] = "commit"
  /\ Committed(r)
  /\ owns' = [owns EXCEPT ![r] = @ \/ file[r] = Creates]
  /\ file' = [file EXCEPT ![r] = @ + 1]
  /\ Goto(r, "check")
  /\ UNCHANGED <<table, granted, crashes, vault>>

(* The commit is done, but its answer does not come back. *)
CommitLost(r) ==
  /\ pc[r] = "commit"
  /\ crashes < MaxCrashes
  /\ crashes' = crashes + 1
  /\ Committed(r)
  /\ Goto(r, "down")
  /\ UNCHANGED <<table, file, owns, granted, vault>>

Crash(r) ==
  /\ pc[r] # "down"
  /\ crashes < MaxCrashes
  /\ crashes' = crashes + 1
  /\ Goto(r, "down")
  /\ UNCHANGED <<table, recorded, runs, file, owns, granted, vault>>

(* restart: unless-stopped; with Vault, under a new database user. *)
Restart(r) ==
  /\ pc[r] = "down"
  /\ Goto(r, "ensure")
  /\ file' = [file EXCEPT ![r] = 1]
  /\ owns' = [owns EXCEPT ![r] = FALSE]
  /\ granted' = [granted EXCEPT ![r] = table]
  /\ UNCHANGED <<table, recorded, runs, crashes, vault>>

UpStep(r) ==
  \/ EnsureTable(r) \/ EnsureCollides(r) \/ UpReturns(r) \/ Skip(r) \/ Begin(r) \/ CheckDenied(r)
  \/ Exec(r) \/ ExecFails(r) \/ Record(r) \/ RecordFails(r) \/ Commit(r)
  \/ Restart(r)

Next == \E r \in Replicas : UpStep(r) \/ CommitLost(r) \/ Crash(r)

Spec == Init /\ [][Next]_vars

(* Statements return, and the orchestrator restarts what stops. *)
FairSpec == Spec /\ \A r \in Replicas : WF_vars(UpStep(r))

--------------------------------------------------------------------------------
(* Properties *)

(* Every variable holds a value of its type. *)
TypeOK ==
  /\ table \in BOOLEAN /\ recorded \subseteq Files
  /\ runs \in [Files -> 0..2]
  /\ pc \in [Replicas -> {"ensure", "check", "exec", "record", "commit", "done", "down"}]
  /\ file \in [Replicas -> 1..(NumFiles + 1)]
  /\ owns \in [Replicas -> BOOLEAN] /\ granted \in [Replicas -> BOOLEAN]
  /\ crashes \in 0..MaxCrashes /\ vault \in BOOLEAN

(***************************************************************************)
(* A file that is recorded was run by exactly one committed transaction,   *)
(* and one that is not by none: replicas that all found it missing, lost   *)
(* commits and restarts included.                                          *)
(***************************************************************************)
RunOnce == \A f \in Files : runs[f] = IF f \in recorded THEN 1 ELSE 0

(* A replica serves requests only on the complete schema. *)
ServesMigrated == \A r \in Replicas : pc[r] = "done" => recorded = Files

(* With Vault, files are left that only the owner of the orders table may  *)
(* run, and no database user in use is its owner.                          *)
Orphaned ==
  /\ vault
  /\ Creates \in recorded /\ ~(OwnerOnly \subseteq recorded)
  /\ \A r \in Replicas : pc[r] = "down" \/ ~owns[r]

(***************************************************************************)
(* Losing the owner half way is all that can keep a replica from getting   *)
(* through Up: collisions on schema_migrations, files found missing by     *)
(* several replicas, denied SELECTs and kills are all repaired by the next *)
(* start (embed.go: "Up applies all pending up-migrations to the           *)
(* database").                                                             *)
(***************************************************************************)
UpCompletesUnlessOrphaned ==
  []~Orphaned => \A r \in Replicas : <>[](pc[r] = "done")
================================================================================
