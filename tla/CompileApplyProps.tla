-------------------------- MODULE CompileApplyProps --------------------------
(***************************************************************************)
(* What CompileApply must satisfy, the invariant the proofs rest on, and   *)
(* a statement of the documentation that the code does not keep.           *)
(***************************************************************************)
EXTENDS CompileApply

(* The values every variable of the service ranges over. *)
TypeOK == /\ revision \in Nat
          /\ file \in Content
          /\ running \in Content
          /\ backups \in [Requests -> Content \cup {NoFile}]
          /\ records \in [Requests -> RecordStatus]
          /\ rollbacks \in [Requests -> RollbackStatus]
          /\ holder \in Requests \cup {Nobody}
          /\ pc \in [Requests -> Labels]
          /\ expired \in [Requests -> BOOLEAN]
          /\ rev \in [Requests -> Nat]
          /\ original \in [Requests -> Content \cup {NoFile}]
          /\ answer \in [Requests -> Answers]
          /\ crashes \in Nat

(* applyMu is held by exactly the request that is between Lock and Unlock. *)
Mutex == \A r \in Requests : pc[r] \in Locked <=> holder = r

(* Custody of the file: until the candidate is written the file is what    *)
(* was read, but for later edits of the user's part; then it has the       *)
(* overlay of the request, and after the restore the one that was read.    *)
(* Mihomo runs what the reloads say.                                       *)
Custody ==
  \A r \in Requests :
    /\ pc[r] \in HasOriginal => original[r] \in Content
    /\ pc[r] \in Preparing => file.managed = original[r].managed /\ original[r].user <= file.user
    /\ pc[r] \in Installed => file.managed = rev[r]
    /\ pc[r] \in Restored => file.managed = original[r].managed
    /\ pc[r] \in {"probe", "complete"} => running.managed = rev[r]
    /\ pc[r] \in {"audit_restored", "audit_rolled_back"} => running.managed = original[r].managed

(* The progress of the backup and the two audit rows with the steps of     *)
(* Apply. *)
Progress ==
  \A r \in Requests :
    /\ pc[r] \in {"idle", "validate", "lock", "compile"} => records[r] = "absent"
    /\ pc[r] \in {"idle", "validate", "lock", "compile", "read", "backup", "rollback_row"}
         => rollbacks[r] = "absent"
    /\ pc[r] \in Locked \ {"compile"} => records[r] = "draft"
    /\ pc[r] \in {"write", "restore"} \cup Installed => rollbacks[r] = "not_needed"
    /\ rollbacks[r] # "absent" => records[r] # "absent"
    /\ pc[r] = "give_up" => rollbacks[r] = "absent"
    /\ pc[r] \in {"reload_original", "audit_restored", "audit_rollback_failed"}
         => rollbacks[r] = "not_needed"
    /\ pc[r] = "audit_rolled_back" => rollbacks[r] \in {"not_needed", "restored"}
    /\ pc[r] = "audit_failed" => rollbacks[r] \in {"not_needed", "rollback_failed"}
    /\ pc[r] = "audit_failed" /\ answer[r] = "rollback_failed" => rollbacks[r] = "rollback_failed"
    /\ pc[r] \in HasOriginal \ {"backup"} => backups[r] = original[r]
    /\ pc[r] = "audit_failed" => answer[r] \in {"failed", "rollback_failed"}
    /\ pc[r] \notin {"audit_failed", "done", "lost"} => answer[r] = "none"

(* The mutual exclusion, the contents of the file and the audit rows step  *)
(* by step: with TypeOK and AuditAgrees the inductive invariant of the     *)
(* proofs (the comment above Apply, applier.go:90-92). *)
ApplyInv == Mutex /\ Custody /\ Progress

(* The request's backup is what the file has, except for edits that other  *)
(* tools made after it was read, and the audit tables tell of the request. *)
BackedUp(r) == /\ records[r] = "draft"
               /\ rollbacks[r] = "not_needed"
               /\ backups[r] = original[r]
               /\ original[r].managed = file.managed
               /\ original[r].user <= file.user

(* The service changes the file in two ways only: the holder of applyMu    *)
(* replaces the file it has backed up, or puts back what its backup has.   *)
FileFromBackedUp ==
  file' # file /\ ~UserEdit =>
    \E r \in Requests : /\ holder = r
                       /\ \/ pc[r] = "write" /\ BackedUp(r)
                          \/ pc[r] = "restore" /\ file' = backups[r]

(* A rollback row names its record's backup: from then on neither row goes *)
(* away and nobody writes that backup again. *)
BackupKept(r) == /\ rollbacks'[r] # "absent"
                 /\ records'[r] # "absent"
                 /\ backups'[r] = backups[r]
BackupsKept == \A r \in Requests : rollbacks[r] # "absent" => BackupKept(r)

(* What the candidate replaces (applier.go:141) is in the backup of the    *)
(* request that replaces it, what a rollback puts back (applier.go:212) is *)
(* exactly that backup, and it stays for as long as the audit tables name  *)
(* it - whatever fails, expires or dies, and whoever else applies the same *)
(* revision.  An edit of another tool is in the backup only if it came     *)
(* before the file was read (applier.go:110): a later one is overwritten   *)
(* by the candidate or by the rollback, for Apply does not look again.     *)
ReplacedIsBackedUp == [][FileFromBackedUp /\ BackupsKept]_vars

(* The two audit tables and the API's answer never contradict each other,  *)
(* whichever of the updates failed: an applied record has an unused        *)
(* rollback row, a restored row belongs to a record that is rolled back or *)
(* was never completed, a failed rollback never reads as a rolled back     *)
(* one, and success is answered only when it is recorded. *)
AuditAgrees ==
  \A r \in Requests :
    /\ records[r] = "applied" => rollbacks[r] = "not_needed"
    /\ records[r] = "rolled_back" => rollbacks[r] \in {"not_needed", "restored"}
    /\ rollbacks[r] = "restored" => records[r] \in {"draft", "rolled_back"}
    /\ rollbacks[r] = "rollback_failed" => records[r] \in {"draft", "failed"}
    /\ answer[r] \in {"applied", "validated", "rolled_back"} => records[r] = answer[r]
    /\ answer[r] = "rollback_failed" => rollbacks[r] = "rollback_failed"

(* Apply implements custody of the configuration: it installs only its own *)
(* overlay, restores only the one it found, and records "applied" or       *)
(* "rolled_back" only while Mihomo runs the overlay the record speaks of   *)
(* (the comment above Apply, applier.go:90-92). *)
InCustody == holder # Nobody /\ pc[holder] \in HasOriginal

Abstract == INSTANCE ConfigCustody WITH
  managed <- file.managed,
  live <- running.managed,
  custodian <- IF InCustody THEN holder ELSE Nobody,
  prior <- IF InCustody THEN original[holder].managed ELSE 0,
  own <- IF InCustody THEN rev[holder] ELSE 0,
  applied <- {r \in Requests : records[r] = "applied"},
  restored <- {r \in Requests : records[r] = "rolled_back"}

CustodyKept == Abstract!Spec

(* Every request is answered, or dies with the daemon: no failure path     *)
(* keeps applyMu and starves the requests that wait for it. *)
RequestsEnd == \A r \in Requests : InFlight(r) ~> ~InFlight(r)

(* README.md:16: on failure the main configuration is restored and         *)
(* reloaded.  An apply that is answered as failed, other than by a failed  *)
(* rollback, leaves the overlay it found. *)
FailureRestores ==
  [][\A r \in Requests :
       pc[r] \in HasOriginal \ Stuck /\ answer'[r] = "failed" =>
         file'.managed = original[r].managed]_vars
=============================================================================
