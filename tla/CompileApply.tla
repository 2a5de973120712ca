---------------------------- MODULE CompileApply ----------------------------
(***************************************************************************)
(* The compilation service: Validate and Apply of                          *)
(* backend/internal/compiler/applier.go, its audit tables                  *)
(* (backend/internal/store/compilation.go) and the API handlers that start *)
(* it (backend/internal/api/server.go).                                    *)
(*                                                                         *)
(* Every file write, SQLite statement and Mihomo call of Apply is a step   *)
(* of its own, and any of them may fail.  The request's context may expire *)
(* (a timeout, or the browser disconnects) between any two steps, the      *)
(* daemon may crash and be respawned, Mihomo may restart, another tool on  *)
(* the router may edit its own part of the main configuration file, and    *)
(* other sessions may save the canvas.                                     *)
(*                                                                         *)
(* A configuration is a pair of what the user wrote in it (a version       *)
(* number) and FlowCanvas' overlay in it (the canvas revision it was       *)
(* compiled from; the empty canvas of revision 0 compiles to no overlay).  *)
(***************************************************************************)
EXTENDS Naturals, FiniteSets

CONSTANTS Requests,     \* ids of compilation records, one per API request
          Nobody,       \* the apply lock is free
          NoFile,       \* no such file / nothing read
          StoreMayFail, \* a SQLite statement may fail on a live context
          MaxRevision,  \* bound on canvas saves
          MaxEdits,     \* bound on edits of the file by other tools
          MaxCrashes    \* bound on daemon crashes

ASSUME NobodyAssumption == Nobody \notin Requests
ASSUME NoFileAssumption == NoFile \notin [user : Nat, managed : Nat]
ASSUME StoreAssumption == StoreMayFail \in BOOLEAN
ASSUME BoundsAssumption == MaxRevision \in Nat /\ MaxEdits \in Nat /\ MaxCrashes \in Nat

VARIABLES
  revision,   \* canvases.revision in SQLite
  file,       \* the Mihomo main configuration file
  running,    \* the configuration Mihomo runs
  backups,    \* the backup files, one per record id
  records,    \* compilation_revisions.status
  rollbacks,  \* compilation_rollbacks.status
  holder,     \* who holds Service.applyMu
  pc,         \* where each request is
  expired,    \* the request's context is done
  rev,        \* the revision of the request's canvas snapshot
  original,   \* Apply's local variable: the configuration it read
  answer,     \* what the API answers the request
  crashes     \* crashes so far

disk == <<file, backups>>
tables == <<records, rollbacks>>
locals == <<expired, rev, original>>
vars == <<revision, file, running, backups, records, rollbacks, holder, pc,
          expired, rev, original, answer, crashes>>

Content == [user : Nat, managed : Nat]
RecordStatus == {"absent", "draft", "validated", "applied", "failed", "rolled_back"}
RollbackStatus == {"absent", "not_needed", "restored", "rollback_failed"}
Answers == {"none", "applied", "validated", "conflict", "failed", "rolled_back", "rollback_failed"}

(* The steps of Apply before the file is touched, while it carries the     *)
(* candidate, and while the original is put back.                          *)
Preparing == {"backup", "rollback_row", "write"}
Installed == {"reload", "probe", "complete"}
Restored == {"reload_original", "audit_restored", "audit_rolled_back"}
Stuck == {"audit_rollback_failed", "audit_failed"}
HasOriginal == Preparing \cup Installed \cup {"restore"} \cup Restored \cup Stuck
Locked == {"compile", "read", "give_up"} \cup HasOriginal
Labels == {"idle", "validate", "lock", "done", "lost"} \cup Locked

Init == /\ revision = 0
        /\ file = [user |-> 0, managed |-> 0]
        /\ running = file
        /\ backups = [r \in Requests |-> NoFile]
        /\ records = [r \in Requests |-> "absent"]
        /\ rollbacks = [r \in Requests |-> "absent"]
        /\ holder = Nobody
        /\ pc = [r \in Requests |-> "idle"]
        /\ expired = [r \in Requests |-> FALSE]
        /\ rev = [r \in Requests |-> 0]
        /\ original = [r \in Requests |-> NoFile]
        /\ answer = [r \in Requests |-> "none"]
        /\ crashes = 0

(* ----------------------------- what is called -------------------------- *)

(* MergeManagedOverlay replaces FlowCanvas' part and keeps the rest. *)
MergeManagedOverlay(contents, overlay) == [contents EXCEPT !.managed = overlay]

(* The contents of a file after atomicWriteFile: an error before the       *)
(* rename leaves the old ones, the directory sync may fail after it.       *)
Written(old, new, ok) == IF ok THEN {new} ELSE {old, new}

(* One INSERT or UPDATE that sets row r of a table.  It needs a live       *)
(* context; the completing calls read the row back, and that read may fail *)
(* after the UPDATE took effect.                                           *)
Inserted(table, r, status, ok) ==
  IF ok THEN [table EXCEPT ![r] = status] ELSE table
Completed(table, r, status, ok) ==
  IF ok THEN {[table EXCEPT ![r] = status]}
  ELSE IF expired[r] THEN {table}
  ELSE {table, [table EXCEPT ![r] = status]}

(* The outcomes of a call that takes the request's context: to Mihomo, and *)
(* to SQLite. *)
Outcomes(r) == IF expired[r] THEN {FALSE} ELSE BOOLEAN
StoreOutcomes(r) == IF StoreMayFail THEN Outcomes(r) ELSE {~expired[r]}

(* PUT /configs: Mihomo loads the file and says so, rejects it, or its     *)
(* answer is lost.                                                         *)
Reloaded(r, ok) ==
  IF ok THEN {file} ELSE IF expired[r] THEN {running} ELSE {running, file}

Goto(r, label) == pc' = [pc EXCEPT ![r] = label] /\ UNCHANGED <<holder, answer>>

(* Mutant: the lock is not released. *)
FinishLocked(r, said) == /\ pc' = [pc EXCEPT ![r] = "done"]
                         /\ answer' = [answer EXCEPT ![r] = said]
                         /\ UNCHANGED holder

(* Apply returns: the deferred Unlock runs and the API answers. *)
Finish(r, said) == /\ pc' = [pc EXCEPT ![r] = "done"]
                   /\ holder' = Nobody
                   /\ answer' = [answer EXCEPT ![r] = said]

(* ----------------------------- the requests ---------------------------- *)

(* POST /compilations/validate takes a snapshot and calls Validate, which  *)
(* takes no lock. *)
BeginValidate(r) ==
  /\ pc[r] = "idle"
  /\ rev' = [rev EXCEPT ![r] = revision]
  /\ Goto(r, "validate")
  /\ UNCHANGED <<revision, disk, running, tables, expired, original, crashes>>

(* Validate: a graph that does not compile is recorded as failed, a good   *)
(* one as validated; either insert may fail. *)
Validate(r) ==
  /\ pc[r] = "validate"
  /\ \E compiles \in BOOLEAN, ok \in StoreOutcomes(r) :
       /\ records' = Inserted(records, r, IF compiles THEN "validated" ELSE "failed", ok)
       /\ answer' = [answer EXCEPT ![r] = IF compiles /\ ok THEN "validated" ELSE "failed"]
  /\ pc' = [pc EXCEPT ![r] = "done"]
  /\ UNCHANGED <<revision, disk, running, rollbacks, holder, locals, crashes>>

(* POST /compilations/apply compares the If-Match revision with the        *)
(* snapshot it took, then queues for applyMu. *)
BeginApply(r) ==
  /\ pc[r] = "idle"
  /\ rev' = [rev EXCEPT ![r] = revision]
  /\ \E ifMatch \in 0..revision :
       IF ifMatch = revision
       THEN Goto(r, "lock")
       ELSE /\ pc' = [pc EXCEPT ![r] = "done"]
            /\ answer' = [answer EXCEPT ![r] = "conflict"]
            /\ UNCHANGED holder
  /\ UNCHANGED <<revision, disk, running, tables, expired, original, crashes>>

(* Mutant: applies are not serialised. *)
LockFree(r) ==
  /\ pc[r] = "lock"
  /\ holder' = r
  /\ pc' = [pc EXCEPT ![r] = "compile"]
  /\ UNCHANGED <<revision, disk, running, tables, locals, answer, crashes>>

Lock(r) ==
  /\ pc[r] = "lock"
  /\ holder = Nobody
  /\ holder' = r
  /\ pc' = [pc EXCEPT ![r] = "compile"]
  /\ UNCHANGED <<revision, disk, running, tables, locals, answer, crashes>>

(* Compile and the record of it: failed when the graph does not compile,   *)
(* draft otherwise. *)
CompileSnapshot(r) ==
  /\ pc[r] = "compile"
  /\ \E compiles \in BOOLEAN, ok \in StoreOutcomes(r) :
       /\ records' = Inserted(records, r, IF compiles THEN "draft" ELSE "failed", ok)
       /\ IF compiles /\ ok THEN Goto(r, "read") ELSE Finish(r, "failed")
  /\ UNCHANGED <<revision, disk, running, rollbacks, locals, crashes>>

(* readRegularFile and MergeManagedOverlay; either may refuse the file. *)
ReadConfig(r) ==
  /\ pc[r] = "read"
  /\ \E ok \in BOOLEAN :
       /\ original' = IF ok THEN [original EXCEPT ![r] = file] ELSE original
       /\ Goto(r, IF ok THEN "backup" ELSE "give_up")
  /\ UNCHANGED <<revision, disk, running, tables, expired, rev, crashes>>

(* Mutant: the candidate is backed up. *)
BackUpCandidate(r) ==
  /\ pc[r] = "backup"
  /\ \E ok \in BOOLEAN :
       /\ \E now \in Written(backups[r], MergeManagedOverlay(original[r], rev[r]), ok) :
            backups' = [backups EXCEPT ![r] = now]
       /\ Goto(r, IF ok THEN "rollback_row" ELSE "give_up")
  /\ UNCHANGED <<revision, file, running, tables, locals, crashes>>

WriteBackup(r) ==
  /\ pc[r] = "backup"
  /\ \E ok \in BOOLEAN :
       /\ \E now \in Written(backups[r], original[r], ok) : backups' = [backups EXCEPT ![r] = now]
       /\ Goto(r, IF ok THEN "rollback_row" ELSE "give_up")
  /\ UNCHANGED <<revision, file, running, tables, locals, crashes>>

CreateCompilationRollback(r) ==
  /\ pc[r] = "rollback_row"
  /\ \E ok \in StoreOutcomes(r) :
       /\ rollbacks' = Inserted(rollbacks, r, "not_needed", ok)
       /\ Goto(r, IF ok THEN "write" ELSE "give_up")
  /\ UNCHANGED <<revision, disk, running, records, locals, crashes>>

WriteCandidate(r) ==
  /\ pc[r] = "write"
  /\ \E ok \in BOOLEAN :
       /\ file' \in Written(file, MergeManagedOverlay(original[r], rev[r]), ok)
       /\ Goto(r, IF ok THEN "reload" ELSE "restore")
  /\ UNCHANGED <<revision, running, backups, tables, locals, crashes>>

(* Mutant: the error of the reload is dropped. *)
ReloadUnchecked(r) ==
  /\ pc[r] = "reload"
  /\ \E ok \in Outcomes(r) : running' \in Reloaded(r, ok)
  /\ Goto(r, "probe")
  /\ UNCHANGED <<revision, disk, tables, locals, crashes>>

ReloadConfig(r) ==
  /\ pc[r] = "reload"
  /\ \E ok \in Outcomes(r) :
       /\ running' \in Reloaded(r, ok)
       /\ Goto(r, IF ok THEN "probe" ELSE "restore")
  /\ UNCHANGED <<revision, disk, tables, locals, crashes>>

(* GET /proxies after the reload. *)
Probe(r) ==
  /\ pc[r] = "probe"
  /\ \E ok \in Outcomes(r) : Goto(r, IF ok THEN "complete" ELSE "restore")
  /\ UNCHANGED <<revision, disk, running, tables, locals, crashes>>

CompleteApplied(r) ==
  /\ pc[r] = "complete"
  /\ \E ok \in StoreOutcomes(r) :
       /\ records' \in Completed(records, r, "applied", ok)
       /\ Finish(r, IF ok THEN "applied" ELSE "failed")
  /\ UNCHANGED <<revision, disk, running, rollbacks, locals, crashes>>

(* Mutant: every failure takes the rollback path. *)
RollBackAnyway(r) ==
  /\ pc[r] = "give_up"
  /\ Goto(r, "restore")
  /\ UNCHANGED <<revision, disk, running, tables, locals, crashes>>

(* failWithoutRollback: nothing of the file was touched. *)
FailWithoutRollback(r) ==
  /\ pc[r] = "give_up"
  /\ \E ok \in StoreOutcomes(r) : records' \in Completed(records, r, "failed", ok)
  /\ Finish(r, "failed")
  /\ UNCHANGED <<revision, disk, running, rollbacks, locals, crashes>>

(* failWithRollback, with the context the failed call had. *)
WriteOriginal(r) ==
  /\ pc[r] = "restore"
  /\ \E ok \in BOOLEAN :
       /\ file' \in Written(file, original[r], ok)
       /\ Goto(r, IF ok THEN "reload_original" ELSE "audit_rollback_failed")
  /\ UNCHANGED <<revision, running, backups, tables, locals, crashes>>

ReloadOriginal(r) ==
  /\ pc[r] = "reload_original"
  /\ \E ok \in Outcomes(r) :
       /\ running' \in Reloaded(r, ok)
       /\ Goto(r, IF ok THEN "audit_restored" ELSE "audit_rollback_failed")
  /\ UNCHANGED <<revision, disk, tables, locals, crashes>>

AuditRestored(r) ==
  /\ pc[r] = "audit_restored"
  /\ \E ok \in StoreOutcomes(r) : rollbacks' \in Completed(rollbacks, r, "restored", ok)
  /\ Goto(r, "audit_rolled_back")
  /\ UNCHANGED <<revision, disk, running, records, locals, crashes>>

AuditRolledBack(r) ==
  /\ pc[r] = "audit_rolled_back"
  /\ \E ok \in StoreOutcomes(r) :
       /\ records' \in Completed(records, r, "rolled_back", ok)
       /\ Finish(r, IF ok THEN "rolled_back" ELSE "failed")
  /\ UNCHANGED <<revision, disk, running, rollbacks, locals, crashes>>

(* Mutant: a failed rollback ends like a successful one. *)
RollbackFailureAsRolledBack(r) ==
  /\ pc[r] = "audit_failed"
  /\ \E ok \in StoreOutcomes(r) : records' \in Completed(records, r, "rolled_back", ok)
  /\ Finish(r, answer[r])
  /\ UNCHANGED <<revision, disk, running, rollbacks, locals, crashes>>

(* completeRollbackFailure.  The API answers MIHOMO_ROLLBACK_FAILED only   *)
(* when the first of the two updates succeeded. *)
AuditRollbackFailed(r) ==
  /\ pc[r] = "audit_rollback_failed"
  /\ \E ok \in StoreOutcomes(r) :
       /\ rollbacks' \in Completed(rollbacks, r, "rollback_failed", ok)
       /\ answer' = [answer EXCEPT ![r] = IF ok THEN "rollback_failed" ELSE "failed"]
  /\ pc' = [pc EXCEPT ![r] = "audit_failed"]
  /\ UNCHANGED <<revision, disk, running, records, holder, locals, crashes>>

AuditFailed(r) ==
  /\ pc[r] = "audit_failed"
  /\ \E ok \in StoreOutcomes(r) : records' \in Completed(records, r, "failed", ok)
  /\ Finish(r, answer[r])
  /\ UNCHANGED <<revision, disk, running, rollbacks, locals, crashes>>

(* ---------------------------- the environment -------------------------- *)

InFlight(r) == pc[r] \notin {"idle", "done", "lost"}

(* The 15 s operation timeout, the 30 s API timeout, or a disconnect. *)
Expire(r) ==
  /\ InFlight(r)
  /\ ~expired[r]
  /\ expired' = [expired EXCEPT ![r] = TRUE]
  /\ UNCHANGED <<revision, disk, running, tables, holder, pc, rev, original, answer, crashes>>

(* The daemon dies and procd respawns it: locks and local variables are    *)
(* gone, and nothing at startup looks at drafts or backups. *)
Crash ==
  /\ crashes < MaxCrashes
  /\ \E r \in Requests : InFlight(r)
  /\ crashes' = crashes + 1
  /\ holder' = Nobody
  /\ pc' = [r \in Requests |-> IF InFlight(r) THEN "lost" ELSE pc[r]]
  /\ UNCHANGED <<revision, disk, running, tables, locals, answer>>

MihomoRestart ==
  /\ running' = file
  /\ UNCHANGED <<revision, disk, tables, holder, pc, locals, answer, crashes>>

UserEdit ==
  /\ file.user < MaxEdits
  /\ file' = [file EXCEPT !.user = @ + 1]
  /\ UNCHANGED <<revision, running, backups, tables, holder, pc, locals, answer, crashes>>

(* A canvas session saves a new revision. *)
SaveGraph ==
  /\ revision < MaxRevision
  /\ revision' = revision + 1
  /\ UNCHANGED <<disk, running, tables, holder, pc, locals, answer, crashes>>

Step(r) == \/ Validate(r) \/ Lock(r) \/ CompileSnapshot(r) \/ ReadConfig(r)
           \/ WriteBackup(r) \/ CreateCompilationRollback(r) \/ WriteCandidate(r)
           \/ ReloadConfig(r) \/ Probe(r) \/ CompleteApplied(r)
           \/ FailWithoutRollback(r) \/ WriteOriginal(r) \/ ReloadOriginal(r)
           \/ AuditRestored(r) \/ AuditRolledBack(r) \/ AuditRollbackFailed(r)
           \/ AuditFailed(r)

Environment == Crash \/ MihomoRestart \/ UserEdit \/ SaveGraph

Next == \/ \E r \in Requests : BeginValidate(r) \/ BeginApply(r) \/ Step(r) \/ Expire(r)
        \/ Environment

Spec == Init /\ [][Next]_vars

(* Go runs a goroutine that can run, every I/O call returns (the Mihomo    *)
(* client has a 5 s timeout), and sync.Mutex does not starve a waiter.     *)
Fairness == \A r \in Requests : WF_vars(Step(r))
FairSpec == Spec /\ Fairness
=============================================================================
