------------------------- MODULE CompileApplyProofs -------------------------
(***************************************************************************)
(* Proofs about CompileApply for every set of requests and every bound.    *)
(*                                                                         *)
(* The inductive invariant is                                              *)
(*     IInv == TypeOK /\ ApplyInv /\ AuditAgrees.                          *)
(* Types alone are not inductive: the two steps that write the file write  *)
(* original[r], which is a configuration only because Custody says it was  *)
(* read before.  Custody in turn needs Mutex, which says that no other     *)
(* request is between its read and its unlock, and AuditAgrees needs       *)
(* Progress, which says what the two rows are when a step completes them.  *)
(* Each lemma below carries one of these parts over a step; then Spec      *)
(* implies the invariant, that what is replaced is backed up, and the      *)
(* abstract specification ConfigCustody.                                   *)
(***************************************************************************)
EXTENDS CompileApplyProps, TLAPS

IInv == TypeOK /\ ApplyInv /\ AuditAgrees

(* The initial state satisfies every part of the invariant. *)
LEMMA IInvInit == Init => IInv
<1> SUFFICES ASSUME Init PROVE IInv
  OBVIOUS
<1> USE DEF Init, Labels, Locked, HasOriginal, Preparing, Installed, Restored, Stuck
<1>1. TypeOK
  BY DEF TypeOK, Content, RecordStatus, RollbackStatus, Answers
<1>2. Mutex /\ Custody /\ Progress
  BY NobodyAssumption DEF Mutex, Custody, Progress
<1>3. AuditAgrees
  BY DEF AuditAgrees
<1>4. QED
  BY <1>1, <1>2, <1>3 DEF IInv, ApplyInv

(* Every step keeps the types; Custody gives the type of what WriteBackup, *)
(* WriteCandidate and WriteOriginal write. *)
LEMMA TypeNext == TypeOK /\ Custody /\ [Next]_vars => TypeOK'
<1> SUFFICES ASSUME TypeOK, Custody, [Next]_vars PROVE TypeOK'
  OBVIOUS
<1> USE DEF TypeOK, Content, RecordStatus, RollbackStatus, Answers, Labels, Locked,
          HasOriginal, Preparing, Installed, Restored, Stuck, Custody, disk,
          tables, locals, Goto, Finish
<1>1. ASSUME NEW r \in Requests, BeginValidate(r) PROVE TypeOK'
  BY <1>1 DEF BeginValidate
<1>2. ASSUME NEW r \in Requests, BeginApply(r) PROVE TypeOK'
  BY <1>2 DEF BeginApply
<1>3. ASSUME NEW r \in Requests, Validate(r) PROVE TypeOK'
  BY <1>3 DEF Validate, StoreOutcomes, Inserted, Outcomes
<1>4. ASSUME NEW r \in Requests, Lock(r) PROVE TypeOK'
  BY <1>4 DEF Lock
<1>5. ASSUME NEW r \in Requests, CompileSnapshot(r) PROVE TypeOK'
  BY <1>5 DEF CompileSnapshot, StoreOutcomes, Inserted, Outcomes
<1>6. ASSUME NEW r \in Requests, ReadConfig(r) PROVE TypeOK'
  BY <1>6 DEF ReadConfig
<1>7. ASSUME NEW r \in Requests, WriteBackup(r) PROVE TypeOK'
  BY <1>7 DEF WriteBackup, Written
<1>8. ASSUME NEW r \in Requests, CreateCompilationRollback(r) PROVE TypeOK'
  BY <1>8 DEF CreateCompilationRollback, StoreOutcomes, Inserted, Outcomes
<1>9. ASSUME NEW r \in Requests, WriteCandidate(r) PROVE TypeOK'
  BY <1>9 DEF WriteCandidate, Written, MergeManagedOverlay
<1>10. ASSUME NEW r \in Requests, ReloadConfig(r) PROVE TypeOK'
  BY <1>10 DEF ReloadConfig, Outcomes, Reloaded
<1>11. ASSUME NEW r \in Requests, Probe(r) PROVE TypeOK'
  BY <1>11 DEF Probe, Outcomes
<1>12. ASSUME NEW r \in Requests, CompleteApplied(r) PROVE TypeOK'
  BY <1>12 DEF CompleteApplied, StoreOutcomes, Completed, Outcomes
<1>13. ASSUME NEW r \in Requests, FailWithoutRollback(r) PROVE TypeOK'
  BY <1>13 DEF FailWithoutRollback, StoreOutcomes, Completed, Outcomes
<1>14. ASSUME NEW r \in Requests, WriteOriginal(r) PROVE TypeOK'
  BY <1>14 DEF WriteOriginal, Written
<1>15. ASSUME NEW r \in Requests, ReloadOriginal(r) PROVE TypeOK'
  BY <1>15 DEF ReloadOriginal, Outcomes, Reloaded
<1>16. ASSUME NEW r \in Requests, AuditRestored(r) PROVE TypeOK'
  BY <1>16 DEF AuditRestored, StoreOutcomes, Completed, Outcomes
<1>17. ASSUME NEW r \in Requests, AuditRolledBack(r) PROVE TypeOK'
  BY <1>17 DEF AuditRolledBack, StoreOutcomes, Completed, Outcomes
<1>18. ASSUME NEW r \in Requests, AuditRollbackFailed(r) PROVE TypeOK'
  BY <1>18 DEF AuditRollbackFailed, StoreOutcomes, Completed, Outcomes
<1>19. ASSUME NEW r \in Requests, AuditFailed(r) PROVE TypeOK'
  BY <1>19 DEF AuditFailed, StoreOutcomes, Completed, Outcomes
<1>20. ASSUME NEW r \in Requests, Expire(r) PROVE TypeOK'
  BY <1>20 DEF Expire, InFlight
<1>21. CASE Crash
  BY <1>21 DEF Crash, InFlight
<1>22. CASE MihomoRestart
  BY <1>22 DEF MihomoRestart
<1>23. CASE UserEdit
  BY <1>23 DEF UserEdit
<1>24. CASE SaveGraph
  BY <1>24 DEF SaveGraph
<1>25. CASE UNCHANGED vars
  BY <1>25 DEF vars
<1>26. QED
  BY <1>1, <1>2, <1>3, <1>4, <1>5, <1>6, <1>7, <1>8, <1>9, <1>10, <1>11,
     <1>12, <1>13, <1>14, <1>15, <1>16, <1>17, <1>18, <1>19, <1>20, <1>21,
     <1>22, <1>23, <1>24, <1>25 DEF Next, Step, Environment

(* The lock has one holder: Lock needs it free, Finish and Crash free it.  *)
LEMMA MutexNext == TypeOK /\ Mutex /\ [Next]_vars => Mutex'
<1> SUFFICES ASSUME TypeOK, Mutex, [Next]_vars PROVE Mutex'
  OBVIOUS
<1> USE NobodyAssumption DEF Mutex, TypeOK, Labels, Locked, HasOriginal, Preparing, Installed,
          Restored, Stuck, disk, tables, locals, Goto, Finish
<1>1. ASSUME NEW r \in Requests, BeginValidate(r) PROVE Mutex'
  BY <1>1 DEF BeginValidate
<1>2. ASSUME NEW r \in Requests, BeginApply(r) PROVE Mutex'
  BY <1>2 DEF BeginApply
<1>3. ASSUME NEW r \in Requests, Validate(r) PROVE Mutex'
  BY <1>3 DEF Validate, StoreOutcomes, Inserted, Outcomes
<1>4. ASSUME NEW r \in Requests, Lock(r) PROVE Mutex'
  BY <1>4 DEF Lock
<1>5. ASSUME NEW r \in Requests, CompileSnapshot(r) PROVE Mutex'
  BY <1>5 DEF CompileSnapshot, StoreOutcomes, Inserted, Outcomes
<1>6. ASSUME NEW r \in Requests, ReadConfig(r) PROVE Mutex'
  BY <1>6 DEF ReadConfig
<1>7. ASSUME NEW r \in Requests, WriteBackup(r) PROVE Mutex'
  BY <1>7 DEF WriteBackup, Written
<1>8. ASSUME NEW r \in Requests, CreateCompilationRollback(r) PROVE Mutex'
  BY <1>8 DEF CreateCompilationRollback, StoreOutcomes, Inserted, Outcomes
<1>9. ASSUME NEW r \in Requests, WriteCandidate(r) PROVE Mutex'
  BY <1>9 DEF WriteCandidate, Written, MergeManagedOverlay
<1>10. ASSUME NEW r \in Requests, ReloadConfig(r) PROVE Mutex'
  BY <1>10 DEF ReloadConfig, Outcomes, Reloaded
<1>11. ASSUME NEW r \in Requests, Probe(r) PROVE Mutex'
  BY <1>11 DEF Probe, Outcomes
<1>12. ASSUME NEW r \in Requests, CompleteApplied(r) PROVE Mutex'
  BY <1>12 DEF CompleteApplied, StoreOutcomes, Completed, Outcomes
<1>13. ASSUME NEW r \in Requests, FailWithoutRollback(r) PROVE Mutex'
  BY <1>13 DEF FailWithoutRollback, StoreOutcomes, Completed, Outcomes
<1>14. ASSUME NEW r \in Requests, WriteOriginal(r) PROVE Mutex'
  BY <1>14 DEF WriteOriginal, Written
<1>15. ASSUME NEW r \in Requests, ReloadOriginal(r) PROVE Mutex'
  BY <1>15 DEF ReloadOriginal, Outcomes, Reloaded
<1>16. ASSUME NEW r \in Requests, AuditRestored(r) PROVE Mutex'
  BY <1>16 DEF AuditRestored, StoreOutcomes, Completed, Outcomes
<1>17. ASSUME NEW r \in Requests, AuditRolledBack(r) PROVE Mutex'
  BY <1>17 DEF AuditRolledBack, StoreOutcomes, Completed, Outcomes
<1>18. ASSUME NEW r \in Requests, AuditRollbackFailed(r) PROVE Mutex'
  BY <1>18 DEF AuditRollbackFailed, StoreOutcomes, Completed, Outcomes
<1>19. ASSUME NEW r \in Requests, AuditFailed(r) PROVE Mutex'
  BY <1>19 DEF AuditFailed, StoreOutcomes, Completed, Outcomes
<1>20. ASSUME NEW r \in Requests, Expire(r) PROVE Mutex'
  BY <1>20 DEF Expire, InFlight
<1>21. CASE Crash
  BY <1>21 DEF Crash, InFlight
<1>22. CASE MihomoRestart
  BY <1>22 DEF MihomoRestart
<1>23. CASE UserEdit
  BY <1>23 DEF UserEdit
<1>24. CASE SaveGraph
  BY <1>24 DEF SaveGraph
<1>25. CASE UNCHANGED vars
  BY <1>25 DEF vars
<1>26. QED
  BY <1>1, <1>2, <1>3, <1>4, <1>5, <1>6, <1>7, <1>8, <1>9, <1>10, <1>11,
     <1>12, <1>13, <1>14, <1>15, <1>16, <1>17, <1>18, <1>19, <1>20, <1>21,
     <1>22, <1>23, <1>24, <1>25 DEF Next, Step, Environment

(* Only the holder of the lock changes the overlay in the file or the      *)
(* overlay that Mihomo runs (a restart of Mihomo loads what the file has). *)
LEMMA CustodyNext == TypeOK /\ Mutex /\ Custody /\ TypeOK' /\ [Next]_vars => Custody'
<1> SUFFICES ASSUME TypeOK, Mutex, Custody, TypeOK', [Next]_vars PROVE Custody'
  OBVIOUS
<1> USE NoFileAssumption DEF Custody, Mutex, TypeOK, Content, Labels, Locked, HasOriginal, Preparing,
          Installed, Restored, Stuck, disk, tables, locals, Goto, Finish
<1>1. ASSUME NEW r \in Requests, BeginValidate(r) PROVE Custody'
  BY <1>1 DEF BeginValidate
<1>2. ASSUME NEW r \in Requests, BeginApply(r) PROVE Custody'
  BY <1>2 DEF BeginApply
<1>3. ASSUME NEW r \in Requests, Validate(r) PROVE Custody'
  BY <1>3 DEF Validate, StoreOutcomes, Inserted, Outcomes
<1>4. ASSUME NEW r \in Requests, Lock(r) PROVE Custody'
  BY <1>4 DEF Lock
<1>5. ASSUME NEW r \in Requests, CompileSnapshot(r) PROVE Custody'
  BY <1>5 DEF CompileSnapshot, StoreOutcomes, Inserted, Outcomes
<1>6. ASSUME NEW r \in Requests, ReadConfig(r) PROVE Custody'
  BY <1>6 DEF ReadConfig
<1>7. ASSUME NEW r \in Requests, WriteBackup(r) PROVE Custody'
  BY <1>7 DEF WriteBackup, Written
<1>8. ASSUME NEW r \in Requests, CreateCompilationRollback(r) PROVE Custody'
  BY <1>8 DEF CreateCompilationRollback, StoreOutcomes, Inserted, Outcomes
<1>9. ASSUME NEW r \in Requests, WriteCandidate(r) PROVE Custody'
  BY <1>9 DEF WriteCandidate, Written, MergeManagedOverlay
<1>10. ASSUME NEW r \in Requests, ReloadConfig(r) PROVE Custody'
  BY <1>10 DEF ReloadConfig, Outcomes, Reloaded
<1>11. ASSUME NEW r \in Requests, Probe(r) PROVE Custody'
  BY <1>11 DEF Probe, Outcomes
<1>12. ASSUME NEW r \in Requests, CompleteApplied(r) PROVE Custody'
  BY <1>12 DEF CompleteApplied, StoreOutcomes, Completed, Outcomes
<1>13. ASSUME NEW r \in Requests, FailWithoutRollback(r) PROVE Custody'
  BY <1>13 DEF FailWithoutRollback, StoreOutcomes, Completed, Outcomes
<1>14. ASSUME NEW r \in Requests, WriteOriginal(r) PROVE Custody'
  BY <1>14 DEF WriteOriginal, Written
<1>15. ASSUME NEW r \in Requests, ReloadOriginal(r) PROVE Custody'
  BY <1>15 DEF ReloadOriginal, Outcomes, Reloaded
<1>16. ASSUME NEW r \in Requests, AuditRestored(r) PROVE Custody'
  BY <1>16 DEF AuditRestored, StoreOutcomes, Completed, Outcomes
<1>17. ASSUME NEW r \in Requests, AuditRolledBack(r) PROVE Custody'
  BY <1>17 DEF AuditRolledBack, StoreOutcomes, Completed, Outcomes
<1>18. ASSUME NEW r \in Requests, AuditRollbackFailed(r) PROVE Custody'
  BY <1>18 DEF AuditRollbackFailed, StoreOutcomes, Completed, Outcomes
<1>19. ASSUME NEW r \in Requests, AuditFailed(r) PROVE Custody'
  BY <1>19 DEF AuditFailed, StoreOutcomes, Completed, Outcomes
<1>20. ASSUME NEW r \in Requests, Expire(r) PROVE Custody'
  BY <1>20 DEF Expire, InFlight
<1>21. CASE Crash
  BY <1>21 DEF Crash, InFlight
<1>22. CASE MihomoRestart
  BY <1>22 DEF MihomoRestart
<1>23. CASE UserEdit
  BY <1>23 DEF UserEdit
<1>24. CASE SaveGraph
  BY <1>24 DEF SaveGraph
<1>25. CASE UNCHANGED vars
  BY <1>25 DEF vars
<1>26. QED
  BY <1>1, <1>2, <1>3, <1>4, <1>5, <1>6, <1>7, <1>8, <1>9, <1>10, <1>11,
     <1>12, <1>13, <1>14, <1>15, <1>16, <1>17, <1>18, <1>19, <1>20, <1>21,
     <1>22, <1>23, <1>24, <1>25 DEF Next, Step, Environment

(* The rows of a request follow its own steps. *)
LEMMA ProgressNext == TypeOK /\ Custody /\ Progress /\ TypeOK' /\ [Next]_vars => Progress'
<1> SUFFICES ASSUME TypeOK, Custody, Progress, TypeOK', [Next]_vars PROVE Progress'
  OBVIOUS
<1> USE NoFileAssumption DEF Progress, Custody, TypeOK, Content, RecordStatus, RollbackStatus,
          Labels, Locked, HasOriginal, Preparing, Installed, Restored, Stuck,
          disk, tables, locals, Goto, Finish
<1>1. ASSUME NEW r \in Requests, BeginValidate(r) PROVE Progress'
  BY <1>1 DEF BeginValidate
<1>2. ASSUME NEW r \in Requests, BeginApply(r) PROVE Progress'
  BY <1>2 DEF BeginApply
<1>3. ASSUME NEW r \in Requests, Validate(r) PROVE Progress'
  BY <1>3 DEF Validate, StoreOutcomes, Inserted, Outcomes
<1>4. ASSUME NEW r \in Requests, Lock(r) PROVE Progress'
  BY <1>4 DEF Lock
<1>5. ASSUME NEW r \in Requests, CompileSnapshot(r) PROVE Progress'
  BY <1>5 DEF CompileSnapshot, StoreOutcomes, Inserted, Outcomes
<1>6. ASSUME NEW r \in Requests, ReadConfig(r) PROVE Progress'
  BY <1>6 DEF ReadConfig
<1>7. ASSUME NEW r \in Requests, WriteBackup(r) PROVE Progress'
  BY <1>7 DEF WriteBackup, Written
<1>8. ASSUME NEW r \in Requests, CreateCompilationRollback(r) PROVE Progress'
  BY <1>8 DEF CreateCompilationRollback, StoreOutcomes, Inserted, Outcomes
<1>9. ASSUME NEW r \in Requests, WriteCandidate(r) PROVE Progress'
  BY <1>9 DEF WriteCandidate, Written, MergeManagedOverlay
<1>10. ASSUME NEW r \in Requests, ReloadConfig(r) PROVE Progress'
  BY <1>10 DEF ReloadConfig, Outcomes, Reloaded
<1>11. ASSUME NEW r \in Requests, Probe(r) PROVE Progress'
  BY <1>11 DEF Probe, Outcomes
<1>12. ASSUME NEW r \in Requests, CompleteApplied(r) PROVE Progress'
  BY <1>12 DEF CompleteApplied, StoreOutcomes, Completed, Outcomes
<1>13. ASSUME NEW r \in Requests, FailWithoutRollback(r) PROVE Progress'
  BY <1>13 DEF FailWithoutRollback, StoreOutcomes, Completed, Outcomes
<1>14. ASSUME NEW r \in Requests, WriteOriginal(r) PROVE Progress'
  BY <1>14 DEF WriteOriginal, Written
<1>15. ASSUME NEW r \in Requests, ReloadOriginal(r) PROVE Progress'
  BY <1>15 DEF ReloadOriginal, Outcomes, Reloaded
<1>16. ASSUME NEW r \in Requests, AuditRestored(r) PROVE Progress'
  BY <1>16 DEF AuditRestored, StoreOutcomes, Completed, Outcomes
<1>17. ASSUME NEW r \in Requests, AuditRolledBack(r) PROVE Progress'
  BY <1>17 DEF AuditRolledBack, StoreOutcomes, Completed, Outcomes
<1>18. ASSUME NEW r \in Requests, AuditRollbackFailed(r) PROVE Progress'
  BY <1>18 DEF AuditRollbackFailed, StoreOutcomes, Completed, Outcomes
<1>19. ASSUME NEW r \in Requests, AuditFailed(r) PROVE Progress'
  BY <1>19 DEF AuditFailed, StoreOutcomes, Completed, Outcomes
<1>20. ASSUME NEW r \in Requests, Expire(r) PROVE Progress'
  BY <1>20 DEF Expire, InFlight
<1>21. CASE Crash
  BY <1>21 DEF Crash, InFlight
<1>22. CASE MihomoRestart
  BY <1>22 DEF MihomoRestart
<1>23. CASE UserEdit
  BY <1>23 DEF UserEdit
<1>24. CASE SaveGraph
  BY <1>24 DEF SaveGraph
<1>25. CASE UNCHANGED vars
  BY <1>25 DEF vars
<1>26. QED
  BY <1>1, <1>2, <1>3, <1>4, <1>5, <1>6, <1>7, <1>8, <1>9, <1>10, <1>11,
     <1>12, <1>13, <1>14, <1>15, <1>16, <1>17, <1>18, <1>19, <1>20, <1>21,
     <1>22, <1>23, <1>24, <1>25 DEF Next, Step, Environment

(* The two tables and the answer agree after each single update. *)
LEMMA AuditNext == TypeOK /\ Progress /\ AuditAgrees /\ [Next]_vars => AuditAgrees'
<1> SUFFICES ASSUME TypeOK, Progress, AuditAgrees, [Next]_vars PROVE AuditAgrees'
  OBVIOUS
<1> USE DEF AuditAgrees, Progress, TypeOK, RecordStatus, RollbackStatus, Answers,
          Labels, Locked, HasOriginal, Preparing, Installed, Restored, Stuck,
          disk, tables, locals, Goto, Finish
<1>1. ASSUME NEW r \in Requests, BeginValidate(r) PROVE AuditAgrees'
  BY <1>1 DEF BeginValidate
<1>2. ASSUME NEW r \in Requests, BeginApply(r) PROVE AuditAgrees'
  BY <1>2 DEF BeginApply
<1>3. ASSUME NEW r \in Requests, Validate(r) PROVE AuditAgrees'
  BY <1>3 DEF Validate, StoreOutcomes, Inserted, Outcomes
<1>4. ASSUME NEW r \in Requests, Lock(r) PROVE AuditAgrees'
  BY <1>4 DEF Lock
<1>5. ASSUME NEW r \in Requests, CompileSnapshot(r) PROVE AuditAgrees'
  BY <1>5 DEF CompileSnapshot, StoreOutcomes, Inserted, Outcomes
<1>6. ASSUME NEW r \in Requests, ReadConfig(r) PROVE AuditAgrees'
  BY <1>6 DEF ReadConfig
<1>7. ASSUME NEW r \in Requests, WriteBackup(r) PROVE AuditAgrees'
  BY <1>7 DEF WriteBackup, Written
<1>8. ASSUME NEW r \in Requests, CreateCompilationRollback(r) PROVE AuditAgrees'
  BY <1>8 DEF CreateCompilationRollback, StoreOutcomes, Inserted, Outcomes
<1>9. ASSUME NEW r \in Requests, WriteCandidate(r) PROVE AuditAgrees'
  BY <1>9 DEF WriteCandidate, Written, MergeManagedOverlay
<1>10. ASSUME NEW r \in Requests, ReloadConfig(r) PROVE AuditAgrees'
  BY <1>10 DEF ReloadConfig, Outcomes, Reloaded
<1>11. ASSUME NEW r \in Requests, Probe(r) PROVE AuditAgrees'
  BY <1>11 DEF Probe, Outcomes
<1>12. ASSUME NEW r \in Requests, CompleteApplied(r) PROVE AuditAgrees'
  BY <1>12 DEF CompleteApplied, StoreOutcomes, Completed, Outcomes
<1>13. ASSUME NEW r \in Requests, FailWithoutRollback(r) PROVE AuditAgrees'
  BY <1>13 DEF FailWithoutRollback, StoreOutcomes, Completed, Outcomes
<1>14. ASSUME NEW r \in Requests, WriteOriginal(r) PROVE AuditAgrees'
  BY <1>14 DEF WriteOriginal, Written
<1>15. ASSUME NEW r \in Requests, ReloadOriginal(r) PROVE AuditAgrees'
  BY <1>15 DEF ReloadOriginal, Outcomes, Reloaded
<1>16. ASSUME NEW r \in Requests, AuditRestored(r) PROVE AuditAgrees'
  BY <1>16 DEF AuditRestored, StoreOutcomes, Completed, Outcomes
<1>17. ASSUME NEW r \in Requests, AuditRolledBack(r) PROVE AuditAgrees'
  BY <1>17 DEF AuditRolledBack, StoreOutcomes, Completed, Outcomes
<1>18. ASSUME NEW r \in Requests, AuditRollbackFailed(r) PROVE AuditAgrees'
  BY <1>18 DEF AuditRollbackFailed, StoreOutcomes, Completed, Outcomes
<1>19. ASSUME NEW r \in Requests, AuditFailed(r) PROVE AuditAgrees'
  BY <1>19 DEF AuditFailed, StoreOutcomes, Completed, Outcomes
<1>20. ASSUME NEW r \in Requests, Expire(r) PROVE AuditAgrees'
  BY <1>20 DEF Expire, InFlight
<1>21. CASE Crash
  BY <1>21 DEF Crash, InFlight
<1>22. CASE MihomoRestart
  BY <1>22 DEF MihomoRestart
<1>23. CASE UserEdit
  BY <1>23 DEF UserEdit
<1>24. CASE SaveGraph
  BY <1>24 DEF SaveGraph
<1>25. CASE UNCHANGED vars
  BY <1>25 DEF vars
<1>26. QED
  BY <1>1, <1>2, <1>3, <1>4, <1>5, <1>6, <1>7, <1>8, <1>9, <1>10, <1>11,
     <1>12, <1>13, <1>14, <1>15, <1>16, <1>17, <1>18, <1>19, <1>20, <1>21,
     <1>22, <1>23, <1>24, <1>25 DEF Next, Step, Environment

(* The invariant is inductive, so it holds in every reachable state. *)
LEMMA IInvNext == IInv /\ [Next]_vars => IInv'
  BY TypeNext, MutexNext, CustodyNext, ProgressNext, AuditNext DEF IInv, ApplyInv

THEOREM Invariance == Spec => []IInv
  BY IInvInit, IInvNext, PTL DEF Spec

(* Type correctness of the compilation service. *)
THEOREM TypeCorrect == Spec => []TypeOK
<1>1. IInv => TypeOK
  BY DEF IInv
<1>2. QED
  BY <1>1, Invariance, PTL

(* applyMu excludes, and while a request holds it the file and Mihomo have *)
(* the overlays its step says, through every failure and crash. *)
THEOREM ApplyInvariant == Spec => []ApplyInv
<1>1. IInv => ApplyInv
  BY DEF IInv
<1>2. QED
  BY <1>1, Invariance, PTL

(* The audit tables and the answers never contradict each other. *)
THEOREM AuditConsistent == Spec => []AuditAgrees
<1>1. IInv => AuditAgrees
  BY DEF IInv
<1>2. QED
  BY <1>1, Invariance, PTL

(* --------------------------- backups ------------------------------------ *)

(* A request that has a rollback row is past the step that writes its      *)
(* backup, and no step takes a row away. *)
LEMMA BackupStays ==
  ASSUME IInv, [Next]_vars, NEW q \in Requests, rollbacks[q] # "absent"
  PROVE  BackupKept(q)
<1> USE DEF IInv, ApplyInv, TypeOK, Progress, AuditAgrees, BackupKept, Labels, Locked,
          HasOriginal, Preparing, Installed, Restored, Stuck, disk, tables, locals,
          Goto, Finish
<1>1. ASSUME NEW r \in Requests, BeginValidate(r) PROVE BackupKept(q)
  BY <1>1 DEF BeginValidate
<1>2. ASSUME NEW r \in Requests, BeginApply(r) PROVE BackupKept(q)
  BY <1>2 DEF BeginApply
<1>3. ASSUME NEW r \in Requests, Validate(r) PROVE BackupKept(q)
  BY <1>3 DEF Validate, StoreOutcomes, Inserted, Outcomes
<1>4. ASSUME NEW r \in Requests, Lock(r) PROVE BackupKept(q)
  BY <1>4 DEF Lock
<1>5. ASSUME NEW r \in Requests, CompileSnapshot(r) PROVE BackupKept(q)
  BY <1>5 DEF CompileSnapshot, StoreOutcomes, Inserted, Outcomes
<1>6. ASSUME NEW r \in Requests, ReadConfig(r) PROVE BackupKept(q)
  BY <1>6 DEF ReadConfig
<1>7. ASSUME NEW r \in Requests, WriteBackup(r) PROVE BackupKept(q)
  BY <1>7 DEF WriteBackup, Written
<1>8. ASSUME NEW r \in Requests, CreateCompilationRollback(r) PROVE BackupKept(q)
  BY <1>8 DEF CreateCompilationRollback, StoreOutcomes, Inserted, Outcomes
<1>9. ASSUME NEW r \in Requests, WriteCandidate(r) PROVE BackupKept(q)
  BY <1>9 DEF WriteCandidate
<1>10. ASSUME NEW r \in Requests, ReloadConfig(r) PROVE BackupKept(q)
  BY <1>10 DEF ReloadConfig
<1>11. ASSUME NEW r \in Requests, Probe(r) PROVE BackupKept(q)
  BY <1>11 DEF Probe
<1>12. ASSUME NEW r \in Requests, CompleteApplied(r) PROVE BackupKept(q)
  BY <1>12 DEF CompleteApplied, StoreOutcomes, Completed, Outcomes
<1>13. ASSUME NEW r \in Requests, FailWithoutRollback(r) PROVE BackupKept(q)
  BY <1>13 DEF FailWithoutRollback, StoreOutcomes, Completed, Outcomes
<1>14. ASSUME NEW r \in Requests, WriteOriginal(r) PROVE BackupKept(q)
  BY <1>14 DEF WriteOriginal, Written
<1>15. ASSUME NEW r \in Requests, ReloadOriginal(r) PROVE BackupKept(q)
  BY <1>15 DEF ReloadOriginal
<1>16. ASSUME NEW r \in Requests, AuditRestored(r) PROVE BackupKept(q)
  BY <1>16 DEF AuditRestored, StoreOutcomes, Completed, Outcomes
<1>17. ASSUME NEW r \in Requests, AuditRolledBack(r) PROVE BackupKept(q)
  BY <1>17 DEF AuditRolledBack, StoreOutcomes, Completed, Outcomes
<1>18. ASSUME NEW r \in Requests, AuditRollbackFailed(r) PROVE BackupKept(q)
  BY <1>18 DEF AuditRollbackFailed, StoreOutcomes, Completed, Outcomes
<1>19. ASSUME NEW r \in Requests, AuditFailed(r) PROVE BackupKept(q)
  BY <1>19 DEF AuditFailed, StoreOutcomes, Completed, Outcomes
<1>20. ASSUME NEW r \in Requests, Expire(r) PROVE BackupKept(q)
  BY <1>20 DEF Expire
<1>21. CASE Crash
  BY <1>21 DEF Crash
<1>22. CASE MihomoRestart
  BY <1>22 DEF MihomoRestart
<1>23. CASE UserEdit
  BY <1>23 DEF UserEdit
<1>24. CASE SaveGraph
  BY <1>24 DEF SaveGraph
<1>25. CASE UNCHANGED vars
  BY <1>25 DEF vars
<1>26. QED
  BY <1>1, <1>2, <1>3, <1>4, <1>5, <1>6, <1>7, <1>8, <1>9,
     <1>10, <1>11, <1>12, <1>13, <1>14, <1>15, <1>16, <1>17,
     <1>18, <1>19, <1>20, <1>21, <1>22, <1>23, <1>24, <1>25 DEF
     Next, Step, Environment

(* Only WriteCandidate and WriteOriginal change the file.  Custody has the *)
(* file as it was read until the candidate is written, and Progress has    *)
(* the backup equal to what was read from the moment it is written. *)
LEMMA FileReplaced == ASSUME IInv, [Next]_vars PROVE FileFromBackedUp
<1> USE DEF IInv, ApplyInv, Mutex, Custody, Progress, FileFromBackedUp, BackedUp, Locked,
          HasOriginal, Preparing, Installed, Restored, Stuck, disk, tables, locals
<1>1. ASSUME NEW r \in Requests, BeginValidate(r) PROVE FileFromBackedUp
  BY <1>1 DEF BeginValidate
<1>2. ASSUME NEW r \in Requests, BeginApply(r) PROVE FileFromBackedUp
  BY <1>2 DEF BeginApply
<1>3. ASSUME NEW r \in Requests, Validate(r) PROVE FileFromBackedUp
  BY <1>3 DEF Validate, StoreOutcomes, Inserted, Outcomes
<1>4. ASSUME NEW r \in Requests, Lock(r) PROVE FileFromBackedUp
  BY <1>4 DEF Lock
<1>5. ASSUME NEW r \in Requests, CompileSnapshot(r) PROVE FileFromBackedUp
  BY <1>5 DEF CompileSnapshot, StoreOutcomes, Inserted, Outcomes
<1>6. ASSUME NEW r \in Requests, ReadConfig(r) PROVE FileFromBackedUp
  BY <1>6 DEF ReadConfig
<1>7. ASSUME NEW r \in Requests, WriteBackup(r) PROVE FileFromBackedUp
  BY <1>7 DEF WriteBackup, Written
<1>8. ASSUME NEW r \in Requests, CreateCompilationRollback(r) PROVE FileFromBackedUp
  BY <1>8 DEF CreateCompilationRollback, StoreOutcomes, Inserted, Outcomes
<1>9. ASSUME NEW r \in Requests, WriteCandidate(r) PROVE FileFromBackedUp
  BY <1>9 DEF WriteCandidate
<1>10. ASSUME NEW r \in Requests, ReloadConfig(r) PROVE FileFromBackedUp
  BY <1>10 DEF ReloadConfig
<1>11. ASSUME NEW r \in Requests, Probe(r) PROVE FileFromBackedUp
  BY <1>11 DEF Probe
<1>12. ASSUME NEW r \in Requests, CompleteApplied(r) PROVE FileFromBackedUp
  BY <1>12 DEF CompleteApplied, StoreOutcomes, Completed, Outcomes
<1>13. ASSUME NEW r \in Requests, FailWithoutRollback(r) PROVE FileFromBackedUp
  BY <1>13 DEF FailWithoutRollback, StoreOutcomes, Completed, Outcomes
<1>14. ASSUME NEW r \in Requests, WriteOriginal(r) PROVE FileFromBackedUp
  BY <1>14 DEF WriteOriginal, Written
<1>15. ASSUME NEW r \in Requests, ReloadOriginal(r) PROVE FileFromBackedUp
  BY <1>15 DEF ReloadOriginal
<1>16. ASSUME NEW r \in Requests, AuditRestored(r) PROVE FileFromBackedUp
  BY <1>16 DEF AuditRestored, StoreOutcomes, Completed, Outcomes
<1>17. ASSUME NEW r \in Requests, AuditRolledBack(r) PROVE FileFromBackedUp
  BY <1>17 DEF AuditRolledBack, StoreOutcomes, Completed, Outcomes
<1>18. ASSUME NEW r \in Requests, AuditRollbackFailed(r) PROVE FileFromBackedUp
  BY <1>18 DEF AuditRollbackFailed, StoreOutcomes, Completed, Outcomes
<1>19. ASSUME NEW r \in Requests, AuditFailed(r) PROVE FileFromBackedUp
  BY <1>19 DEF AuditFailed, StoreOutcomes, Completed, Outcomes
<1>20. ASSUME NEW r \in Requests, Expire(r) PROVE FileFromBackedUp
  BY <1>20 DEF Expire
<1>21. CASE Crash
  BY <1>21 DEF Crash
<1>22. CASE MihomoRestart
  BY <1>22 DEF MihomoRestart
<1>23. CASE UserEdit
  BY <1>23 DEF UserEdit
<1>24. CASE SaveGraph
  BY <1>24 DEF SaveGraph
<1>25. CASE UNCHANGED vars
  BY <1>25 DEF vars
<1>26. QED
  BY <1>1, <1>2, <1>3, <1>4, <1>5, <1>6, <1>7, <1>8, <1>9,
     <1>10, <1>11, <1>12, <1>13, <1>14, <1>15, <1>16, <1>17,
     <1>18, <1>19, <1>20, <1>21, <1>22, <1>23, <1>24, <1>25 DEF
     Next, Step, Environment

(* Whatever fails and whenever the daemon dies, a candidate replaces only  *)
(* what the backup of its request has, edits since the read aside; a       *)
(* rollback puts back that backup; and a backup that a row names stays. *)
THEOREM Recoverable == Spec => ReplacedIsBackedUp
<1>1. IInv /\ [Next]_vars => FileFromBackedUp /\ BackupsKept
  BY FileReplaced, BackupStays DEF BackupsKept
<1>2. QED
  BY <1>1, Invariance, PTL DEF Spec, ReplacedIsBackedUp

(* ------------------------ the abstract specification -------------------- *)

(* Apply implements custody of the configuration: each step of the service *)
(* is a step of ConfigCustody or leaves its variables alone. *)
THEOREM CustodyImplemented == Spec => CustodyKept
<1> USE DEF HasOriginal, Preparing, Installed, Restored, Stuck
<1>1. Init => Abstract!Init
  BY NobodyAssumption, SMTT(40) DEF Init, Abstract!Init, InCustody
<1>2. IInv /\ IInv' /\ [Next]_vars => [Abstract!Next]_Abstract!vars
  <2> SUFFICES ASSUME IInv, IInv', [Next]_vars PROVE [Abstract!Next]_Abstract!vars
    OBVIOUS
  <2> USE NobodyAssumption, NoFileAssumption DEF IInv, ApplyInv, Mutex, Custody, Progress, TypeOK, Content, InCustody,
            Locked, Labels, Abstract!Next, Abstract!Take, Abstract!Install,
            Abstract!PutBack, Abstract!Load, Abstract!Commit, Abstract!RollBack,
            Abstract!Release, Abstract!LetGo, Abstract!vars, Abstract!terms,
            Abstract!ledger, disk, tables, locals, Goto, Finish
  <2>1. ASSUME NEW r \in Requests, BeginValidate(r) PROVE [Abstract!Next]_Abstract!vars
    BY <2>1 DEF BeginValidate
  <2>2. ASSUME NEW r \in Requests, BeginApply(r) PROVE [Abstract!Next]_Abstract!vars
    BY <2>2 DEF BeginApply
  <2>3. ASSUME NEW r \in Requests, Validate(r) PROVE [Abstract!Next]_Abstract!vars
    BY <2>3 DEF Validate, StoreOutcomes, Inserted, Outcomes
  <2>4. ASSUME NEW r \in Requests, Lock(r) PROVE [Abstract!Next]_Abstract!vars
    BY <2>4 DEF Lock
  <2>5. ASSUME NEW r \in Requests, CompileSnapshot(r) PROVE [Abstract!Next]_Abstract!vars
    BY <2>5 DEF CompileSnapshot, StoreOutcomes, Inserted, Outcomes
  <2>6. ASSUME NEW r \in Requests, ReadConfig(r) PROVE [Abstract!Next]_Abstract!vars
    BY <2>6 DEF ReadConfig
  <2>7. ASSUME NEW r \in Requests, WriteBackup(r) PROVE [Abstract!Next]_Abstract!vars
    BY <2>7 DEF WriteBackup, Written
  <2>8. ASSUME NEW r \in Requests, CreateCompilationRollback(r) PROVE [Abstract!Next]_Abstract!vars
    BY <2>8 DEF CreateCompilationRollback, StoreOutcomes, Inserted, Outcomes
  <2>9. ASSUME NEW r \in Requests, WriteCandidate(r) PROVE [Abstract!Next]_Abstract!vars
    BY <2>9 DEF WriteCandidate, Written, MergeManagedOverlay
  <2>10. ASSUME NEW r \in Requests, ReloadConfig(r) PROVE [Abstract!Next]_Abstract!vars
    BY <2>10 DEF ReloadConfig, Outcomes, Reloaded
  <2>11. ASSUME NEW r \in Requests, Probe(r) PROVE [Abstract!Next]_Abstract!vars
    BY <2>11 DEF Probe, Outcomes
  <2>12. ASSUME NEW r \in Requests, CompleteApplied(r) PROVE [Abstract!Next]_Abstract!vars
    BY <2>12 DEF CompleteApplied, StoreOutcomes, Completed, Outcomes
  <2>13. ASSUME NEW r \in Requests, FailWithoutRollback(r) PROVE [Abstract!Next]_Abstract!vars
    BY <2>13 DEF FailWithoutRollback, StoreOutcomes, Completed, Outcomes
  <2>14. ASSUME NEW r \in Requests, WriteOriginal(r) PROVE [Abstract!Next]_Abstract!vars
    BY <2>14 DEF WriteOriginal, Written
  <2>15. ASSUME NEW r \in Requests, ReloadOriginal(r) PROVE [Abstract!Next]_Abstract!vars
    BY <2>15 DEF ReloadOriginal, Outcomes, Reloaded
  <2>16. ASSUME NEW r \in Requests, AuditRestored(r) PROVE [Abstract!Next]_Abstract!vars
    BY <2>16 DEF AuditRestored, StoreOutcomes, Completed, Outcomes
  <2>17. ASSUME NEW r \in Requests, AuditRolledBack(r) PROVE [Abstract!Next]_Abstract!vars
    BY <2>17 DEF AuditRolledBack, StoreOutcomes, Completed, Outcomes
  <2>18. ASSUME NEW r \in Requests, AuditRollbackFailed(r) PROVE [Abstract!Next]_Abstract!vars
    BY <2>18 DEF AuditRollbackFailed, StoreOutcomes, Completed, Outcomes
  <2>19. ASSUME NEW r \in Requests, AuditFailed(r) PROVE [Abstract!Next]_Abstract!vars
    BY <2>19 DEF AuditFailed, StoreOutcomes, Completed, Outcomes
  <2>20. ASSUME NEW r \in Requests, Expire(r) PROVE [Abstract!Next]_Abstract!vars
    BY <2>20 DEF Expire, InFlight
  <2>21. CASE Crash
    BY <2>21 DEF Crash, InFlight
  <2>22. CASE MihomoRestart
    BY <2>22 DEF MihomoRestart
  <2>23. CASE UserEdit
    BY <2>23 DEF UserEdit
  <2>24. CASE SaveGraph
    BY <2>24 DEF SaveGraph
  <2>25. CASE UNCHANGED vars
    BY <2>25 DEF vars
  <2>26. QED
    BY <2>1, <2>2, <2>3, <2>4, <2>5, <2>6, <2>7, <2>8, <2>9, <2>10, <2>11,
       <2>12, <2>13, <2>14, <2>15, <2>16, <2>17, <2>18, <2>19, <2>20, <2>21,
       <2>22, <2>23, <2>24, <2>25 DEF Next, Step, Environment
<1>3. QED
  BY <1>1, <1>2, Invariance, PTL DEF Spec, CustodyKept, Abstract!Spec

=============================================================================
