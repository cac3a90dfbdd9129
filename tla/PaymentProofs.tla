---------------------------- MODULE PaymentProofs ----------------------------
(***************************************************************************)
(* Theorems about PaymentSystem, for any number of submissions and workers *)
(* and any retry budget.                                                   *)
(***************************************************************************)
EXTENDS PaymentInvariants, TLAPS

-----------------------------------------------------------------------------
(* Type correctness.                                                       *)

\* Init and every step of Next keep all variables in their types, and the
\* attempts of a live job within its budget.
LEMMA TypeInvInductive ==
  /\ Init => TypeInv
  /\ TypeInv /\ [Next]_vars => TypeInv'
<1> USE ConstantsAssumption DEF Procs, PaymentRecord, PaymentStatus, SagaState,
      IdemState, JobState, Job, ReqState, SubmitStep, Answer, ProcState, BeforeLock,
      InSaga, InDeadLetter, ErrState, ConstantsAssumption
<1>1. Init => TypeInv
  <2> SUFFICES ASSUME Init PROVE TypeInv
    OBVIOUS
  <2>1. store \in PaymentRecord /\ rec \in [Procs -> PaymentRecord]
    BY DEF Init, NoRecord
  <2>2. job \in Job /\ job.state = "none"
    BY DEF Init, NoJob
  <2>3. dlq \in BOOLEAN
    BY Zenon DEF Init
  <2> QED
    BY <2>1, <2>2, <2>3 DEF Init, TypeInv, TypeOK
<1>2. ASSUME TypeInv, [Next]_vars PROVE TypeInv'
  <2> USE <1>2 DEF TypeInv, TypeOK
  <2>1. ASSUME NEW s \in Submitters, BeginSubmit(s) \/ SubmitStepOf(s) \/ SubmitCrash(s)
        PROVE  TypeInv'
    <3> USE <2>1 DEF Go, NotSubmits, moneyVars, procVars
    <3>1. CASE BeginSubmit(s) BY <3>1 DEF BeginSubmit
    <3>2. CASE Claim(s) BY <3>2 DEF Claim, ClaimLease
    <3>3. CASE ClaimGet(s) BY <3>3 DEF ClaimGet
    <3>4. CASE CheckRecord(s) BY <3>4 DEF CheckRecord
    <3>5. CASE Release(s) BY <3>5 DEF Release, ReleaseLease
    <3>6. CASE Reclaim(s) BY <3>6 DEF Reclaim, ClaimLease
    <3>7. CASE ReclaimGet(s) BY <3>7 DEF ReclaimGet
    <3>8. CASE Replay(s) BY <3>8 DEF Replay
    <3>9. CASE SaveQueued(s) BY <3>9 DEF SaveQueued, Save, createPaymentRecord
    <3>10. CASE Enqueue(s) BY <3>10 DEF Enqueue, AddJob, NewJob
    <3>11. CASE UndoClaim(s) BY <3>11 DEF UndoClaim, ReleaseLease
    <3>12. CASE SubmitCrash(s) BY <3>12 DEF SubmitCrash
    <3> QED
      BY <3>1, <3>2, <3>3, <3>4, <3>5, <3>6, <3>7, <3>8, <3>9, <3>10, <3>11, <3>12
      DEF SubmitStepOf
  <2>2. ASSUME NEW p \in Procs, ProcessStep(p) PROVE TypeInv'
    <3> USE <2>2 DEF Step, SaveRecord, Save, Raise, NotWorks, storeVars, moneyVars,
          transitionToProcessing, transitionToCompleted, transitionToDeadLetter,
          finalize, AfterDeadLetter
    <3>1. CASE Load(p) BY <3>1 DEF Load
    <3>2. CASE CheckFinalized(p) BY <3>2 DEF CheckFinalized
    <3>3. CASE AcquireLock(p) BY <3>3 DEF AcquireLock, TakeLock
    <3>4. CASE WriteLease(p) BY <3>4 DEF WriteLease, RenewLease
    <3>5. CASE StartAttempt(p) BY <3>5 DEF StartAttempt
    <3>6. CASE Reserve(p) BY <3>6 DEF Reserve
    <3>7. CASE Charge(p) BY <3>7 DEF Charge
    <3>8. CASE RecordCharge(p) BY <3>8 DEF RecordCharge
    <3>9. CASE RecordFailure(p) BY <3>9 DEF RecordFailure
    <3>10. CASE Settle(p) BY <3>10 DEF Settle, settle
    <3>11. CASE RefundCharge(p) BY <3>11 DEF RefundCharge, refund
    <3>12. CASE RecordCompensation(p) BY <3>12 DEF RecordCompensation
    <3>13. CASE SaveCompleted(p) BY <3>13 DEF SaveCompleted
    <3>14. CASE FinalizeCompleted(p) BY <3>14 DEF FinalizeCompleted
    <3>15. CASE RecordRetry(p) BY <3>15 DEF RecordRetry
    <3>16. CASE LoadLatest(p) BY <3>16 DEF LoadLatest
    <3>17. CASE SaveDeadLetter(p) BY <3>17 DEF SaveDeadLetter
    <3>18. CASE FinalizeFailed(p) BY <3>18 DEF FinalizeFailed
    <3>19. CASE RouteToDlq(p) BY <3>19 DEF RouteToDlq, routeToDlq
    <3>20. CASE HandleFailure(p) BY <3>20 DEF HandleFailure
    <3>21. CASE ReleaseLock(p) BY <3>21 DEF ReleaseLock, releaseExecutionLock
    <3> QED
      BY <3>1, <3>2, <3>3, <3>4, <3>5, <3>6, <3>7, <3>8, <3>9, <3>10, <3>11, <3>12,
         <3>13, <3>14, <3>15, <3>16, <3>17, <3>18, <3>19, <3>20, <3>21
      DEF ProcessStep
  <2>3. ASSUME NEW w \in Workers, JobStep(w) PROVE TypeInv'
    <3> USE <2>3 DEF Step, Forget, Owns, NotQueue, storeVars, moneyVars, NoJob, NoRecord
    <3>1. CASE TakeJob(w) BY <3>1 DEF TakeJob
    <3>2. CASE JobCompletes(w) BY <3>2 DEF JobCompletes
    <3>3. CASE JobFails(w) BY <3>3 DEF JobFails
    <3>4. CASE JobLost(w) BY <3>4 DEF JobLost
    <3> QED BY <3>1, <3>2, <3>3, <3>4 DEF JobStep
  <2>4. ASSUME NEW p \in Procs, WorkerCrash(p) PROVE TypeInv'
    BY <2>4 DEF WorkerCrash, Forget, NotQueue, storeVars, moneyVars, NoRecord
  <2> USE DEF NotQueue, storeVars, queueVars, moneyVars, procVars
  <2>5. CASE RecoverStalled BY <2>5 DEF RecoverStalled
  <2>6. CASE HandOffStalled
    <3>1. faults' \in 0..MaxFaults
      BY <2>6 DEF HandOffStalled
    <3> QED BY <2>6, <3>1 DEF HandOffStalled
  <2>7. CASE LeaseExpires BY <2>7 DEF LeaseExpires
  <2>8. CASE LockExpires BY <2>8 DEF LockExpires, releaseExecutionLock
  <2>9. CASE RetentionExpires BY <2>9 DEF RetentionExpires
  <2>10. CASE UNCHANGED vars BY <2>10 DEF vars
  <2> QED
    BY <2>1, <2>2, <2>3, <2>4, <2>5, <2>6, <2>7, <2>8, <2>9, <2>10 DEF Next, Finished
<1> QED BY <1>1, <1>2

\* Every variable of the payment system keeps its type, and a job is never
\* attempted more often than its attempts option allows.
THEOREM TypeCorrect == Spec => []TypeOK
<1>1. TypeInv => TypeOK BY DEF TypeInv
<1> QED BY <1>1, TypeInvInductive, PTL DEF Spec

-----------------------------------------------------------------------------
(* Mutual exclusion of the execution lock.                                 *)

\* A step that moves one process, without moving a worker into the locked
\* section and without touching the lock, keeps LockInv.
LEMMA LockStay ==
  ASSUME TypeInv, LockInv, NEW p \in Procs, NEW x,
         pc' = [pc EXCEPT ![p] = x], UNCHANGED lock,
         p \in Workers /\ x \in InSaga \cup InDeadLetter \cup {"release"} => Executing(p),
         p \in Workers => x # "handle",
         p = FailureHandler => x \in {"idle", "handle"} \cup InDeadLetter
  PROVE  LockInv'
BY ConstantsAssumption
DEF TypeInv, TypeOK, LockInv, HandlerInv, ExecutionMutex, Executing, LockFree, Procs,
    ConstantsAssumption

\* Only AcquireLock enters the locked section, and only when the lock is free.
LEMMA LockInvInductive ==
  ASSUME "lockExpiry" \notin Env
  PROVE  /\ Init => LockInv
         /\ TypeInv /\ LockInv /\ [Next]_vars => LockInv'
<1> USE ConstantsAssumption
<1>1. Init => LockInv
  BY DEF Init, LockInv, HandlerInv, ExecutionMutex, Executing, InSaga, InDeadLetter, Procs,
         ConstantsAssumption
<1>2. ASSUME TypeInv, LockInv, [Next]_vars PROVE LockInv'
  <2>1. ASSUME UNCHANGED <<pc, lock>> PROVE LockInv'
    BY <1>2, <2>1 DEF LockInv, HandlerInv, ExecutionMutex, Executing, LockFree
  <2>2. ASSUME NEW s \in Submitters, BeginSubmit(s) \/ SubmitStepOf(s) \/ SubmitCrash(s)
        PROVE  LockInv'
    BY <2>1, <2>2
    DEF BeginSubmit, SubmitStepOf, SubmitCrash, Claim, ClaimGet, CheckRecord, Release,
        Reclaim, ReclaimGet, Replay, SaveQueued, Enqueue, UndoClaim, NotSubmits, procVars
  <2>3. ASSUME NEW p \in Procs, ProcessStep(p) PROVE LockInv'
    <3> USE <1>2 DEF Step, Executing, BeforeLock, InSaga, InDeadLetter, AfterDeadLetter,
          storeVars
    <3>0. /\ p = FailureHandler => pc[p] \in {"idle", "handle"} \cup InDeadLetter
          /\ p \in Workers => pc[p] # "handle"
      BY DEF LockInv, HandlerInv
    <3>1. CASE Load(p) BY <3>0, <3>1, LockStay DEF Load
    <3>2. CASE CheckFinalized(p) BY <3>0, <3>2, LockStay DEF CheckFinalized
    <3>3. CASE AcquireLock(p)
      <4>1. CASE LockFree
        BY <3>0, <3>3, <4>1
        DEF AcquireLock, TakeLock, LockFree, LockInv, HandlerInv, ExecutionMutex, TypeInv,
            TypeOK, Procs, ConstantsAssumption
      <4>2. CASE ~LockFree
        BY <3>0, <3>3, <4>2, LockStay DEF AcquireLock
      <4> QED BY <4>1, <4>2
    <3>4. CASE WriteLease(p) BY <3>0, <3>4, LockStay DEF WriteLease
    <3>5. CASE StartAttempt(p) BY <3>0, <3>5, LockStay DEF StartAttempt
    <3>6. CASE Reserve(p) BY <3>0, <3>6, LockStay DEF Reserve
    <3>7. CASE Charge(p) BY <3>0, <3>7, LockStay DEF Charge
    <3>8. CASE RecordCharge(p) BY <3>0, <3>8, LockStay DEF RecordCharge
    <3>9. CASE RecordFailure(p) BY <3>0, <3>9, LockStay DEF RecordFailure
    <3>10. CASE Settle(p) BY <3>0, <3>10, LockStay DEF Settle, settle
    <3>11. CASE RefundCharge(p) BY <3>0, <3>11, LockStay DEF RefundCharge, refund
    <3>12. CASE RecordCompensation(p) BY <3>0, <3>12, LockStay DEF RecordCompensation
    <3>13. CASE SaveCompleted(p) BY <3>0, <3>13, LockStay DEF SaveCompleted
    <3>14. CASE FinalizeCompleted(p) BY <3>0, <3>14, LockStay DEF FinalizeCompleted
    <3>15. CASE RecordRetry(p) BY <3>0, <3>15, LockStay DEF RecordRetry
    <3>16. CASE LoadLatest(p) BY <3>0, <3>16, LockStay DEF LoadLatest
    <3>17. CASE SaveDeadLetter(p) BY <3>0, <3>17, LockStay DEF SaveDeadLetter
    <3>18. CASE FinalizeFailed(p) BY <3>0, <3>18, LockStay DEF FinalizeFailed
    <3>19. CASE RouteToDlq(p) BY <3>0, <3>19, LockStay DEF RouteToDlq, routeToDlq
    <3>20. CASE HandleFailure(p) BY <3>0, <3>20, LockStay DEF HandleFailure
    <3>21. CASE ReleaseLock(p)
      BY <3>0, <3>21
      DEF ReleaseLock, releaseExecutionLock, LockInv, HandlerInv, ExecutionMutex, LockFree,
          TypeInv, TypeOK, Procs, ConstantsAssumption
    <3> QED
      BY <2>3, <3>1, <3>2, <3>3, <3>4, <3>5, <3>6, <3>7, <3>8, <3>9, <3>10, <3>11, <3>12,
         <3>13, <3>14, <3>15, <3>16, <3>17, <3>18, <3>19, <3>20, <3>21
      DEF ProcessStep
  <2>4. ASSUME NEW w \in Workers, JobStep(w) PROVE LockInv'
    <3> USE <1>2 DEF Step, Executing, InSaga, InDeadLetter, NotQueue, storeVars, Procs,
          ConstantsAssumption
    <3>1. CASE TakeJob(w) BY <3>1, LockStay DEF TakeJob
    <3>2. CASE JobCompletes(w) BY <3>2, LockStay DEF JobCompletes
    <3>3. CASE JobFails(w)
      BY <3>3
      DEF JobFails, LockInv, HandlerInv, ExecutionMutex, LockFree, TypeInv, TypeOK
    <3>4. CASE JobLost(w) BY <3>4, LockStay DEF JobLost
    <3> QED BY <2>4, <3>1, <3>2, <3>3, <3>4 DEF JobStep
  <2>5. ASSUME NEW p \in Procs, WorkerCrash(p) PROVE LockInv'
    BY <1>2, <2>5, LockStay
    DEF WorkerCrash, NotQueue, storeVars, InSaga, InDeadLetter
  <2>6. CASE RecoverStalled \/ HandOffStalled
    BY <2>1, <2>6 DEF RecoverStalled, HandOffStalled, NotQueue, procVars, storeVars
  <2>7. CASE LeaseExpires \/ RetentionExpires
    BY <2>1, <2>7 DEF LeaseExpires, RetentionExpires, procVars
  <2>8. CASE LockExpires
    BY <2>8 DEF LockExpires
  <2>9. CASE UNCHANGED vars
    BY <2>1, <2>9 DEF vars, storeVars, procVars
  <2> QED
    BY <1>2, <2>2, <2>3, <2>4, <2>5, <2>6, <2>7, <2>8, <2>9 DEF Next, Finished
<1> QED BY <1>1, <1>2

\* As long as the lock's TTL outlives every execution, no two workers are
\* inside the saga of one payment at once: whatever submissions overlap, jobs
\* stall or are handed over, leases expire and processes crash.
THEOREM MutualExclusion ==
  ASSUME "lockExpiry" \notin Env
  PROVE  Spec => []ExecutionMutex
<1>1. LockInv => ExecutionMutex BY DEF LockInv
<1> QED BY <1>1, TypeInvInductive, LockInvInductive, PTL DEF Spec

-----------------------------------------------------------------------------
(* Completion is only ever reported for settled payments.                  *)

\* The ledger never shrinks, and every way to a completed record, in memory,
\* in the store or in the idempotency record, leads through Settle.
LEMMA SettledInvInductive ==
  /\ Init => SettledInv
  /\ TypeInv /\ SettledInv /\ [Next]_vars => SettledInv'
<1> USE DEF SettledInv, CompletedIsSettled
<1>1. Init => SettledInv
  BY DEF Init, NoRecord
<1>2. ASSUME TypeInv, SettledInv, [Next]_vars PROVE SettledInv'
  <2> USE <1>2
  <2>0. /\ store \in PaymentRecord /\ ledger \in Nat
        /\ pc \in [Procs -> ProcState] /\ rec \in [Procs -> PaymentRecord]
    BY DEF TypeInv, TypeOK
  <2> USE <2>0 DEF PaymentRecord
  <2>1. ASSUME NEW s \in Submitters, BeginSubmit(s) \/ SubmitStepOf(s) \/ SubmitCrash(s)
        PROVE  SettledInv'
    <3>1. UNCHANGED <<pc, rec, ledger>>
      BY <2>1
      DEF BeginSubmit, SubmitStepOf, SubmitCrash, Claim, ClaimGet, CheckRecord, Release,
          Reclaim, ReclaimGet, Replay, SaveQueued, Enqueue, UndoClaim, NotSubmits, procVars,
          moneyVars
    <3>2. idem' \in {idem, "none", "PROCESSING"}
      BY <2>1
      DEF BeginSubmit, SubmitStepOf, SubmitCrash, Claim, ClaimGet, CheckRecord, Release,
          Reclaim, ReclaimGet, Replay, SaveQueued, Enqueue, UndoClaim, ClaimLease, ReleaseLease
    <3>3. store' \in {store, createPaymentRecord}
      BY <2>1
      DEF BeginSubmit, SubmitStepOf, SubmitCrash, Claim, ClaimGet, CheckRecord, Release,
          Reclaim, ReclaimGet, Replay, SaveQueued, Enqueue, UndoClaim, Save
    <3> QED BY <3>1, <3>2, <3>3 DEF createPaymentRecord
  <2>2. ASSUME NEW p \in Procs, ProcessStep(p) PROVE SettledInv'
    <3> USE <2>2 DEF Step, SaveRecord, Save, NotWorks, storeVars, moneyVars
    <3>1. CASE Load(p) BY <3>1 DEF Load
    <3>2. CASE CheckFinalized(p) BY <3>2 DEF CheckFinalized
    <3>3. CASE AcquireLock(p) BY <3>3 DEF AcquireLock
    <3>4. CASE WriteLease(p) BY <3>4 DEF WriteLease, RenewLease
    <3>5. CASE StartAttempt(p) BY <3>5 DEF StartAttempt, transitionToProcessing
    <3>6. CASE Reserve(p) BY <3>6 DEF Reserve
    <3>7. CASE Charge(p) BY <3>7 DEF Charge
    <3>8. CASE RecordCharge(p) BY <3>8 DEF RecordCharge
    <3>9. CASE RecordFailure(p) BY <3>9 DEF RecordFailure
    <3>10. CASE Settle(p) BY <3>10 DEF Settle, settle
    <3>11. CASE RefundCharge(p) BY <3>11 DEF RefundCharge, refund
    <3>12. CASE RecordCompensation(p) BY <3>12 DEF RecordCompensation
    <3>13. CASE SaveCompleted(p) BY <3>13 DEF SaveCompleted, transitionToCompleted
    <3>14. CASE FinalizeCompleted(p) BY <3>14 DEF FinalizeCompleted, finalize
    <3>15. CASE RecordRetry(p) BY <3>15 DEF RecordRetry
    <3>16. CASE LoadLatest(p) BY <3>16 DEF LoadLatest, AfterDeadLetter
    <3>17. CASE SaveDeadLetter(p) BY <3>17 DEF SaveDeadLetter, transitionToDeadLetter
    <3>18. CASE FinalizeFailed(p) BY <3>18 DEF FinalizeFailed, finalize
    <3>19. CASE RouteToDlq(p) BY <3>19 DEF RouteToDlq, routeToDlq, AfterDeadLetter
    <3>20. CASE HandleFailure(p) BY <3>20 DEF HandleFailure
    <3>21. CASE ReleaseLock(p) BY <3>21 DEF ReleaseLock
    <3> QED
      BY <3>1, <3>2, <3>3, <3>4, <3>5, <3>6, <3>7, <3>8, <3>9, <3>10, <3>11, <3>12,
         <3>13, <3>14, <3>15, <3>16, <3>17, <3>18, <3>19, <3>20, <3>21
      DEF ProcessStep
  <2>3. ASSUME NEW w \in Workers, JobStep(w) PROVE SettledInv'
    <3> USE <2>3 DEF Step, Forget, NoRecord, NotQueue, storeVars, moneyVars, Procs
    <3>1. CASE TakeJob(w) BY <3>1 DEF TakeJob
    <3>2. CASE JobCompletes(w) BY <3>2 DEF JobCompletes
    <3>3. CASE JobFails(w) BY <3>3 DEF JobFails
    <3>4. CASE JobLost(w) BY <3>4 DEF JobLost
    <3> QED BY <3>1, <3>2, <3>3, <3>4 DEF JobStep
  <2>4. ASSUME NEW p \in Procs, WorkerCrash(p) PROVE SettledInv'
    BY <2>4 DEF WorkerCrash, Forget, NoRecord, NotQueue, storeVars, moneyVars
  <2>5. CASE RecoverStalled \/ HandOffStalled
    BY <2>5 DEF RecoverStalled, HandOffStalled, NotQueue, storeVars, moneyVars, procVars
  <2>6. CASE LeaseExpires \/ LockExpires \/ RetentionExpires
    BY <2>6 DEF LeaseExpires, LockExpires, RetentionExpires, moneyVars, procVars
  <2>7. CASE UNCHANGED vars
    BY <2>7 DEF vars, storeVars, moneyVars, procVars
  <2> QED
    BY <2>1, <2>2, <2>3, <2>4, <2>5, <2>6, <2>7 DEF Next, Finished
<1> QED BY <1>1, <1>2

\* Whatever the environment does, neither the stored record nor the
\* idempotency record says completed unless the settlement ledger has an entry.
THEOREM CompletionIsSettled == Spec => []CompletedIsSettled
<1>1. SettledInv => CompletedIsSettled BY DEF SettledInv
<1> QED BY <1>1, TypeInvInductive, SettledInvInductive, PTL DEF Spec
=============================================================================
