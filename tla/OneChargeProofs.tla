--------------------------- MODULE OneChargeProofs ---------------------------
(***************************************************************************)
(* At most one charge per payment id, for any number of sequential         *)
(* submissions, workers and attempts, with crashes of both.                *)
(***************************************************************************)
EXTENDS PaymentProofs

\* The conjuncts of OneChargeInv that LockInvInductive does not cover.
FlowInv == JobInv /\ SubmitInv /\ AttemptInv /\ ChargeInv

\* While a process is busy it is the only one, the payment is recorded and
\* claimed, and no submission is where it could create the payment.
LEMMA BusyIsAlone ==
  ASSUME TypeInv, LockInv, FlowInv, NEW p \in Procs, pc[p] # "idle"
  PROVE  /\ job.state # "none" /\ store # NoRecord /\ idem # "none"
         /\ \A q \in Procs : q # p => pc[q] = "idle"
         /\ \A s \in Submitters : req[s] \notin {"release", "save", "enqueue", "undo"}
         /\ p = FailureHandler => pc[p] \in {"idle", "handle"} \cup InDeadLetter
         /\ p \in Workers => pc[p] # "handle"
BY ConstantsAssumption
DEF FlowInv, JobInv, SubmitInv, Untouched, LockInv, HandlerInv, Owns, Procs,
    ConstantsAssumption

\* A step of the only busy process that keeps the payment recorded and
\* claimed keeps JobInv and SubmitInv.
LEMMA BusyStep ==
  ASSUME TypeInv, LockInv, FlowInv, NEW p \in Procs, pc[p] # "idle", NEW x,
         pc' = [pc EXCEPT ![p] = x], UNCHANGED <<req, job>>,
         idem' # "none", store' # NoRecord
  PROVE  JobInv' /\ SubmitInv'
<1>1. JobInv'
  BY ConstantsAssumption
  DEF FlowInv, JobInv, Owns, Procs, TypeInv, TypeOK, ConstantsAssumption
<1>2. SubmitInv'
  BY BusyIsAlone DEF FlowInv, SubmitInv, OneSubmission, Submitting
<1> QED BY <1>1, <1>2

-----------------------------------------------------------------------------
\* Submissions: they create the payment only while it is untouched.
LEMMA SubmitKeepsFlow ==
  ASSUME TypeInv, LockInv, FlowInv, NEW s \in Submitters,
         Env \subseteq {"submitCrash", "workerCrash"},
         BeginSubmit(s) \/ SubmitStepOf(s) \/ SubmitCrash(s)
  PROVE  FlowInv'
<1> USE DEF Go, NotSubmits, moneyVars, procVars, LockFree
<1>1. req \in [Submitters -> ReqState] BY DEF TypeInv, TypeOK
<1>2. UNCHANGED <<pc, rec, charges, lock>>
  BY DEF BeginSubmit, SubmitStepOf, SubmitCrash, Claim, ClaimGet, CheckRecord, Release,
         Reclaim, ReclaimGet, Replay, SaveQueued, Enqueue, UndoClaim
<1>3. OneSubmission'
  <2>1. CASE BeginSubmit(s)
    BY <1>1, <2>1 DEF BeginSubmit, OneSubmission, Submitting, SubmitStep
  <2>2. CASE SubmitStepOf(s) \/ SubmitCrash(s)
    <3>1. Submitting(s)
      BY <2>2
      DEF SubmitStepOf, SubmitCrash, Claim, ClaimGet, CheckRecord, Release, Reclaim,
          ReclaimGet, Replay, SaveQueued, Enqueue, UndoClaim, Submitting, SubmitStep
    <3>2. \A t \in Submitters : t # s => req'[t] = req[t]
      BY <1>1, <2>2
      DEF SubmitStepOf, SubmitCrash, Claim, ClaimGet, CheckRecord, Release, Reclaim,
          ReclaimGet, Replay, SaveQueued, Enqueue, UndoClaim
    <3> QED BY <3>1, <3>2 DEF FlowInv, SubmitInv, OneSubmission, Submitting
  <2> QED BY <2>1, <2>2
<1>4. \A t \in Submitters : t # s /\ Submitting(s) => ~Submitting(t)
  BY DEF FlowInv, SubmitInv, OneSubmission
<1> USE <1>1, <1>2, <1>3, <1>4 DEF FlowInv, SubmitInv, Untouched, Submitting, SubmitStep
<1>5. ASSUME UNCHANGED <<job, idem, store>> PROVE JobInv' /\ AttemptInv' /\ ChargeInv'
  BY <1>5 DEF JobInv, AttemptInv, ChargeInv, AtMostOneCharge, Owns, Finalized
<1>6. ASSUME Untouched, job' \in {job, NewJob}
      PROVE  JobInv' /\ AttemptInv' /\ ChargeInv'
  <2>1. \A p \in Procs : pc[p] = "idle"
    BY <1>6 DEF JobInv, Owns, Procs
  <2> QED
    BY <1>6, <2>1, ConstantsAssumption
    DEF JobInv, AttemptInv, ChargeInv, AtMostOneCharge, InAttempt, BeforeCharge, Procs
<1>7. CASE BeginSubmit(s) BY <1>5, <1>7 DEF BeginSubmit
<1>8. CASE Claim(s)
  <2>1. CASE ClaimWins BY <1>6, <1>8, <2>1 DEF Claim, ClaimWins, ClaimLease
  <2>2. CASE ~ClaimWins BY <1>5, <1>8, <2>2 DEF Claim
  <2> QED BY <2>1, <2>2
<1>9. CASE ClaimGet(s) BY <1>5, <1>9 DEF ClaimGet
<1>10. CASE CheckRecord(s) BY <1>5, <1>10 DEF CheckRecord
<1>11. CASE Release(s) BY <1>6, <1>11 DEF Release, ReleaseLease
<1>12. CASE Reclaim(s)
  <2>1. CASE ClaimWins BY <1>6, <1>12, <2>1 DEF Reclaim, ClaimWins, ClaimLease
  <2>2. CASE ~ClaimWins BY <1>5, <1>12, <2>2 DEF Reclaim
  <2> QED BY <2>1, <2>2
<1>13. CASE ReclaimGet(s) BY <1>5, <1>13 DEF ReclaimGet
<1>14. CASE Replay(s) BY <1>5, <1>14 DEF Replay
<1>15. CASE SaveQueued(s)
  BY <1>6, <1>15 DEF SaveQueued, Save, createPaymentRecord, NoRecord
<1>16. CASE Enqueue(s)
  <2>1. req[s] = "enqueue" /\ Untouched /\ idem = "PROCESSING" /\ UNCHANGED <<idem, store>>
    BY <1>16 DEF Enqueue
  <2>2. CASE Go(s, "enqueue", "created") /\ AddJob
    <3>1. job' \in {job, NewJob} BY <2>2 DEF AddJob
    <3>2. JobInv' /\ AttemptInv' /\ ChargeInv' BY <1>6, <2>1, <3>1
    <3>3. store # NoRecord
      BY <2>1
    <3> QED BY <2>1, <2>2, <3>1, <3>2, <3>3
  <2>3. CASE Go(s, "enqueue", "undo") /\ UNCHANGED job
    BY <1>5, <2>1, <2>3
  <2> QED BY <1>16, <2>2, <2>3 DEF Enqueue
<1>17. CASE UndoClaim(s) BY <1>6, <1>17 DEF UndoClaim, ReleaseLease
<1>18. CASE SubmitCrash(s) BY <1>5, <1>18 DEF SubmitCrash
<1> QED
  BY <1>7, <1>8, <1>9, <1>10, <1>11, <1>12, <1>13, <1>14, <1>15, <1>16, <1>17, <1>18
  DEF SubmitStepOf

-----------------------------------------------------------------------------
\* The steps of processJob, the saga, finalizeDeadLetter and the handler.
LEMMA ProcessKeepsFlow ==
  ASSUME TypeInv, LockInv, FlowInv, NEW p \in Procs, ProcessStep(p)
  PROVE  FlowInv'
<1>0. /\ store \in PaymentRecord /\ charges \in Nat
      /\ pc \in [Procs -> ProcState] /\ rec \in [Procs -> PaymentRecord]
  BY DEF TypeInv, TypeOK
<1>1. pc[p] # "idle"
  BY DEF ProcessStep, Step, Load, CheckFinalized, AcquireLock, WriteLease, StartAttempt,
         Reserve, Charge, RecordCharge, RecordFailure, Settle, RefundCharge,
         RecordCompensation, SaveCompleted, FinalizeCompleted, RecordRetry, LoadLatest,
         SaveDeadLetter, FinalizeFailed, RouteToDlq, HandleFailure, ReleaseLock
<1>2. /\ job.state # "none" /\ store # NoRecord /\ idem # "none"
      /\ \A q \in Procs : q # p => pc[q] = "idle"
      /\ p = FailureHandler => pc[p] \in {"idle", "handle"} \cup InDeadLetter
      /\ p \in Workers => pc[p] # "handle"
  BY <1>1, BusyIsAlone
<1>3. Workers \subseteq Procs /\ FailureHandler \notin Workers /\ (p \in Workers \/ p = FailureHandler)
  BY ConstantsAssumption DEF Procs, ConstantsAssumption
<1>4. ASSUME NEW x, pc' = [pc EXCEPT ![p] = x], UNCHANGED <<req, job>>,
             idem' # "none", store' # NoRecord, AttemptInv', ChargeInv'
      PROVE  FlowInv'
  BY <1>1, <1>4, BusyStep DEF FlowInv
<1> USE <1>0, <1>1, <1>2, <1>3
      DEF Step, SaveRecord, Save, NotWorks, storeVars, moneyVars, FlowInv, InAttempt,
          BeforeCharge, AttemptInv, ChargeInv, AtMostOneCharge, Finalized, LockFree,
          InDeadLetter, PaymentRecord, NoRecord
<1>5. CASE Load(p) BY <1>4, <1>5 DEF Load
<1>6. CASE CheckFinalized(p) BY <1>4, <1>6 DEF CheckFinalized
<1>7. CASE AcquireLock(p) BY <1>4, <1>7 DEF AcquireLock, TakeLock
<1>8. CASE WriteLease(p) BY <1>4, <1>8 DEF WriteLease, RenewLease
<1>9. CASE StartAttempt(p) BY <1>4, <1>9 DEF StartAttempt, transitionToProcessing
<1>10. CASE Reserve(p) BY <1>4, <1>10 DEF Reserve
<1>11. CASE Charge(p)
  BY <1>4, <1>11 DEF Charge, LockInv, Executing, InSaga
<1>12. CASE RecordCharge(p) BY <1>4, <1>12 DEF RecordCharge
<1>13. CASE RecordFailure(p)
  <2>1. rec[p].status = "processing" /\ charges = 0 BY <1>13 DEF RecordFailure
  <2>2. rec[p] # NoRecord BY <2>1
  <2> QED BY <1>4, <1>13, <2>1, <2>2 DEF RecordFailure
<1>14. CASE Settle(p) BY <1>4, <1>14 DEF Settle, settle
<1>15. CASE RefundCharge(p) BY <1>4, <1>15 DEF RefundCharge, refund
<1>16. CASE RecordCompensation(p) BY <1>4, <1>16 DEF RecordCompensation
<1>17. CASE SaveCompleted(p) BY <1>4, <1>17 DEF SaveCompleted, transitionToCompleted
<1>18. CASE FinalizeCompleted(p) BY <1>4, <1>18 DEF FinalizeCompleted, finalize
<1>19. CASE RecordRetry(p)
  <2>1. rec[p].status = "processing" /\ charges = 0 BY <1>19 DEF RecordRetry
  <2>2. rec[p] # NoRecord BY <2>1
  <2> QED BY <1>4, <1>19, <2>1, <2>2 DEF RecordRetry
<1>20. CASE LoadLatest(p)
  BY <1>4, <1>20 DEF LoadLatest, AfterDeadLetter, TerminalStatus
<1>21. CASE SaveDeadLetter(p) BY <1>4, <1>21 DEF SaveDeadLetter, transitionToDeadLetter
<1>22. CASE FinalizeFailed(p) BY <1>4, <1>22 DEF FinalizeFailed, finalize
<1>23. CASE RouteToDlq(p) BY <1>4, <1>23 DEF RouteToDlq, routeToDlq, AfterDeadLetter
<1>24. CASE HandleFailure(p) BY <1>4, <1>24 DEF HandleFailure
<1>25. CASE ReleaseLock(p) BY <1>4, <1>25 DEF ReleaseLock, releaseExecutionLock
<1> QED
  BY <1>5, <1>6, <1>7, <1>8, <1>9, <1>10, <1>11, <1>12, <1>13, <1>14, <1>15, <1>16, <1>17,
     <1>18, <1>19, <1>20, <1>21, <1>22, <1>23, <1>24, <1>25
  DEF ProcessStep

-----------------------------------------------------------------------------
\* BullMQ: the job is the token that at most one process holds. A crash leaves
\* the lock behind, so a charge it orphans is never repeated.
LEMMA QueueKeepsFlow ==
  ASSUME TypeInv, LockInv, FlowInv,
         \/ \E w \in Workers : JobStep(w)
         \/ \E p \in Procs : WorkerCrash(p)
         \/ RecoverStalled
  PROVE  FlowInv'
<1>0. /\ job \in Job /\ pc \in [Procs -> ProcState]
      /\ NoWorker \notin Workers /\ FailureHandler \notin Workers
      /\ Procs = Workers \cup {FailureHandler}
  BY ConstantsAssumption DEF TypeInv, TypeOK, Procs, ConstantsAssumption
<1>1. UNCHANGED <<store, idem, lock, charges, req>>
  BY DEF JobStep, TakeJob, JobCompletes, JobFails, JobLost, WorkerCrash, RecoverStalled,
         NotQueue, storeVars, moneyVars
<1>2. ASSUME job.state = "none" => job'.state = "none"
      PROVE  SubmitInv'
  BY <1>1, <1>2
  DEF FlowInv, SubmitInv, OneSubmission, Submitting, Untouched, LockFree
<1>3. ASSUME \A w \in Workers :
               (pc'[w] = pc[w] /\ rec'[w] = rec[w]) \/ pc'[w] \in {"idle", "load"}
      PROVE  AttemptInv' /\ ChargeInv'
  BY <1>1, <1>3
  DEF FlowInv, AttemptInv, ChargeInv, AtMostOneCharge, Finalized, LockFree, InAttempt,
      BeforeCharge
<1> USE <1>0 DEF NoJob, Step, Forget
<1>4. ASSUME NEW w \in Workers, TakeJob(w) PROVE FlowInv'
  <2>1. JobInv'
    BY <1>4 DEF TakeJob, FlowInv, JobInv, Owns, Job
  <2> QED
    BY <1>2, <1>3, <1>4, <2>1 DEF TakeJob, FlowInv, Job
<1>5. ASSUME NEW w \in Workers, JobCompletes(w) \/ JobFails(w) PROVE FlowInv'
  <2>1. pc[w] = "report" BY <1>5 DEF JobCompletes, JobFails
  <2>2. /\ job.state # "none" /\ store # NoRecord /\ idem # "none"
        /\ \A q \in Procs : q # w => pc[q] = "idle"
        /\ \A s \in Submitters : req[s] \notin {"release", "save", "enqueue", "undo"}
    BY <2>1, BusyIsAlone
  <2>3. JobInv'
    BY <1>5, <2>2 DEF JobCompletes, JobFails, JobInv, Owns
  <2>4. AttemptInv' /\ ChargeInv'
    BY <1>3, <1>5, <2>2 DEF JobCompletes, JobFails
  <2>5. SubmitInv'
    BY <1>2, <1>5, <2>2 DEF JobCompletes, JobFails
  <2> QED BY <2>3, <2>4, <2>5 DEF FlowInv
<1>6. ASSUME NEW w \in Workers, JobLost(w) PROVE FlowInv'
  BY <1>6 DEF JobLost, FlowInv, JobInv
<1>7. ASSUME NEW p \in Procs, WorkerCrash(p) PROVE FlowInv'
  <2>1. JobInv'
    BY <1>7 DEF WorkerCrash, FlowInv, JobInv, Owns
  <2>2. AttemptInv' /\ ChargeInv'
    BY <1>3, <1>7 DEF WorkerCrash, TypeInv, TypeOK
  <2> QED
    BY <1>2, <1>7, <2>1, <2>2 DEF WorkerCrash, FlowInv
<1>8. CASE RecoverStalled
  <2>1. JobInv'
    BY <1>8 DEF RecoverStalled, FlowInv, JobInv, Owns, Job, procVars
  <2> QED
    BY <1>2, <1>3, <1>8, <2>1 DEF RecoverStalled, FlowInv, Job, procVars
<1> QED
  BY <1>4, <1>5, <1>6, <1>7, <1>8 DEF JobStep

-----------------------------------------------------------------------------
\* FlowInv is inductive relative to TypeInv and LockInv.
LEMMA FlowInvInductive ==
  ASSUME Env \subseteq {"submitCrash", "workerCrash"}
  PROVE  /\ Init => FlowInv
         /\ TypeInv /\ LockInv /\ FlowInv /\ [Next]_vars => FlowInv'
<1>1. Init => FlowInv
  BY ConstantsAssumption
  DEF Init, FlowInv, JobInv, SubmitInv, OneSubmission, Submitting, SubmitStep, Untouched,
      AttemptInv, ChargeInv, AtMostOneCharge, NoJob, LockFree, Procs, InAttempt, BeforeCharge
<1>2. ASSUME TypeInv, LockInv, FlowInv, [Next]_vars PROVE FlowInv'
  <2>1. CASE UNCHANGED vars
    BY <1>2, <2>1
    DEF vars, storeVars, queueVars, moneyVars, procVars, FlowInv, JobInv, SubmitInv,
        OneSubmission, Submitting, Untouched, AttemptInv, ChargeInv, AtMostOneCharge,
        Finalized, LockFree, Owns
  <2>2. CASE HandOffStalled \/ LeaseExpires \/ LockExpires \/ RetentionExpires
    BY <2>2 DEF HandOffStalled, LeaseExpires, LockExpires, RetentionExpires
  <2> QED
    BY <1>2, <2>1, <2>2, SubmitKeepsFlow, ProcessKeepsFlow, QueueKeepsFlow DEF Next, Finished
<1> QED BY <1>1, <1>2

\* With sequential submissions, no stalled handoff of a live worker's job and
\* no TTL elapsing, a payment id is charged at most once, however often
\* submitters and workers crash, jobs are redelivered and attempts repeated.
THEOREM ChargedAtMostOnce ==
  ASSUME Env \subseteq {"submitCrash", "workerCrash"}
  PROVE  Spec => []AtMostOneCharge
<1>1. FlowInv => AtMostOneCharge BY DEF FlowInv, ChargeInv
<1>2. "lockExpiry" \notin Env OBVIOUS
<1> QED
  BY <1>1, <1>2, TypeInvInductive, LockInvInductive, FlowInvInductive, PTL DEF Spec
=============================================================================
