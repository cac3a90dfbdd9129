------------------------------ MODULE Execution ------------------------------
(***************************************************************************)
(* PaymentProcessor.processJob with the saga it runs (PaymentSagaService), *)
(* finalizeDeadLetter and the failure handler handleJobFailure. A process  *)
(* p is a worker or the failure handler.                                   *)
(***************************************************************************)
EXTENDS PaymentState

\* The awaits of processJob, in program order.
BeforeLock == {"load", "check", "lock"}
InSaga == {"lease", "start", "reserve", "charge", "recordCharge", "settle",
           "refund", "recordCompensation", "complete", "finalize",
           "recordFailure", "recordRetry"}
InDeadLetter == {"dlLoad", "dlSave", "dlFinalize", "dlRoute"}
ProcState == {"idle", "handle", "release", "report"} \cup BeforeLock
             \cup InSaga \cup InDeadLetter
ErrState == {"none", "retryable", "permanent"}

Step(p, from, to) ==
  /\ pc[p] = from
  /\ pc' = [pc EXCEPT ![p] = to]

\* process p sets its in-memory record and writes it to the store.
SaveRecord(p, r) ==
  /\ rec' = [rec EXCEPT ![p] = r]
  /\ Save(r)

Raise(p, e) == err' = [err EXCEPT ![p] = e]

\* What a worker step never touches.
NotWorks == <<req, job, faults>>

-----------------------------------------------------------------------------
(* Before the lock.                                                        *)

\* store.get: a job without a record throws outside every try block.
Load(p) ==
  /\ Step(p, "load", IF store = NoRecord THEN "report" ELSE "check")
  /\ rec' = [rec EXCEPT ![p] = store]
  /\ Raise(p, IF store = NoRecord THEN "retryable" ELSE "none")
  /\ UNCHANGED <<NotWorks, storeVars, moneyVars, dlq>>

\* Mutant: processJob does not look at the idempotency record.
CheckNothing(p) ==
  /\ Step(p, "check", "lock")
  /\ UNCHANGED <<NotWorks, storeVars, moneyVars, dlq, rec, err>>

\* A finalized payment is skipped: the job completes.
CheckFinalized(p) ==
  /\ Step(p, "check", IF Finalized(idem) THEN "report" ELSE "lock")
  /\ UNCHANGED <<NotWorks, storeVars, moneyVars, dlq, rec, err>>

\* A payment whose lock is held is skipped too: the job completes.
AcquireLock(p) ==
  /\ \/ LockFree /\ TakeLock /\ Step(p, "lock", "lease")
     \/ ~LockFree /\ UNCHANGED lock /\ Step(p, "lock", "report")
  /\ UNCHANGED <<NotWorks, store, idem, moneyVars, dlq, rec, err>>

\* acquireExecutionLock rewrites the idempotency record as PROCESSING.
WriteLease(p) ==
  /\ Step(p, "lease", "start")
  /\ RenewLease
  /\ UNCHANGED <<NotWorks, store, lock, moneyVars, dlq, rec, err>>

-----------------------------------------------------------------------------
(* The saga: reserve, charge, settle, with their compensations.            *)

StartAttempt(p) ==
  /\ Step(p, "start", "reserve")
  /\ SaveRecord(p, transitionToProcessing(rec[p]))
  /\ UNCHANGED <<NotWorks, idem, lock, moneyVars, dlq, err>>

Reserve(p) ==
  /\ Step(p, "reserve", "charge")
  /\ SaveRecord(p, [rec[p] EXCEPT !.sagaState = "reserved"])
  /\ UNCHANGED <<NotWorks, idem, lock, moneyVars, dlq, err>>

\* guard.call: the gateway charges the customer, or the call is refused by the
\* gateway, the rate limiter or the breaker with a retryable or a permanent
\* error. A charge is not deduplicated by the gateway.
Charge(p) ==
  /\ \/ /\ Step(p, "charge", "recordCharge")
        /\ charges' = charges + 1
        /\ UNCHANGED err
     \/ \E e \in {"retryable", "permanent"} :
          /\ Step(p, "charge", "recordFailure")
          /\ Raise(p, e)
          /\ UNCHANGED charges
  /\ UNCHANGED <<NotWorks, storeVars, refunds, unrefunded, ledger, dlq, rec>>

RecordCharge(p) ==
  /\ Step(p, "recordCharge", "settle")
  /\ SaveRecord(p, [rec[p] EXCEPT !.sagaState = "charged"])
  /\ UNCHANGED <<NotWorks, idem, lock, moneyVars, dlq, err>>

\* A failed charge releases the reservation and saves; sagaState stays.
RecordFailure(p) ==
  /\ Step(p, "recordFailure",
          IF err[p] = "retryable" THEN "recordRetry" ELSE "dlLoad")
  /\ SaveRecord(p, rec[p])
  /\ UNCHANGED <<NotWorks, idem, lock, moneyVars, dlq, err>>

\* Mutant: an error of ledger.settle is swallowed.
SettleSwallows(p) ==
  /\ Step(p, "settle", "complete")
  /\ ledger' \in {ledger, ledger + 1}
  /\ UNCHANGED <<NotWorks, storeVars, charges, refunds, unrefunded, dlq, rec, err>>

\* ledger.settle appends an entry or throws.
Settle(p) ==
  /\ \/ /\ Step(p, "settle", "complete")
        /\ settle
        /\ UNCHANGED err
     \/ /\ Step(p, "settle", "refund")
        /\ Raise(p, "permanent")   \* SETTLE_FAILED is not in RETRYABLE_CODES
        /\ UNCHANGED ledger
  /\ UNCHANGED <<NotWorks, storeVars, charges, refunds, unrefunded, dlq, rec>>

\* Mutant: a refused refund raises no alert.
RefundSilently(p) ==
  /\ Step(p, "refund", "recordCompensation")
  /\ refunds' \in {refunds, refunds + 1}
  /\ UNCHANGED <<NotWorks, storeVars, charges, unrefunded, ledger, dlq, rec, err>>

\* refundCharge: a refused refund raises an alert and is otherwise swallowed.
RefundCharge(p) ==
  /\ Step(p, "refund", "recordCompensation")
  /\ refund
  /\ UNCHANGED <<NotWorks, storeVars, charges, ledger, dlq, rec, err>>

RecordCompensation(p) ==
  /\ Step(p, "recordCompensation", "dlLoad")
  /\ SaveRecord(p, [rec[p] EXCEPT !.sagaState = "compensated"])
  /\ UNCHANGED <<NotWorks, idem, lock, moneyVars, dlq, err>>

\* The saga returned: the completed record is saved before it is finalized.
SaveCompleted(p) ==
  /\ Step(p, "complete", "finalize")
  /\ SaveRecord(p, transitionToCompleted([rec[p] EXCEPT !.sagaState = "settled"]))
  /\ UNCHANGED <<NotWorks, idem, lock, moneyVars, dlq, err>>

FinalizeCompleted(p) ==
  /\ Step(p, "finalize", "release")
  /\ finalize("COMPLETED")
  /\ UNCHANGED <<NotWorks, store, lock, moneyVars, dlq, rec, err>>

\* A transient failure is noted in the history, saved, and rethrown.
RecordRetry(p) ==
  /\ Step(p, "recordRetry", "release")
  /\ SaveRecord(p, rec[p])
  /\ UNCHANGED <<NotWorks, idem, lock, moneyVars, dlq, err>>

-----------------------------------------------------------------------------
(* finalizeDeadLetter, in a worker (inside its try) or in the handler.     *)

\* Where finalizeDeadLetter returns to: the finally block, or nowhere.
AfterDeadLetter(p) == IF p = FailureHandler THEN "idle" ELSE "release"

LoadLatest(p) ==
  /\ Step(p, "dlLoad",
          IF store.status \in TerminalStatus THEN AfterDeadLetter(p) ELSE "dlSave")
  /\ rec' = [rec EXCEPT ![p] = IF store = NoRecord THEN rec[p] ELSE store]
  /\ UNCHANGED <<NotWorks, storeVars, moneyVars, dlq, err>>

\* Mutant: the dead_letter status is set in memory and not saved.
ForgetDeadLetter(p) ==
  /\ Step(p, "dlSave", "dlFinalize")
  /\ rec' = [rec EXCEPT ![p] = transitionToDeadLetter(rec[p])]
  /\ UNCHANGED <<NotWorks, storeVars, moneyVars, dlq, err>>

SaveDeadLetter(p) ==
  /\ Step(p, "dlSave", "dlFinalize")
  /\ SaveRecord(p, transitionToDeadLetter(rec[p]))
  /\ UNCHANGED <<NotWorks, idem, lock, moneyVars, dlq, err>>

\* Mutant: finalizeDeadLetter returns before it routes to the DLQ.
FinalizeWithoutRoute(p) ==
  /\ Step(p, "dlFinalize", AfterDeadLetter(p))
  /\ finalize("FAILED")
  /\ UNCHANGED <<NotWorks, store, lock, moneyVars, dlq, rec, err>>

FinalizeFailed(p) ==
  /\ Step(p, "dlFinalize", "dlRoute")
  /\ finalize("FAILED")
  /\ UNCHANGED <<NotWorks, store, lock, moneyVars, dlq, rec, err>>

RouteToDlq(p) ==
  /\ Step(p, "dlRoute", AfterDeadLetter(p))
  /\ routeToDlq
  /\ UNCHANGED <<NotWorks, storeVars, moneyVars, rec, err>>

\* handleJobFailure: nothing to do without a record or after a terminal state.
HandleFailure(p) ==
  /\ Step(p, "handle",
          IF store = NoRecord \/ store.status \in TerminalStatus THEN "idle" ELSE "dlLoad")
  /\ rec' = [rec EXCEPT ![p] = store]
  /\ UNCHANGED <<NotWorks, storeVars, moneyVars, dlq, err>>

\* The finally block: DEL the lock, whoever holds it by now.
ReleaseLock(p) ==
  /\ Step(p, "release", "report")
  /\ releaseExecutionLock
  /\ UNCHANGED <<NotWorks, store, idem, moneyVars, dlq, rec, err>>

ProcessStep(p) ==
  \/ Load(p) \/ CheckFinalized(p) \/ AcquireLock(p) \/ WriteLease(p)
  \/ StartAttempt(p) \/ Reserve(p) \/ Charge(p) \/ RecordCharge(p)
  \/ RecordFailure(p) \/ Settle(p) \/ RefundCharge(p) \/ RecordCompensation(p)
  \/ SaveCompleted(p) \/ FinalizeCompleted(p) \/ RecordRetry(p)
  \/ LoadLatest(p) \/ SaveDeadLetter(p) \/ FinalizeFailed(p) \/ RouteToDlq(p)
  \/ HandleFailure(p) \/ ReleaseLock(p)
=============================================================================
