-------------------------- MODULE PaymentInvariants --------------------------
(***************************************************************************)
(* The inductive invariants behind the theorems of PaymentProofs.          *)
(***************************************************************************)
EXTENDS PaymentSystem

\* TypeOK alone is not inductive: an attempt is only made within the budget.
TypeInv ==
  /\ TypeOK
  /\ job.state \in {"waiting", "active"} => job.attemptsMade < MaxAttempts

-----------------------------------------------------------------------------
\* The failure handler runs finalizeDeadLetter and nothing that needs the lock,
\* and no worker runs the handler.
HandlerInv ==
  /\ pc[FailureHandler] \in {"idle", "handle"} \cup InDeadLetter
  /\ \A w \in Workers : pc[w] # "handle"

\* A worker between SET NX and DEL holds the lock, so a second SET NX fails.
LockInv ==
  /\ HandlerInv
  /\ \A w \in Workers : Executing(w) => ~LockFree
  /\ ExecutionMutex

-----------------------------------------------------------------------------
\* Whoever is about to report completion has an entry in the ledger.
SettledInv ==
  /\ CompletedIsSettled
  /\ \A p \in Procs :
       pc[p] \in {"complete", "finalize"} \/ rec[p].status = "completed" => ledger >= 1

-----------------------------------------------------------------------------
(* One charge, when submissions do not overlap, jobs are not handed over   *)
(* and no TTL elapses.                                                     *)

OneSubmission ==
  \A s, t \in Submitters : Submitting(s) /\ Submitting(t) => s = t

\* The job says who works: its owner while active, the handler once failed.
JobInv ==
  /\ \A w \in Workers : pc[w] # "idle" => Owns(w)
  /\ pc[FailureHandler] # "idle" => job.state = "failed"

\* The payment has not been worked on yet.
Untouched == job.state = "none" /\ charges = 0 /\ LockFree

\* Whenever a submission may (re)create the payment, it is untouched.
SubmitInv ==
  /\ OneSubmission
  /\ idem = "none" \/ store = NoRecord => Untouched
  /\ \A s \in Submitters :
       /\ req[s] \in {"release", "save", "enqueue", "undo"} => Untouched
       /\ req[s] \in {"save", "enqueue", "undo"} => idem = "PROCESSING"
       /\ req[s] \in {"enqueue", "undo"} => store # NoRecord

\* After its first save, and until its last one, a worker's record and the
\* store agree that the payment is processing.
InAttempt == {"reserve", "charge", "recordCharge", "recordFailure", "recordRetry",
              "settle", "refund", "recordCompensation", "complete", "dlLoad", "dlSave"}

AttemptInv ==
  \A w \in Workers : pc[w] \in InAttempt =>
    store.status = "processing" /\ rec[w].status = "processing"

\* A charged payment is finalized or locked, and stays so for whoever has
\* already passed the check of the idempotency record.
BeforeCharge == {"lease", "start", "reserve", "charge", "recordFailure", "recordRetry"}

ChargeInv ==
  /\ AtMostOneCharge
  /\ charges = 0 \/ Finalized(idem) \/ ~LockFree
  /\ \A w \in Workers :
       /\ pc[w] \in BeforeCharge => charges = 0
       /\ pc[w] = "lock" => charges = 0 \/ ~LockFree
       /\ pc[w] = "dlRoute" => Finalized(idem)
       /\ pc[w] = "release" => charges = 0 \/ Finalized(idem)

OneChargeInv == LockInv /\ JobInv /\ SubmitInv /\ AttemptInv /\ ChargeInv
=============================================================================
