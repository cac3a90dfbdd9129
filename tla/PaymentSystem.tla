---------------------------- MODULE PaymentSystem ----------------------------
(***************************************************************************)
(* Submissions, workers, the BullMQ job that connects them, the TTLs that  *)
(* elapse and the crashes: the whole life of one payment id.               *)
(***************************************************************************)
EXTENDS Submission, Execution

Init ==
  /\ store = NoRecord /\ idem = "none" /\ lock = "free"
  /\ job = NoJob /\ dlq = FALSE
  /\ req = [s \in Submitters |-> "idle"]
  /\ pc = [p \in Procs |-> "idle"]
  /\ rec = [p \in Procs |-> NoRecord]
  /\ err = [p \in Procs |-> "none"]
  /\ charges = 0 /\ refunds = 0 /\ unrefunded = 0 /\ ledger = 0
  /\ faults = 0

-----------------------------------------------------------------------------
(* BullMQ and the 'failed' listener of QueueManager.scaleWorkers.          *)

Owns(w) == job.state = "active" /\ job.owner = w

\* Worker w forgets the job it worked on.
Forget(w) ==
  /\ rec' = [rec EXCEPT ![w] = NoRecord]
  /\ err' = [err EXCEPT ![w] = "none"]

NotQueue == <<storeVars, moneyVars, dlq, req>>

\* A free worker fetches the job: it was waiting, or delayed and is now due.
TakeJob(w) ==
  /\ job.state = "waiting"
  /\ Step(w, "idle", "load")
  /\ job' = [job EXCEPT !.state = "active", !.owner = w]
  /\ UNCHANGED <<NotQueue, rec, err, faults>>

\* The processor returned: the job is completed and removed.
JobCompletes(w) ==
  /\ Owns(w) /\ err[w] # "retryable"
  /\ Step(w, "report", "idle")
  /\ job' = NoJob
  /\ Forget(w)
  /\ UNCHANGED <<NotQueue, faults>>

\* Mutant: one attempt too many.
JobFailsLate(w) ==
  LET exhausted == job.attemptsMade + 1 > MaxAttempts
  IN  /\ Owns(w) /\ err[w] = "retryable"
      /\ pc[w] = "report"
      /\ pc' = [pc EXCEPT ![w] = "idle",
                          ![FailureHandler] = IF exhausted THEN "handle" ELSE @]
      /\ job' = [state |-> IF exhausted THEN "failed" ELSE "waiting",
                 attemptsMade |-> job.attemptsMade + 1, owner |-> NoWorker]
      /\ Forget(w)
      /\ UNCHANGED <<NotQueue, faults>>

\* Mutant: the 'failed' listener judges by the attempts before this one.
JobFailsUnheard(w) ==
  /\ Owns(w) /\ err[w] = "retryable"
  /\ Step(w, "report", "idle")
  /\ job' = [state |-> IF job.attemptsMade + 1 >= MaxAttempts
                         THEN "failed" ELSE "waiting",
             attemptsMade |-> job.attemptsMade + 1, owner |-> NoWorker]
  /\ Forget(w)
  /\ UNCHANGED <<NotQueue, faults>>

\* The processor threw: the job is retried after its backoff, and when the
\* attempts are exhausted it stays failed and the failure handler is started.
JobFails(w) ==
  LET exhausted == job.attemptsMade + 1 >= MaxAttempts
  IN  /\ Owns(w) /\ err[w] = "retryable"
      /\ pc[w] = "report"
      /\ pc' = [pc EXCEPT ![w] = "idle",
                          ![FailureHandler] = IF exhausted THEN "handle" ELSE @]
      /\ job' = [state |-> IF exhausted THEN "failed" ELSE "waiting",
                 attemptsMade |-> job.attemptsMade + 1, owner |-> NoWorker]
      /\ Forget(w)
      /\ UNCHANGED <<NotQueue, faults>>

\* The worker's job was handed to another one: BullMQ refuses its result.
JobLost(w) ==
  /\ ~Owns(w)
  /\ Step(w, "report", "idle")
  /\ Forget(w)
  /\ UNCHANGED <<NotQueue, job, faults>>

\* The stalled-job check puts the job of a dead worker back.
RecoverStalled ==
  /\ job.state = "active" /\ pc[job.owner] = "idle"
  /\ job' = [job EXCEPT !.state = "waiting", !.owner = NoWorker]
  /\ UNCHANGED <<NotQueue, procVars, faults>>

\* It also puts back the job of a worker that only failed to renew its BullMQ
\* job lock in time (a blocked event loop) and is still working on it.
HandOffStalled ==
  /\ "stall" \in Env /\ faults < MaxFaults
  /\ job.state = "active" /\ pc[job.owner] # "idle"
  /\ job' = [job EXCEPT !.state = "waiting", !.owner = NoWorker]
  /\ faults' = faults + 1
  /\ UNCHANGED <<NotQueue, procVars>>

-----------------------------------------------------------------------------
(* Crashes and TTLs.                                                       *)

WorkerCrash(p) ==
  /\ "workerCrash" \in Env /\ faults < MaxFaults
  /\ pc[p] # "idle"
  /\ pc' = [pc EXCEPT ![p] = "idle"]
  /\ Forget(p)
  /\ faults' = faults + 1
  /\ UNCHANGED <<NotQueue, job>>

\* The lease and the lock live for minutes. Redis commands and the code between
\* them do not take that long; a gateway call, which has no timeout, and a job
\* that waits for its delay, its backoff or a crashed worker may.
MinutesPass ==
  /\ \A s \in Submitters : ~Submitting(s)
  /\ \A p \in Procs : pc[p] \in {"idle", "charge", "refund"}

\* The retention lasts a day: by then nobody is in the middle of anything.
DayPasses == MinutesPass /\ \A p \in Procs : pc[p] = "idle"

LeaseExpires ==
  /\ "leaseExpiry" \in Env /\ MinutesPass
  /\ idem = "PROCESSING"
  /\ idem' = "none"
  /\ UNCHANGED <<store, lock, queueVars, moneyVars, procVars, req, faults>>

LockExpires ==
  /\ "lockExpiry" \in Env /\ MinutesPass
  /\ ~LockFree
  /\ releaseExecutionLock
  /\ UNCHANGED <<store, idem, queueVars, moneyVars, procVars, req, faults>>

RetentionExpires ==
  /\ "retention" \in Env /\ DayPasses
  /\ Finalized(idem)
  /\ idem' = "none"
  /\ UNCHANGED <<store, lock, queueVars, moneyVars, procVars, req, faults>>

-----------------------------------------------------------------------------
JobStep(w) == TakeJob(w) \/ JobCompletes(w) \/ JobFails(w) \/ JobLost(w)

\* Nothing is left to do: every call was answered and no job is pending.
Finished ==
  /\ \A s \in Submitters : req[s] \in Answer
  /\ \A p \in Procs : pc[p] = "idle"
  /\ job.state \in {"none", "failed"}
  /\ UNCHANGED vars

Next ==
  \/ \E s \in Submitters : BeginSubmit(s) \/ SubmitStepOf(s) \/ SubmitCrash(s)
  \/ \E p \in Procs : ProcessStep(p) \/ WorkerCrash(p)
  \/ \E w \in Workers : JobStep(w)
  \/ RecoverStalled \/ HandOffStalled
  \/ LeaseExpires \/ LockExpires \/ RetentionExpires
  \/ Finished

Spec == Init /\ [][Next]_vars

\* The event loop runs every started call and job to its end, BullMQ delivers
\* a due job to a free worker, its stalled check runs, and TTLs elapse.
Fairness ==
  /\ \A s \in Submitters : WF_vars(SubmitStepOf(s))
  /\ \A p \in Procs : WF_vars(ProcessStep(p))
  /\ \A w \in Workers : WF_vars(JobStep(w))
  /\ WF_vars(RecoverStalled)
  /\ WF_vars(LeaseExpires) /\ WF_vars(LockExpires)

FairSpec == Spec /\ Fairness

-----------------------------------------------------------------------------
(* Properties.                                                             *)

TypeOK ==
  /\ store \in PaymentRecord /\ idem \in IdemState /\ lock \in {"free", "held"}
  /\ job \in Job /\ dlq \in BOOLEAN
  /\ req \in [Submitters -> ReqState]
  /\ pc \in [Procs -> ProcState]
  /\ rec \in [Procs -> PaymentRecord]
  /\ err \in [Procs -> ErrState]
  /\ charges \in Nat /\ refunds \in Nat /\ unrefunded \in Nat /\ ledger \in Nat
  /\ faults \in 0..MaxFaults

\* Between its SET NX and its DEL of the lock.
Executing(w) == pc[w] \in InSaga \cup InDeadLetter \cup {"release"}

\* At most one worker is between acquireExecutionLock and
\* releaseExecutionLock, however jobs are handed over and submissions overlap.
ExecutionMutex ==
  \A v, w \in Workers : Executing(v) /\ Executing(w) => v = w

\* The customer is charged at most once for a payment id.
AtMostOneCharge == charges <= 1

\* A charge that the saga has made and neither settled nor compensated yet.
Pending == {p \in Procs : pc[p] \in {"recordCharge", "settle", "refund"}}

\* The charges a crashed worker may have taken with it.
LostCharges == IF "workerCrash" \in Env THEN faults ELSE 0

\* No charge is forgotten: each is settled, refunded, reported as unrefunded,
\* or still in the hands of the worker that made it, save the one that a worker
\* dies with.
ChargesAccounted ==
  charges - (ledger + refunds + unrefunded + Cardinality(Pending)) \in 0 .. LostCharges

\* Nothing is reported completed, neither by the stored record nor by the
\* idempotency record, unless it was settled in the ledger.
CompletedIsSettled ==
  store.status = "completed" \/ idem = "COMPLETED" => ledger >= 1

\* The idempotency record never contradicts the money: COMPLETED stands for a
\* settled payment with a completed record, FAILED for a dead letter that kept
\* no settled charge.
FinalizedIsTrue ==
  /\ idem = "COMPLETED" => store.status = "completed" /\ ledger = 1
  /\ idem = "FAILED" => store.status = "dead_letter" /\ ledger = 0

\* "saga compensation leaves no half-executed financial flow": a payment whose
\* record says compensated has had its charge refunded.
CompensatedIsRefunded == store.sagaState = "compensated" => refunds = charges

\* A terminal record is never rewritten.
TerminalIsStable ==
  [][store.status \in TerminalStatus => store' = store]_vars

\* A submission is answered 409 only when the payment has a record to show,
\* and replayed only with a terminal one.
AnswersAreTrue ==
  [][\A s \in Submitters :
       /\ req[s] # "conflict" /\ req'[s] = "conflict" => store # NoRecord
       /\ req'[s] # "notFound"
       /\ req[s] # "replayed" /\ req'[s] = "replayed" =>
            store.status \in TerminalStatus]_vars

\* A submission accepted with 201 is followed by a completed or dead-lettered
\* record: no acceptance is stranded in queued or processing.
AcceptedIsResolved ==
  \A s \in Submitters :
    <>(req[s] = "created") =>
      <>(req[s] = "created" /\ store.status \in TerminalStatus)

\* Every dead-lettered payment eventually shows up in the DLQ.
DeadLetterIsRouted == store.status = "dead_letter" ~> dlq
=============================================================================
