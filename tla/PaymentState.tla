---------------------------- MODULE PaymentState ----------------------------
(***************************************************************************)
(* The state one payment id has in Redis, in BullMQ, at the payment        *)
(* gateway and in the memory of the processes that work on it, with the    *)
(* operations of the two Redis services (IdempotencyService, PaymentStore) *)
(* and of the record (domain/payment.ts) that the handlers are built from. *)
(*                                                                         *)
(* Every key of the system (payment:{id}, idempotency:payment:{id},        *)
(* lock:payment:process:{id}, the BullMQ job and the DLQ entry, whose jobId *)
(* is the payment id) is per payment id, so the model follows one id.      *)
(*                                                                         *)
(* An action of the modules that extend this one is one Redis command or   *)
(* one gateway call: what JavaScript runs between two awaits is atomic,    *)
(* what lies on the two sides of an await interleaves with every other     *)
(* process.                                                                *)
(***************************************************************************)
EXTENDS Integers, FiniteSets

CONSTANTS
  Submitters,      \* calls of PaymentService.submit for this payment id
  Workers,         \* BullMQ workers (concurrency 1 each) of the gateway's queue
  FailureHandler,  \* the run of handleJobFailure that a failed job starts
  NoWorker,        \* no worker owns the job
  MaxAttempts,     \* the job's attempts option: maxRetries + 1
  MaxFaults,       \* bound on worker crashes and stalled-job handoffs: BullMQ
                   \* puts a stalled job back once (maxStalledCount)
  Env              \* which of the environment's misbehaviours may happen

\* What the environment may do to the system, besides refusing a charge, a
\* refund, a settlement or an enqueue, which it always may.
EnvFaults ==
  { "overlap",      \* submissions of the id overlap in time
    "submitCrash",  \* a process dies inside submit
    "workerCrash",  \* a process dies inside a job or its failure handler
    "stall",        \* BullMQ hands an active job to a second worker
    "leaseExpiry",  \* the TTL of a PROCESSING record elapses
    "lockExpiry",   \* the TTL of the execution lock elapses
    "retention" }   \* the 24 h TTL of a finalized record elapses

ASSUME ConstantsAssumption ==
  /\ FailureHandler \notin Workers
  /\ NoWorker \notin Workers
  /\ MaxAttempts \in 1..11
  /\ MaxFaults \in 0..1
  /\ Env \subseteq EnvFaults

VARIABLES
  store,     \* payment:{id}: the stored record, or NoRecord
  idem,      \* idempotency:payment:{id}: "none" or the record's state
  lock,      \* lock:payment:process:{id}: free, or held (its value is always '1')
  job,       \* the BullMQ job with this payment's jobId
  dlq,       \* the dead letter queue holds an entry for the payment
  req,       \* where each submission is, or how it was answered
  pc,        \* where each worker and the failure handler are
  rec,       \* the PaymentRecord object each of them has in memory
  err,       \* the error the current attempt ends with
  charges,   \* successful charges made by the gateway
  refunds,   \* charges the gateway refunded
  unrefunded,\* charges whose refund the gateway refused (a critical alert)
  ledger,    \* entries of ledger:settlements for the payment
  faults     \* crashes and handoffs so far

storeVars == <<store, idem, lock>>
queueVars == <<job, dlq>>
moneyVars == <<charges, refunds, unrefunded, ledger>>
procVars  == <<pc, rec, err>>
vars == <<storeVars, queueVars, moneyVars, procVars, req, faults>>

Procs == Workers \cup {FailureHandler}

-----------------------------------------------------------------------------
(* The payment record: its status and its saga state.                      *)

PaymentStatus == {"absent", "queued", "processing", "completed", "dead_letter"}
SagaState == {"idle", "reserved", "charged", "settled", "compensated"}
PaymentRecord == [status : PaymentStatus, sagaState : SagaState]

NoRecord == [status |-> "absent", sagaState |-> "idle"]
createPaymentRecord == [status |-> "queued", sagaState |-> "idle"]

TerminalStatus == {"completed", "dead_letter"}

transitionToProcessing(r) == [r EXCEPT !.status = "processing"]
transitionToCompleted(r) == [r EXCEPT !.status = "completed"]
transitionToDeadLetter(r) == [r EXCEPT !.status = "dead_letter"]

-----------------------------------------------------------------------------
(* IdempotencyService and PaymentStore, one operator per Redis command.    *)

IdemState == {"none", "PROCESSING", "COMPLETED", "FAILED"}
Finalized(state) == state \in {"COMPLETED", "FAILED"}

\* Mutant: the claim replaces any record that is not PROCESSING.
ClaimWinsOverFinalized == idem # "PROCESSING"

\* SET idempotency:payment:{id} PROCESSING EX lease NX, and whether it took.
ClaimWins == idem = "none"
ClaimLease == idem' = "PROCESSING"

\* Mutant: only a missing key is a conflict, PROCESSING counts as finalized.
ClaimConflictsOnlyIfGone == idem = "none"

\* What claim answers when the NX lost and the key is read afterwards: a key
\* that is gone by then is reported as a conflict too.
ClaimConflicts == ~Finalized(idem)

\* DEL idempotency:payment:{id}, whatever it holds by now.
ReleaseLease == idem' = "none"

\* Mutant: the lock is SET without NX.
LockFreeWithoutNX == TRUE

\* SET lock:payment:process:{id} '1' EX lease NX, and its unconditional DEL.
LockFree == lock = "free"
TakeLock == lock' = "held"
releaseExecutionLock == lock' = "free"

\* The rewrite of the record after the lock was taken: no NX, no check.
RenewLease == idem' = "PROCESSING"

finalize(state) == idem' = state

Save(r) == store' = r

-----------------------------------------------------------------------------
(* The BullMQ job. A job is removed when it completes (removeOnComplete)   *)
(* and kept when it fails; add is ignored while a job of that id exists.   *)

JobState == {"none", "waiting", "active", "failed"}
Job == [state : JobState, attemptsMade : 0..MaxAttempts,
        owner : Workers \cup {NoWorker}]

NoJob == [state |-> "none", attemptsMade |-> 0, owner |-> NoWorker]
NewJob == [state |-> "waiting", attemptsMade |-> 0, owner |-> NoWorker]

AddJob == job' = IF job.state = "none" THEN NewJob ELSE job

\* The entry of the dead letter queue has the payment id as its jobId too.
routeToDlq == dlq' = TRUE

-----------------------------------------------------------------------------
(* The settlement ledger and the gateway's refund endpoint.                *)

\* SettlementLedger.settle appends an entry.
settle == ledger' = ledger + 1

\* GatewayGuard.refund is not gated: the gateway refunds or refuses.
refund ==
  \/ refunds' = refunds + 1 /\ UNCHANGED unrefunded
  \/ unrefunded' = unrefunded + 1 /\ UNCHANGED refunds
=============================================================================
