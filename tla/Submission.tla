----------------------------- MODULE Submission -----------------------------
(***************************************************************************)
(* PaymentService.submit: the idempotency claim with its stale-lease       *)
(* recovery, the answers 409/replayed/404, and the persist-then-enqueue    *)
(* path with its undo.                                                     *)
(***************************************************************************)
EXTENDS PaymentState

\* The awaits a submission can be stopped at, and the answers it can end with.
SubmitStep == {"claim", "claimGet", "checkRecord", "release", "reclaim",
               "reclaimGet", "replay", "save", "enqueue", "undo"}
Answer == {"created", "replayed", "conflict", "notFound", "rejected", "crashed"}
ReqState == {"idle"} \cup SubmitStep \cup Answer

Submitting(s) == req[s] \in SubmitStep

\* Move submission s from one await to the next; nothing else changes in req.
Go(s, from, to) ==
  /\ req[s] = from
  /\ req' = [req EXCEPT ![s] = to]

NotSubmits == <<moneyVars, procVars, faults, lock, dlq>>

-----------------------------------------------------------------------------
\* A client calls the endpoint. Unless submissions may overlap, it does so
\* only when every earlier call was answered (or died).
BeginSubmit(s) ==
  /\ "overlap" \in Env \/ \A t \in Submitters : ~Submitting(t)
  /\ Go(s, "idle", "claim")
  /\ UNCHANGED <<NotSubmits, store, idem, job>>

\* The first idempotency.claim: SET NX.
Claim(s) ==
  /\ \/ /\ ClaimWins
        /\ Go(s, "claim", "save")
        /\ ClaimLease
     \/ /\ ~ClaimWins
        /\ Go(s, "claim", "claimGet")
        /\ UNCHANGED idem
  /\ UNCHANGED <<NotSubmits, store, job>>

\* The GET that tells a conflict from a finalized payment.
ClaimGet(s) ==
  /\ Go(s, "claimGet", IF ClaimConflicts THEN "checkRecord" ELSE "replay")
  /\ UNCHANGED <<NotSubmits, store, idem, job>>

\* A conflict whose payment has a record is answered 409; one whose payment
\* has none is taken for the lease of a submission that crashed.
CheckRecord(s) ==
  /\ Go(s, "checkRecord", IF store = NoRecord THEN "release" ELSE "conflict")
  /\ UNCHANGED <<NotSubmits, store, idem, job>>

\* Stale-lease recovery: drop the lease, whoever holds it, and claim again.
Release(s) ==
  /\ Go(s, "release", "reclaim")
  /\ ReleaseLease
  /\ UNCHANGED <<NotSubmits, store, job>>

Reclaim(s) ==
  /\ \/ /\ ClaimWins
        /\ Go(s, "reclaim", "save")
        /\ ClaimLease
     \/ /\ ~ClaimWins
        /\ Go(s, "reclaim", "reclaimGet")
        /\ UNCHANGED idem
  /\ UNCHANGED <<NotSubmits, store, job>>

\* The second claim is not recovered again: a conflict is a 409.
ReclaimGet(s) ==
  /\ Go(s, "reclaimGet", IF ClaimConflicts THEN "conflict" ELSE "replay")
  /\ UNCHANGED <<NotSubmits, store, idem, job>>

\* A finalized payment is answered with its stored record, 404 without one.
Replay(s) ==
  /\ Go(s, "replay", IF store = NoRecord THEN "notFound" ELSE "replayed")
  /\ UNCHANGED <<NotSubmits, store, idem, job>>

\* The claim was won: a fresh record replaces whatever the store holds.
SaveQueued(s) ==
  /\ Go(s, "save", "enqueue")
  /\ Save(createPaymentRecord)
  /\ UNCHANGED <<NotSubmits, idem, job>>

\* queueManager.enqueue adds the job or throws.
Enqueue(s) ==
  /\ \/ Go(s, "enqueue", "created") /\ AddJob
     \/ Go(s, "enqueue", "undo") /\ UNCHANGED job
  /\ UNCHANGED <<NotSubmits, store, idem>>

\* After a failed enqueue the claim is dropped and the call answered 400.
UndoClaim(s) ==
  /\ Go(s, "undo", "rejected")
  /\ ReleaseLease
  /\ UNCHANGED <<NotSubmits, store, job>>

\* The process dies in the middle of the call.
SubmitCrash(s) ==
  /\ "submitCrash" \in Env
  /\ Submitting(s)
  /\ req' = [req EXCEPT ![s] = "crashed"]
  /\ UNCHANGED <<NotSubmits, store, idem, job>>

\* What the process itself does once the call has begun.
SubmitStepOf(s) ==
  \/ Claim(s) \/ ClaimGet(s) \/ CheckRecord(s) \/ Release(s) \/ Reclaim(s)
  \/ ReclaimGet(s) \/ Replay(s) \/ SaveQueued(s) \/ Enqueue(s) \/ UndoClaim(s)
=============================================================================
