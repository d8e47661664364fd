--------------------------- MODULE GenerationJobs ---------------------------
(***************************************************************************)
(* An asynchronous generation job (a video or an image made by a provider *)
(* over minutes) from the moment its request is attached to its terminal  *)
(* state: the generation_jobs row with its worker lease, the workers that *)
(* claim it, submit it, poll it and cancel it, the customer's             *)
(* cancellation, the quarantine of a submission whose outcome is unknown, *)
(* and the operator who resolves it.                                      *)
(*                                                                         *)
(* Jobs share only balances, so one job is modelled.  Every method of the *)
(* database is one transaction or one statement and so one action; a      *)
(* worker acts on the copy of the row it claimed.  A job passes           *)
(* mark_generation_submitting at most once, so submission_nonce is set    *)
(* exactly while the status is "submitting" and is not modelled apart.    *)
(* No code outside the tests writes staged_assets_json any more, so the   *)
(* manifest of staged assets is left out.  Retry delays are left out:     *)
(* a claim may come at any later time.                                    *)
(***************************************************************************)
EXTENDS Integers

CONSTANTS Workers,       \* worker ids
          NoWorker,
          Drivers,       \* provider adapters a job may have been admitted with
          MaxFailures,   \* MAX_FAILURES
          MaxDrops,      \* bound: attempts dropped by a crash or a shutdown
          MaxLapses      \* bound: leases that lapse under a stalled worker

ASSUME JobAssumption ==
    /\ NoWorker \notin Workers
    /\ Drivers \subseteq [provable : BOOLEAN, resubmits : BOOLEAN,
                          cancels : BOOLEAN, receipts : BOOLEAN]
    /\ MaxFailures \in Nat \ {0} /\ MaxDrops \in Nat /\ MaxLapses \in Nat

VARIABLES
    driver,     \* what the provider's adapter guarantees
    job,        \* the generation_jobs row with its usage_reservations row
    worker,     \* each worker's program counter, claimed copy and result
    overdue,    \* the job's deadline has passed
    viewed,     \* the operator has read the quarantined row as it is now
    provider,   \* the provider's task
    post,       \* the last submission POST
    posts,      \* how many were sent
    drops, lapses

vars == <<driver, job, worker, overdue, viewed, provider, post, posts, drops,
          lapses>>

Live == {"queued", "submitting", "running", "cancelling"}
Terminal == {"succeeded", "failed", "cancelled"}
Results == {"none", "success", "undeliverable", "exceeds_contract",
            "provider_failed", "rejected", "timeout", "outcome_unknown",
            "retry_exhausted", "cancelled"}
Steps == {"idle", "claimed", "marking", "arming", "armed", "sent", "acked",
          "polling", "recording", "finishing", "rescheduling", "cancelling",
          "error", "failing"}

JobType == [status : Live \cup Terminal,
            owner : Workers \cup {NoWorker},
            lease : {"none", "live", "expired"},
            failures : 0..MaxFailures,
            quarantined : BOOLEAN,        \* error_code shutdown_delivery_unknown
            upstream : BOOLEAN,           \* upstream_job_id is known
            receipt : {"none", "SUCCESS", "FAILURE"},
            billed : BOOLEAN,             \* billed_units > 0
            settlements : Nat]            \* times its reservation was settled
Snapshots == [status : Live \cup {"none"}, failures : 0..MaxFailures]
NoSnapshot == [status |-> "none", failures |-> 0]
Idle == [pc |-> "idle", snap |-> NoSnapshot, result |-> "none"]

\* The row as attach_generation_job_request_staged leaves it.
Attached == [status |-> "queued", owner |-> NoWorker, lease |-> "none",
             failures |-> 0, quarantined |-> FALSE, upstream |-> FALSE,
             receipt |-> "none", billed |-> FALSE, settlements |-> 0]

Init ==
    /\ driver \in Drivers
    /\ job = Attached
    /\ worker = [w \in Workers |-> Idle]
    /\ overdue = FALSE
    /\ viewed = FALSE
    /\ provider = "none" /\ post = "none" /\ posts = 0
    /\ drops = 0 /\ lapses = 0

Released(row) == [row EXCEPT !.owner = NoWorker, !.lease = "none"]
Goto(w, pc) == worker' = [worker EXCEPT ![w].pc = pc]
Fail(w) == worker' = [worker EXCEPT ![w].pc = "error", ![w].result = "none"]
Conclude(w, result) ==
    worker' = [worker EXCEPT ![w].pc = "finishing", ![w].result = result]
Rest(w) == worker' = [worker EXCEPT ![w] = Idle]
Owns(w) == job.owner = w
\* A transaction that commits may still look failed to its worker: the
\* acknowledgement is lost and the attempt ends in an error.
Committed(w, pc) == Goto(w, pc) \/ Fail(w)

\* The operator's revision covers every change of the row.
Revised == viewed' = (viewed /\ job' = job)

external == <<provider, post, posts>>
bounds == <<drops, lapses>>

-----------------------------------------------------------------------------
(* The worker: claim, dispatch, submit.                                    *)

ClaimedCopy(w) ==
    [pc |-> "claimed", result |-> "none",
     snap |-> [status |-> job.status, failures |-> job.failures]]

\* Mutant: the quarantine does not keep a row from being claimed.
ClaimQuarantined(w) ==
    /\ worker[w].pc = "idle"
    /\ job.status \in Live
    /\ job.lease # "live"
    /\ job' = [job EXCEPT !.owner = w, !.lease = "live"]
    /\ worker' = [worker EXCEPT ![w] = ClaimedCopy(w)]
    /\ UNCHANGED <<driver, overdue, external, bounds>> /\ Revised

claim_generation_job(w) ==
    /\ worker[w].pc = "idle"
    /\ job.status \in Live
    /\ ~job.quarantined
    /\ job.lease # "live"
    /\ job' = [job EXCEPT !.owner = w, !.lease = "live"]
    /\ worker' = [worker EXCEPT ![w] = ClaimedCopy(w)]
    /\ UNCHANGED <<driver, overdue, external, bounds>> /\ Revised

\* Mutant: the deadline is not looked at.
ProcessWithoutDeadline(w) ==
    /\ worker[w].pc = "claimed"
    /\ \/ Fail(w)
       \/ worker[w].snap.status = "submitting" /\ Conclude(w, "outcome_unknown")
       \/ worker[w].snap.status = "cancelling" /\ Goto(w, "cancelling")
       \/ worker[w].snap.status = "queued" /\ Goto(w, "marking")
       \/ worker[w].snap.status = "running" /\ Goto(w, "polling")
    /\ UNCHANGED <<driver, job, overdue, external, bounds, viewed>>

\* The first disjunct: the routing snapshot, the account or its credential
\* cannot be loaded, or the account refuses admission.
process_claimed(w) ==
    LET snap == worker[w].snap
        timed == snap.status # "cancelling" /\ overdue
        unproved == snap.status = "submitting" /\ ~driver.provable
    IN
    /\ worker[w].pc = "claimed"
    /\ \/ Fail(w)
       \/ timed /\ Conclude(w, "timeout")
       \/ ~timed /\ unproved /\ Conclude(w, "outcome_unknown")
       \/ ~timed /\ snap.status = "cancelling" /\ Goto(w, "cancelling")
       \/ ~timed /\ snap.status = "queued" /\ Goto(w, "marking")
       \/ /\ ~timed /\ ~unproved /\ snap.status = "submitting"
          /\ IF driver.resubmits THEN Goto(w, "arming") ELSE Fail(w)
       \/ ~timed /\ snap.status = "running" /\ Goto(w, "polling")
    /\ UNCHANGED <<driver, job, overdue, external, bounds, viewed>>

mark_generation_submitting(w) ==
    /\ worker[w].pc = "marking"
    /\ IF Owns(w) /\ job.status = "queued" /\ ~job.upstream
       THEN /\ job' = [job EXCEPT !.status = "submitting"]
            /\ Committed(w, "arming")
       ELSE Fail(w) /\ UNCHANGED job
    /\ UNCHANGED <<driver, overdue, external, bounds>> /\ Revised

\* The request is read back and the POST is built first; that may fail.
arm_generation_shutdown_quarantine(w) ==
    /\ worker[w].pc = "arming"
    /\ \/ Fail(w) /\ UNCHANGED job
       \/ /\ Owns(w) /\ job.status = "submitting" /\ ~job.upstream
          /\ job.lease = "live"
          /\ job' = [job EXCEPT !.quarantined = TRUE]
          /\ Committed(w, "armed")
    /\ UNCHANGED <<driver, overdue, external, bounds>> /\ Revised

Send(w) ==
    /\ worker[w].pc = "armed"
    /\ Goto(w, "sent")
    /\ post' = "wire" /\ posts' = posts + 1
    /\ UNCHANGED <<driver, job, overdue, provider, bounds, viewed>>

\* A timeout, a broken response, a 5xx, 408, 425 or 429, and an answer
\* without a usable task id are all errors whatever the provider did.
ReceiveAnswer(w) ==
    /\ worker[w].pc = "sent"
    /\ \/ Fail(w)
       \/ post = "accepted" /\ Goto(w, "acked")
       \/ post = "rejected" /\ Conclude(w, "rejected")
    /\ UNCHANGED <<driver, job, overdue, external, bounds, viewed>>

mark_generation_submitted(w) ==
    /\ worker[w].pc = "acked"
    /\ IF Owns(w) /\ job.status = "submitting"
       THEN /\ job' = [Released(job) EXCEPT !.status = "running",
                          !.upstream = TRUE, !.failures = 0,
                          !.quarantined = FALSE]
            /\ Rest(w) \/ Fail(w)
       ELSE Fail(w) /\ UNCHANGED job
    /\ UNCHANGED <<driver, overdue, external, bounds>> /\ Revised

-----------------------------------------------------------------------------
(* The worker: poll, settle, cancel.                                       *)

\* What one poll of a completed task leads to: a result that can be
\* delivered and billed, one whose asset is missing, expired or not
\* repeatably readable, or (drivers without receipts) usage above the
\* reserved estimate.
PollResults ==
    CASE provider \in {"failed", "cancelled"} -> {"provider_failed"}
      [] provider = "succeeded" -> {"success", "undeliverable"} \cup
            (IF driver.receipts THEN {} ELSE {"exceeds_contract"})
      [] OTHER -> {}

poll(w) ==
    /\ worker[w].pc = "polling"
    /\ \/ Fail(w)
       \/ provider = "running" /\ Goto(w, "rescheduling")
       \/ \E result \in PollResults :
             worker' = [worker EXCEPT ![w].result = result,
                 ![w].pc = IF driver.receipts THEN "recording" ELSE "finishing"]
    /\ UNCHANGED <<driver, job, overdue, external, bounds, viewed>>

record_generation_provider_receipt(w) ==
    LET reported == IF worker[w].result = "provider_failed" THEN "FAILURE"
                                                            ELSE "SUCCESS"
        first == /\ job.receipt = "none" /\ Owns(w)
                 /\ job.status \in {"running", "cancelling"}
    IN
    /\ worker[w].pc = "recording"
    /\ job' = IF first THEN [job EXCEPT !.receipt = reported] ELSE job
    /\ IF first \/ job.receipt = reported THEN Goto(w, "finishing") ELSE Fail(w)
    /\ UNCHANGED <<driver, overdue, external, bounds>> /\ Revised

TerminalStatus(result) ==
    CASE result = "success" -> "succeeded"
      [] result = "cancelled" -> "cancelled"
      [] OTHER -> "failed"
Billed(result) == result \in {"success", "exceeds_contract"}

\* The row finish_generation_job_inner writes: the reservation is settled,
\* the lease and the error are cleared.
Finished(result) ==
    [Released(job) EXCEPT !.status = TerminalStatus(result),
        !.billed = Billed(result), !.quarantined = FALSE,
        !.settlements = @ + 1]

\* A token-priced success needs the matching supplier receipt.
CanFinish(w, result) ==
    /\ job.status \in Live
    /\ Owns(w)
    /\ result = "success" /\ driver.receipts => job.receipt = "SUCCESS"

\* Refused, failed before its commit, committed, or committed without an
\* acknowledgement.
finish_generation_job_inner(w) ==
    LET result == worker[w].result IN
    /\ worker[w].pc = "finishing"
    /\ \/ /\ CanFinish(w, result)
          /\ job' = Finished(result)
          /\ Rest(w) \/ Fail(w)
       \/ Fail(w) /\ UNCHANGED job
    /\ UNCHANGED <<driver, overdue, external, bounds>> /\ Revised

\* error_code is NULL for a pending poll, set after a failed attempt.
Rescheduled(failed) ==
    [Released(job) EXCEPT !.failures =
        IF ~failed THEN 0 ELSE IF @ < MaxFailures THEN @ + 1 ELSE @]

reschedule_generation_job(w) ==
    /\ worker[w].pc = "rescheduling"
    /\ IF Owns(w) /\ ~job.quarantined
       THEN job' = Rescheduled(FALSE) /\ Rest(w)
       ELSE Fail(w) /\ UNCHANGED job
    /\ UNCHANGED <<driver, overdue, external, bounds>> /\ Revised

\* Mutant: an answer that the task is unknown counts as a cancellation.
CancelOnNotFound(w) ==
    /\ worker[w].pc = "cancelling"
    /\ Conclude(w, "cancelled")
    /\ UNCHANGED <<driver, job, overdue, external, bounds, viewed>>

\* Only an explicit success of the provider's cancellation endpoint counts.
cancel_upstream_generation(w) ==
    /\ worker[w].pc = "cancelling"
    /\ \/ Fail(w) /\ UNCHANGED provider
       \/ /\ driver.cancels /\ provider \in {"running", "cancelled"}
          /\ provider' = "cancelled"
          /\ Fail(w) \/ Conclude(w, "cancelled")
    /\ UNCHANGED <<driver, job, overdue, post, posts, bounds, viewed>>

-----------------------------------------------------------------------------
(* The worker: failed attempts, heartbeats, lost workers.                  *)

\* Mutant: every failed attempt takes the generic retry path.
RetainNothing(w) ==
    /\ worker[w].pc = "error"
    /\ Goto(w, "failing")
    /\ UNCHANGED <<driver, job, overdue, external, bounds, viewed>>

retain_generation_delivery_unknown(w) ==
    /\ worker[w].pc = "error"
    /\ IF /\ Owns(w) /\ job.status = "submitting"
          /\ ~job.upstream /\ job.quarantined
       THEN job' = Released(job) /\ Rest(w)
       ELSE Goto(w, "failing") /\ UNCHANGED job
    /\ UNCHANGED <<driver, overdue, external, bounds>> /\ Revised

\* The end of process_one after a failed attempt, from the claimed copy.
FailAttempt(w) ==
    LET snap == worker[w].snap
        exhausted == /\ snap.status # "cancelling"
                     /\ snap.failures + 1 >= MaxFailures
    IN
    /\ worker[w].pc = "failing"
    /\ job' = CASE exhausted /\ job.status \in Live /\ Owns(w)
                     -> Finished("retry_exhausted")
                [] ~exhausted /\ Owns(w) /\ ~job.quarantined
                     -> Rescheduled(TRUE)
                [] OTHER -> job
    /\ Rest(w)
    /\ UNCHANGED <<driver, overdue, external, bounds>> /\ Revised

Attempting(w) == worker[w].pc \notin {"idle", "error", "failing"}

\* The heartbeat of process_claimed_with_lease; when the row is no longer
\* this worker's, the attempt is dropped without touching it.
renew_generation_lease(w) ==
    /\ Attempting(w)
    /\ IF Owns(w) /\ job.status \in Live
       THEN /\ job.lease = "expired"
            /\ job' = [job EXCEPT !.lease = "live"]
            /\ UNCHANGED worker
       ELSE Rest(w) /\ UNCHANGED job
    /\ UNCHANGED <<driver, overdue, external, bounds>> /\ Revised

\* A crash, a shutdown or a database error drops the attempt where it is.
Drop(w) ==
    /\ worker[w].pc # "idle"
    /\ drops < MaxDrops
    /\ drops' = drops + 1
    /\ Rest(w)
    /\ UNCHANGED <<driver, job, overdue, external, lapses, viewed>>

\* Nobody renews the lease of a worker that has dropped its attempt; one
\* that is still running lapses only when its process stalls.
LeaseExpires ==
    /\ job.lease = "live"
    /\ \/ worker[job.owner].pc = "idle" /\ UNCHANGED lapses
       \/ /\ worker[job.owner].pc # "idle"
          /\ lapses < MaxLapses /\ lapses' = lapses + 1
    /\ job' = [job EXCEPT !.lease = "expired"]
    /\ UNCHANGED <<driver, worker, overdue, external, drops, viewed>>

-----------------------------------------------------------------------------
(* The customer, the operator, the clock and the provider.                 *)

cancel_generation_job ==
    /\ \/ /\ job.status = "running"
          /\ job' = [Released(job) EXCEPT !.status = "cancelling",
                                          !.quarantined = FALSE]
       \/ /\ job.status = "queued" /\ job.lease # "live"
          /\ job' = Finished("cancelled")
    /\ UNCHANGED <<driver, worker, overdue, external, bounds>> /\ Revised

generation_quarantine ==
    /\ job.status = "submitting" /\ job.quarantined /\ ~job.upstream
    /\ viewed' = TRUE
    /\ UNCHANGED <<driver, job, worker, overdue, external, bounds>>

\* The operator confirms a submission with the provider's task id, so the
\* provider did accept it.  Confirmation opens a new polling window.
resolve_generation_quarantine ==
    /\ provider # "none"
    /\ job.status = "submitting" /\ job.quarantined /\ ~job.upstream
    /\ viewed
    /\ job.lease # "live"
    /\ job' = [Released(job) EXCEPT !.status = "running", !.upstream = TRUE,
                  !.failures = 0, !.quarantined = FALSE]
    /\ overdue' = FALSE
    /\ UNCHANGED <<driver, worker, external, bounds>> /\ Revised

\* MAX_JOB_AGE_MILLIS after admission, or the end of the polling window.
DeadlinePasses ==
    /\ ~overdue
    /\ overdue' = TRUE
    /\ UNCHANGED <<driver, job, worker, external, bounds, viewed>>

\* A definite 4xx answer means that the provider did not take the task.
ProviderReceives ==
    /\ post = "wire"
    /\ \/ post' = "accepted" /\ provider' = "running"
       \/ post' \in {"rejected", "lost"} /\ UNCHANGED provider
    /\ UNCHANGED <<driver, job, worker, overdue, posts, bounds, viewed>>

ProviderFinishes ==
    /\ provider = "running"
    /\ provider' \in {"succeeded", "failed"}
    /\ UNCHANGED <<driver, job, worker, overdue, post, posts, bounds, viewed>>

WorkerStep(w) ==
    \/ process_claimed(w)
    \/ mark_generation_submitting(w)
    \/ arm_generation_shutdown_quarantine(w)
    \/ Send(w)
    \/ ReceiveAnswer(w)
    \/ mark_generation_submitted(w)
    \/ poll(w)
    \/ record_generation_provider_receipt(w)
    \/ finish_generation_job_inner(w)
    \/ reschedule_generation_job(w)
    \/ cancel_upstream_generation(w)
    \/ retain_generation_delivery_unknown(w)
    \/ FailAttempt(w)

Next ==
    \/ \E w \in Workers : \/ claim_generation_job(w)
                          \/ WorkerStep(w)
                          \/ renew_generation_lease(w)
                          \/ Drop(w)
    \/ LeaseExpires
    \/ cancel_generation_job
    \/ generation_quarantine
    \/ resolve_generation_quarantine
    \/ DeadlinePasses
    \/ ProviderReceives
    \/ ProviderFinishes

Spec == Init /\ [][Next]_vars

\* Every worker process claims on a timer and every step of an attempt ends
\* (HTTP calls carry timeouts); time passes.  Nothing is assumed of the
\* provider, of the customer or of the operator.
FairSpec ==
    /\ Spec
    /\ \A w \in Workers : WF_vars(claim_generation_job(w)) /\ WF_vars(WorkerStep(w))
    /\ WF_vars(LeaseExpires) /\ WF_vars(DeadlinePasses)

-----------------------------------------------------------------------------
(* Properties.                                                             *)

\* Every variable stays in its domain, and lease_owner and lease_expires_at
\* are set and cleared together.
TypeOK ==
    /\ driver \in Drivers
    /\ job \in JobType
    /\ (job.owner = NoWorker) <=> (job.lease = "none")
    /\ worker \in [Workers -> [pc : Steps, snap : Snapshots, result : Results]]
    /\ overdue \in BOOLEAN
    /\ viewed \in BOOLEAN
    /\ provider \in {"none", "running", "succeeded", "failed", "cancelled"}
    /\ post \in {"none", "wire", "accepted", "rejected", "lost"}
    /\ posts \in Nat /\ drops \in 0..MaxDrops /\ lapses \in 0..MaxLapses

\* Whatever crashes, stalls and retries happen, the provider is sent at most
\* one submission of a job: arm_generation_shutdown_quarantine commits before
\* the POST and claim_generation_job never hands out a quarantined row.
SubmittedAtMostOnce == posts <= 1

\* A job that ends without a known provider task is refunded, so no provider
\* task may exist for it and no POST may be under way: a generic retry or
\* exhaustion never turns an unknown side effect into a refund.
NoRefundOfUnknownDelivery ==
    job.status \in Terminal /\ ~job.upstream
        => provider = "none" /\ post # "wire" /\ ~job.billed

\* What a job ends with is what the provider did: a success or any charge
\* means a completed task, a cancellation means the task was never made or
\* was cancelled, and the reservation is settled exactly at the end.  The row
\* has its shape.
TerminalMatchesProvider ==
    /\ TypeOK
    /\ job.status = "succeeded" \/ job.billed => provider = "succeeded"
    /\ job.status = "cancelled" => provider \in {"none", "cancelled"}
    /\ job.settlements = IF job.status \in Terminal THEN 1 ELSE 0

\* Every job comes to rest: settled, held in quarantine for the operator, or
\* waiting for the provider to confirm its cancellation.
EventuallyAtRest ==
    <>[](\/ job.status \in Terminal \cup {"cancelling"}
         \/ job.status = "submitting" /\ job.quarantined)

=============================================================================
