------------------------ MODULE GenerationJobsProofs ------------------------
(***************************************************************************)
(* Theorems about GenerationJobs, for any workers, adapters and bounds: a  *)
(* job is submitted at most once, never refunded while its delivery is     *)
(* unknown, and ends as its provider's task did.                           *)
(***************************************************************************)
EXTENDS GenerationJobs, TLAPS

\* The row as it is written back keeps its shape.
LEMMA RowTypes ==
  ASSUME NEW row \in JobType, NEW w \in Workers
  PROVE  /\ Released(row) \in JobType
         /\ [row EXCEPT !.owner = w, !.lease = "live"] \in JobType
         /\ [row EXCEPT !.lease = "live"] \in JobType
         /\ [row EXCEPT !.lease = "expired"] \in JobType
         /\ [row EXCEPT !.quarantined = TRUE] \in JobType
         /\ [row EXCEPT !.status = "submitting"] \in JobType
         /\ [Released(row) EXCEPT !.status = "running", !.upstream = TRUE,
                !.failures = 0, !.quarantined = FALSE] \in JobType
         /\ [Released(row) EXCEPT !.status = "cancelling", !.quarantined = FALSE] \in JobType
         /\ \A x \in {"SUCCESS", "FAILURE"} : [row EXCEPT !.receipt = x] \in JobType
<1>0. 0 \in 0..MaxFailures
  BY JobAssumption
<1>1. Released(row) \in JobType
  BY DEF JobType, Released
<1>2. /\ [row EXCEPT !.owner = w, !.lease = "live"] \in JobType
      /\ [row EXCEPT !.lease = "live"] \in JobType
      /\ [row EXCEPT !.lease = "expired"] \in JobType
  BY DEF JobType
<1>3. /\ [row EXCEPT !.quarantined = TRUE] \in JobType
      /\ [row EXCEPT !.status = "submitting"] \in JobType
      /\ \A x \in {"SUCCESS", "FAILURE"} : [row EXCEPT !.receipt = x] \in JobType
  BY DEF JobType, Live
<1>4. /\ [Released(row) EXCEPT !.status = "running", !.upstream = TRUE,
             !.failures = 0, !.quarantined = FALSE] \in JobType
      /\ [Released(row) EXCEPT !.status = "cancelling", !.quarantined = FALSE] \in JobType
  BY <1>0, <1>1 DEF JobType, Live
<1> QED BY <1>1, <1>2, <1>3, <1>4

\* A finished job row is well-typed and unleased.
LEMMA FinishedType ==
  ASSUME job \in JobType, NEW result \in Results
  PROVE  /\ Finished(result) \in JobType
         /\ Finished(result).owner = NoWorker /\ Finished(result).lease = "none"
<1> DEFINE s == TerminalStatus(result)
           b == Billed(result)
           n == job.settlements + 1
<1>1. s \in Terminal /\ b \in BOOLEAN /\ n \in Nat
  BY DEF JobType, TerminalStatus, Billed, Terminal
<1>2. Finished(result) = [Released(job) EXCEPT !.status = s, !.billed = b,
                             !.quarantined = FALSE, !.settlements = n]
  BY DEF Finished, Released, JobType
<1> HIDE DEF s, b, n
<1> QED BY <1>1, <1>2 DEF JobType, Released

\* A rescheduled job row is well-typed and unleased.
LEMMA RescheduledType ==
  ASSUME job \in JobType, NEW failed \in BOOLEAN
  PROVE  /\ Rescheduled(failed) \in JobType
         /\ Rescheduled(failed).owner = NoWorker /\ Rescheduled(failed).lease = "none"
<1> DEFINE n == IF ~failed THEN 0
                ELSE IF job.failures < MaxFailures THEN job.failures + 1 ELSE job.failures
<1>1. n \in 0..MaxFailures
  BY JobAssumption DEF JobType
<1>2. Rescheduled(failed) = [Released(job) EXCEPT !.failures = n]
  BY DEF Rescheduled, Released, JobType
<1> HIDE DEF n
<1> QED BY <1>1, <1>2 DEF JobType, Released

-----------------------------------------------------------------------------
WorkerType == [pc : Steps, snap : Snapshots, result : Results]

\* The moves of a worker keep its record well-typed.
LEMMA WorkerTypes ==
  ASSUME worker \in [Workers -> WorkerType], NEW w \in Workers
  PROVE  /\ \A pc \in Steps : Goto(w, pc) => worker' \in [Workers -> WorkerType]
         /\ Fail(w) => worker' \in [Workers -> WorkerType]
         /\ Rest(w) => worker' \in [Workers -> WorkerType]
         /\ \A r \in Results : Conclude(w, r) => worker' \in [Workers -> WorkerType]
<1>1. Idle \in WorkerType
  BY JobAssumption DEF Idle, WorkerType, Steps, Results, Snapshots, NoSnapshot
<1>2. worker[w] \in WorkerType
  OBVIOUS
<1>3. \A pc \in Steps, r \in Results :
        [worker[w] EXCEPT !.pc = pc, !.result = r] \in WorkerType
  BY <1>2 DEF WorkerType
<1>4. {"error", "finishing"} \subseteq Steps /\ "none" \in Results
  BY DEF Steps, Results
<1>5. ASSUME NEW pc \in Steps, Goto(w, pc) PROVE worker' \in [Workers -> WorkerType]
  <2>1. [worker[w] EXCEPT !.pc = pc] \in WorkerType
    BY <1>2 DEF WorkerType
  <2> QED BY <1>5, <2>1 DEF Goto
<1>6. ASSUME Fail(w) PROVE worker' \in [Workers -> WorkerType]
  BY <1>3, <1>4, <1>6 DEF Fail
<1>7. ASSUME Rest(w) PROVE worker' \in [Workers -> WorkerType]
  BY <1>1, <1>7 DEF Rest
<1>8. ASSUME NEW r \in Results, Conclude(w, r) PROVE worker' \in [Workers -> WorkerType]
  BY <1>3, <1>4, <1>8 DEF Conclude
<1> QED BY <1>5, <1>6, <1>7, <1>8

\* The tables start well-typed.
LEMMA TypeInit == Init => TypeOK
<1> SUFFICES ASSUME Init PROVE TypeOK
  OBVIOUS
<1>1. job \in JobType /\ job.owner = NoWorker /\ job.lease = "none"
  BY JobAssumption DEF Init, Attached, JobType, Live
<1>2. Idle \in WorkerType
  BY JobAssumption DEF Idle, WorkerType, Steps, Results, Snapshots, NoSnapshot
<1>3. /\ driver \in Drivers /\ overdue \in BOOLEAN /\ viewed \in BOOLEAN
      /\ worker \in [Workers -> WorkerType]
  BY <1>2 DEF Init
<1>4. posts \in Nat /\ drops \in 0..MaxDrops /\ lapses \in 0..MaxLapses
  BY JobAssumption DEF Init
<1>5. provider = "none" /\ post = "none"
  BY DEF Init
<1> QED BY <1>1, <1>3, <1>4, <1>5 DEF TypeOK, WorkerType

\* What a worker does before and during the submission.
LEMMA TypeSubmit ==
  ASSUME TypeOK, NEW w \in Workers,
         \/ claim_generation_job(w) \/ process_claimed(w) \/ mark_generation_submitting(w)
         \/ arm_generation_shutdown_quarantine(w) \/ Send(w) \/ ReceiveAnswer(w)
         \/ mark_generation_submitted(w)
  PROVE  TypeOK'
<1> USE DEF external, bounds
<1>1. /\ job \in JobType /\ (job.owner = NoWorker <=> job.lease = "none")
      /\ worker \in [Workers -> WorkerType] /\ viewed \in BOOLEAN /\ w # NoWorker
  BY JobAssumption DEF TypeOK, WorkerType
<1>2. Revised => viewed' \in BOOLEAN
  BY DEF Revised
<1>3. {"error", "marking", "polling", "cancelling", "arming", "armed", "sent", "acked"} \subseteq Steps
  BY DEF Steps
<1>4. {"rejected", "timeout", "outcome_unknown"} \subseteq Results
  BY DEF Results
<1>5. CASE claim_generation_job(w)
  <2>1. job' \in JobType /\ job'.owner = w /\ job'.lease = "live"
    <3>1. job' \in JobType
      BY <1>1, <1>5, RowTypes DEF claim_generation_job
    <3> QED BY <1>1, <1>5, <3>1 DEF claim_generation_job, JobType
  <2>2. ClaimedCopy(w) \in WorkerType
    BY <1>1, <1>5 DEF claim_generation_job, ClaimedCopy, WorkerType, Steps, Results,
                      Snapshots, JobType
  <2>3. worker' \in [Workers -> WorkerType]
    BY <1>1, <1>5, <2>2 DEF claim_generation_job
  <2> QED BY <1>1, <1>2, <1>5, <2>1, <2>3 DEF claim_generation_job, TypeOK, WorkerType
<1>6. CASE process_claimed(w)
  <2>1. worker' \in [Workers -> WorkerType]
    BY <1>1, <1>3, <1>4, <1>6, WorkerTypes DEF process_claimed
  <2> QED BY <1>6, <2>1 DEF process_claimed, TypeOK, WorkerType
<1>7. CASE mark_generation_submitting(w)
  <2>1. worker' \in [Workers -> WorkerType]
    BY <1>1, <1>3, <1>7, WorkerTypes DEF mark_generation_submitting, Committed
  <2>2. job' \in JobType /\ job'.owner = job.owner /\ job'.lease = job.lease
    <3>1. job' \in JobType
      BY <1>1, <1>7, RowTypes DEF mark_generation_submitting
    <3> QED BY <1>1, <1>7, <3>1 DEF mark_generation_submitting, JobType
  <2> QED BY <1>1, <1>2, <1>7, <2>1, <2>2 DEF mark_generation_submitting, TypeOK, WorkerType
<1>8. CASE arm_generation_shutdown_quarantine(w)
  <2>1. worker' \in [Workers -> WorkerType]
    BY <1>1, <1>3, <1>8, WorkerTypes DEF arm_generation_shutdown_quarantine, Committed
  <2>2. job' \in JobType /\ job'.owner = job.owner /\ job'.lease = job.lease
    <3>1. job' \in JobType
      BY <1>1, <1>8, RowTypes DEF arm_generation_shutdown_quarantine
    <3> QED BY <1>1, <1>8, <3>1 DEF arm_generation_shutdown_quarantine, JobType
  <2> QED BY <1>1, <1>2, <1>8, <2>1, <2>2
          DEF arm_generation_shutdown_quarantine, TypeOK, WorkerType
<1>9. CASE Send(w)
  <2>1. worker' \in [Workers -> WorkerType]
    BY <1>1, <1>3, <1>9, WorkerTypes DEF Send
  <2> QED BY <1>9, <2>1 DEF Send, TypeOK, WorkerType
<1>10. CASE ReceiveAnswer(w)
  <2>1. worker' \in [Workers -> WorkerType]
    BY <1>1, <1>3, <1>4, <1>10, WorkerTypes DEF ReceiveAnswer
  <2> QED BY <1>10, <2>1 DEF ReceiveAnswer, TypeOK, WorkerType
<1>11. CASE mark_generation_submitted(w)
  <2>1. worker' \in [Workers -> WorkerType]
    BY <1>1, <1>11, WorkerTypes DEF mark_generation_submitted
  <2>2. job' \in JobType /\ (job'.owner = NoWorker <=> job'.lease = "none")
    <3>1. job' \in JobType
      BY <1>1, <1>11, RowTypes DEF mark_generation_submitted
    <3> QED BY <1>1, <1>11, <3>1 DEF mark_generation_submitted, JobType, Released
  <2> QED BY <1>1, <1>2, <1>11, <2>1, <2>2 DEF mark_generation_submitted, TypeOK, WorkerType
<1> QED BY <1>5, <1>6, <1>7, <1>8, <1>9, <1>10, <1>11

\* Polling, settling, cancelling and the ends of an attempt.
LEMMA TypeSettle ==
  ASSUME TypeOK, NEW w \in Workers,
         \/ poll(w) \/ record_generation_provider_receipt(w)
         \/ finish_generation_job_inner(w) \/ reschedule_generation_job(w)
         \/ cancel_upstream_generation(w) \/ retain_generation_delivery_unknown(w)
         \/ FailAttempt(w) \/ renew_generation_lease(w) \/ Drop(w)
  PROVE  TypeOK'
<1> USE DEF external, bounds
<1>1. /\ job \in JobType /\ (job.owner = NoWorker <=> job.lease = "none")
      /\ worker \in [Workers -> WorkerType] /\ viewed \in BOOLEAN /\ w # NoWorker
      /\ worker[w].result \in Results
  BY JobAssumption DEF TypeOK, WorkerType
<1>2. Revised => viewed' \in BOOLEAN
  BY DEF Revised
<1>3. {"recording", "finishing", "rescheduling", "failing"} \subseteq Steps
  BY DEF Steps
<1>4. CASE poll(w)
  <2>1. CASE \E result \in PollResults :
             worker' = [worker EXCEPT ![w].result = result,
                 ![w].pc = IF driver.receipts THEN "recording" ELSE "finishing"]
    <3>1. PICK result \in PollResults :
             worker' = [worker EXCEPT ![w].result = result,
                 ![w].pc = IF driver.receipts THEN "recording" ELSE "finishing"]
      BY <2>1
    <3>2. result \in Results
      BY DEF PollResults, Results
    <3>3. worker' \in [Workers -> WorkerType]
      BY <1>1, <1>3, <3>1, <3>2 DEF WorkerType
    <3> QED BY <1>4, <3>3 DEF poll, TypeOK, WorkerType
  <2>2. CASE Fail(w) \/ Goto(w, "rescheduling")
    <3>1. worker' \in [Workers -> WorkerType]
      BY <1>1, <1>3, <2>2, WorkerTypes
    <3> QED BY <1>4, <3>1 DEF poll, TypeOK, WorkerType
  <2> QED BY <1>4, <2>1, <2>2 DEF poll
<1>5. CASE record_generation_provider_receipt(w)
  <2>1. worker' \in [Workers -> WorkerType]
    BY <1>1, <1>3, <1>5, WorkerTypes DEF record_generation_provider_receipt
  <2>2. \/ job' = job
        \/ \E x \in {"SUCCESS", "FAILURE"} : job' = [job EXCEPT !.receipt = x]
    BY <1>5 DEF record_generation_provider_receipt
  <2>3. job' \in JobType
    BY <1>1, <2>2, RowTypes
  <2>4. job'.owner = job.owner /\ job'.lease = job.lease
    BY <1>1, <2>2 DEF JobType
  <2> QED BY <1>1, <1>2, <1>5, <2>1, <2>3, <2>4
          DEF record_generation_provider_receipt, TypeOK, WorkerType
<1>6. CASE finish_generation_job_inner(w)
  <2>1. worker' \in [Workers -> WorkerType]
    BY <1>1, <1>6, WorkerTypes DEF finish_generation_job_inner
  <2>2. job' \in JobType /\ (job'.owner = NoWorker <=> job'.lease = "none")
    BY <1>1, <1>6, FinishedType DEF finish_generation_job_inner
  <2> QED BY <1>1, <1>2, <1>6, <2>1, <2>2
          DEF finish_generation_job_inner, TypeOK, WorkerType
<1>7. CASE reschedule_generation_job(w)
  <2>1. worker' \in [Workers -> WorkerType]
    BY <1>1, <1>7, WorkerTypes DEF reschedule_generation_job
  <2>2. job' \in JobType /\ (job'.owner = NoWorker <=> job'.lease = "none")
    BY <1>1, <1>7, RescheduledType DEF reschedule_generation_job
  <2> QED BY <1>1, <1>2, <1>7, <2>1, <2>2
          DEF reschedule_generation_job, TypeOK, WorkerType
<1>8. CASE cancel_upstream_generation(w)
  <2>1. "cancelled" \in Results
    BY DEF Results
  <2>2. worker' \in [Workers -> WorkerType]
    BY <1>1, <1>8, <2>1, WorkerTypes DEF cancel_upstream_generation
  <2> QED BY <1>8, <2>2 DEF cancel_upstream_generation, TypeOK, WorkerType
<1>9. CASE retain_generation_delivery_unknown(w)
  <2>1. worker' \in [Workers -> WorkerType]
    BY <1>1, <1>3, <1>9, WorkerTypes DEF retain_generation_delivery_unknown
  <2>2. job' \in {job, Released(job)}
    BY <1>9 DEF retain_generation_delivery_unknown
  <2>3. job' \in JobType
    BY <1>1, <2>2, RowTypes
  <2>4. job'.owner = NoWorker <=> job'.lease = "none"
    BY <1>1, <2>2 DEF Released, JobType
  <2> QED BY <1>1, <1>2, <1>9, <2>1, <2>3, <2>4
          DEF retain_generation_delivery_unknown, TypeOK, WorkerType
<1>10. CASE FailAttempt(w)
  <2>1. worker' \in [Workers -> WorkerType]
    BY <1>1, <1>10, WorkerTypes DEF FailAttempt
  <2>2. job' \in {job, Finished("retry_exhausted"), Rescheduled(TRUE)}
    BY <1>10 DEF FailAttempt
  <2>3. "retry_exhausted" \in Results
    BY DEF Results
  <2>4. job' \in JobType /\ (job'.owner = NoWorker <=> job'.lease = "none")
    BY <1>1, <2>2, <2>3, FinishedType, RescheduledType
  <2> QED BY <1>1, <1>2, <1>10, <2>1, <2>4 DEF FailAttempt, TypeOK, WorkerType
<1>11. CASE renew_generation_lease(w)
  <2>1. worker' \in [Workers -> WorkerType]
    BY <1>1, <1>11, WorkerTypes DEF renew_generation_lease
  <2>2. \/ job' = job
        \/ job.lease = "expired" /\ job' = [job EXCEPT !.lease = "live"]
    BY <1>11 DEF renew_generation_lease
  <2>3. job' \in JobType
    BY <1>1, <2>2, RowTypes
  <2>4. job'.owner = NoWorker <=> job'.lease = "none"
    BY <1>1, <2>2 DEF JobType
  <2> QED BY <1>1, <1>2, <1>11, <2>1, <2>3, <2>4
          DEF renew_generation_lease, TypeOK, WorkerType
<1>12. CASE Drop(w)
  <2>1. worker' \in [Workers -> WorkerType]
    BY <1>1, <1>12, WorkerTypes DEF Drop
  <2> QED BY <1>12, <2>1, JobAssumption DEF Drop, TypeOK, WorkerType
<1> QED BY <1>4, <1>5, <1>6, <1>7, <1>8, <1>9, <1>10, <1>11, <1>12

\* The customer, the operator, the clock and the provider.
LEMMA TypeOthers ==
  ASSUME TypeOK,
         \/ LeaseExpires \/ cancel_generation_job \/ generation_quarantine
         \/ resolve_generation_quarantine \/ DeadlinePasses \/ ProviderReceives
         \/ ProviderFinishes
  PROVE  TypeOK'
<1> USE DEF external, bounds
<1>1. /\ job \in JobType /\ (job.owner = NoWorker <=> job.lease = "none")
      /\ viewed \in BOOLEAN
  BY DEF TypeOK
<1>2. Revised => viewed' \in BOOLEAN
  BY DEF Revised
<1>3. CASE LeaseExpires
  <2>1. job' \in JobType /\ job'.owner = job.owner /\ job'.lease = "expired"
    <3>1. job' = [job EXCEPT !.lease = "expired"]
      BY <1>3 DEF LeaseExpires
    <3> QED BY <1>1, <3>1 DEF JobType
  <2>2. lapses' \in 0..MaxLapses
    BY <1>3, JobAssumption DEF LeaseExpires, TypeOK
  <2>3. job.lease = "live"
    BY <1>3 DEF LeaseExpires
  <2> QED BY <1>1, <1>3, <2>1, <2>2, <2>3 DEF LeaseExpires, TypeOK
<1>4. CASE cancel_generation_job
  <2>1. \/ job' = [Released(job) EXCEPT !.status = "cancelling", !.quarantined = FALSE]
        \/ job' = Finished("cancelled")
    BY <1>4 DEF cancel_generation_job
  <2>2. "cancelled" \in Results
    BY DEF Results
  <2>3. CASE job' = Finished("cancelled")
    BY <1>1, <1>2, <1>4, <2>2, <2>3, FinishedType DEF cancel_generation_job, TypeOK
  <2>4. CASE job' = [Released(job) EXCEPT !.status = "cancelling", !.quarantined = FALSE]
    <3>1. job' \in JobType /\ job'.owner = NoWorker /\ job'.lease = "none"
      BY <1>1, <2>4 DEF JobType, Released, Live
    <3> QED BY <1>2, <1>4, <3>1 DEF cancel_generation_job, TypeOK
  <2> QED BY <2>1, <2>3, <2>4
<1>5. CASE resolve_generation_quarantine
  <2>1. 0 \in 0..MaxFailures
    BY JobAssumption
  <2>2. job' \in JobType /\ job'.owner = NoWorker /\ job'.lease = "none"
    BY <1>1, <1>5, <2>1 DEF resolve_generation_quarantine, JobType, Released, Live
  <2> QED BY <1>2, <1>5, <2>2 DEF resolve_generation_quarantine, TypeOK
<1>6. CASE generation_quarantine
  BY <1>6 DEF generation_quarantine, TypeOK
<1>7. CASE DeadlinePasses
  BY <1>7 DEF DeadlinePasses, TypeOK
<1>8. CASE ProviderReceives
  BY <1>8 DEF ProviderReceives, TypeOK
<1>9. CASE ProviderFinishes
  BY <1>9 DEF ProviderFinishes, TypeOK
<1> QED BY <1>3, <1>4, <1>5, <1>6, <1>7, <1>8, <1>9

\* Every step keeps the tables well-typed.
LEMMA TypeNext == TypeOK /\ [Next]_vars => TypeOK'
<1> SUFFICES ASSUME TypeOK, [Next]_vars PROVE TypeOK'
  OBVIOUS
<1>1. CASE Next
  BY <1>1, TypeSubmit, TypeSettle, TypeOthers DEF Next, WorkerStep
<1>2. CASE UNCHANGED vars
  BY <1>2 DEF vars, TypeOK
<1> QED BY <1>1, <1>2

-----------------------------------------------------------------------------
(* The inductive invariant.                                                *)

\* What the row says about the submission: until the quarantine is armed
\* nothing was sent, and from then on the row is either quarantined, known
\* upstream, or ended.
RowKnowsSubmission ==
    /\ posts = 0 => post = "none"
    /\ (post = "accepted") = (provider # "none")
    /\ (job.status = "queued" \/ (job.status = "submitting" /\ ~job.quarantined))
          => posts = 0
    /\ job.status \in {"queued", "submitting"} => ~job.upstream
    /\ job.status \in {"running", "cancelling"} => job.upstream
    /\ job.upstream => provider # "none"
    /\ job.quarantined => job.status = "submitting"
    /\ job.status \in Terminal /\ ~job.upstream => post \in {"none", "rejected"}

\* What a worker knows when it acts: only the owner of the armed row sends,
\* and a worker's result is what the provider really did.
WorkerKnows(w) ==
    /\ worker[w].pc = "armed" => Owns(w) /\ job.quarantined /\ posts = 0
    /\ Owns(w) /\ job.quarantined =>
          /\ worker[w].pc \in {"idle", "armed", "sent", "acked", "finishing", "error"}
          /\ worker[w].pc = "finishing" => worker[w].result = "rejected"
    /\ worker[w].pc = "acked" => post = "accepted"
    /\ worker[w].result \in {"success", "exceeds_contract"} => provider = "succeeded"
    /\ worker[w].result = "cancelled" => provider = "cancelled"
    /\ worker[w].result = "rejected" => post = "rejected"

IInv ==
    /\ TerminalMatchesProvider /\ NoRefundOfUnknownDelivery /\ SubmittedAtMostOnce
    /\ RowKnowsSubmission
    /\ \A w \in Workers : WorkerKnows(w)

\* The invariant holds at first.
LEMMA IInit == Init => IInv
<1> SUFFICES ASSUME Init PROVE IInv
  OBVIOUS
<1>1. TypeOK
  BY TypeInit
<1>2. RowKnowsSubmission /\ NoRefundOfUnknownDelivery /\ SubmittedAtMostOnce
  BY DEF Init, Attached, RowKnowsSubmission, NoRefundOfUnknownDelivery,
         SubmittedAtMostOnce, Terminal
<1>3. TerminalMatchesProvider
  BY <1>1 DEF Init, Attached, TerminalMatchesProvider, Terminal
<1>4. \A w \in Workers : WorkerKnows(w)
  BY JobAssumption DEF Init, Attached, Idle, WorkerKnows, Owns
<1> QED BY <1>2, <1>3, <1>4 DEF IInv

-----------------------------------------------------------------------------
\* The fields of a row that a transaction writes back without its lease.
LEMMA FinishedFields ==
  ASSUME job \in JobType, NEW result \in Results
  PROVE  /\ Finished(result).status = TerminalStatus(result)
         /\ Finished(result).billed = Billed(result)
         /\ Finished(result).owner = NoWorker /\ ~Finished(result).quarantined
         /\ Finished(result).upstream = job.upstream
         /\ Finished(result).settlements = job.settlements + 1
BY DEF JobType, Finished, Released

\* Rescheduling leaves status, billing and delivery as they are.
LEMMA RescheduledFields ==
  ASSUME job \in JobType, NEW failed \in BOOLEAN
  PROVE  /\ Rescheduled(failed).owner = NoWorker
         /\ Rescheduled(failed).status = job.status
         /\ Rescheduled(failed).billed = job.billed
         /\ Rescheduled(failed).quarantined = job.quarantined
         /\ Rescheduled(failed).upstream = job.upstream
         /\ Rescheduled(failed).settlements = job.settlements
BY DEF JobType, Rescheduled, Released

\* Finishing an unsettled row keeps the invariant if the result is true of
\* the provider and nothing sent upstream is left unknown.
LEMMA FinishKeeps ==
  ASSUME IInv, TypeOK', NEW result \in Results, job.status \in Live,
         job' = Finished(result), UNCHANGED <<provider, post, posts>>,
         Billed(result) => provider = "succeeded",
         result = "cancelled" => provider = "cancelled" \/ posts = 0,
         ~job.upstream => post \in {"none", "rejected"}
  PROVE  /\ TerminalMatchesProvider' /\ NoRefundOfUnknownDelivery'
         /\ SubmittedAtMostOnce' /\ RowKnowsSubmission'
<1>1. /\ job'.status = TerminalStatus(result) /\ job'.billed = Billed(result)
      /\ job'.owner = NoWorker /\ ~job'.quarantined
      /\ job'.upstream = job.upstream /\ job'.settlements = job.settlements + 1
  BY FinishedFields DEF IInv, TerminalMatchesProvider, TypeOK
<1>2. job.settlements = 0
  BY DEF IInv, TerminalMatchesProvider, Live, Terminal
<1>3. /\ job'.status \in Terminal
      /\ job'.status = "succeeded" => Billed(result)
      /\ job'.status = "cancelled" => result = "cancelled"
  BY <1>1 DEF TerminalStatus, Billed, Terminal
<1>4. ~job.upstream => provider = "none"
  BY DEF IInv, RowKnowsSubmission
<1>5. posts = 0 => provider = "none"
  BY DEF IInv, RowKnowsSubmission
<1>6. RowKnowsSubmission'
  BY <1>1, <1>3 DEF IInv, RowKnowsSubmission, Terminal
<1>7. NoRefundOfUnknownDelivery'
  BY <1>1, <1>4 DEF IInv, NoRefundOfUnknownDelivery
<1>8. TerminalMatchesProvider'
  BY <1>1, <1>2, <1>3, <1>5 DEF TerminalMatchesProvider
<1>9. SubmittedAtMostOnce'
  BY DEF IInv, SubmittedAtMostOnce
<1> QED BY <1>6, <1>7, <1>8, <1>9

\* A row that is given back, or ended, has no owner and asks nothing of the
\* workers that are still busy with it.
LEMMA OwnerlessKeeps ==
  ASSUME IInv, NEW w \in Workers, NEW v \in Workers, Owns(w),
         job'.owner = NoWorker, worker[w].pc # "armed",
         Rest(w) \/ Fail(w), UNCHANGED <<provider, post, posts>>
  PROVE  WorkerKnows(v)'
<1>1. WorkerKnows(v) /\ WorkerKnows(w)
  BY DEF IInv
<1>2. v # NoWorker /\ w # NoWorker
  BY JobAssumption
<1>3. worker' \in [Workers -> [pc : Steps, snap : Snapshots, result : Results]]
      /\ worker \in [Workers -> [pc : Steps, snap : Snapshots, result : Results]]
  BY WorkerTypes DEF IInv, TerminalMatchesProvider, TypeOK, WorkerType
<1>4. CASE v = w
  BY <1>2, <1>3, <1>4 DEF WorkerKnows, Owns, Rest, Fail, Idle
<1>5. CASE v # w
  <2>1. worker'[v] = worker[v] /\ worker[v].pc # "armed"
    BY <1>1, <1>3, <1>5 DEF WorkerKnows, Owns, Rest, Fail
  <2> QED BY <1>1, <1>2, <2>1 DEF WorkerKnows, Owns
<1> QED BY <1>4, <1>5

USE DEF IInv, TypeOK, TerminalMatchesProvider, NoRefundOfUnknownDelivery,
        SubmittedAtMostOnce, RowKnowsSubmission, JobType, Terminal, Live, external,
        bounds

\* A row that is not quarantined may be given back for a later attempt.
LEMMA RescheduleKeeps ==
  ASSUME IInv, TypeOK', NEW w \in Workers, NEW failed \in BOOLEAN, Owns(w),
         ~job.quarantined, job' = Rescheduled(failed), Rest(w),
         worker[w].pc # "armed", UNCHANGED <<provider, post, posts>>
  PROVE  IInv'
<1>1. /\ job'.owner = NoWorker /\ job'.status = job.status
      /\ job'.billed = job.billed /\ job'.quarantined = job.quarantined
      /\ job'.upstream = job.upstream /\ job'.settlements = job.settlements
  BY RescheduledFields
<1>2. \A v \in Workers : WorkerKnows(v)'
  BY <1>1, OwnerlessKeeps
<1> QED BY <1>1, <1>2

\* Before and during the submission: the quarantine is armed before the POST and
\* only by a worker whose row nobody else can take meanwhile.
LEMMA ISubmit ==
  ASSUME IInv, TypeOK', NEW w \in Workers,
         \/ claim_generation_job(w) \/ process_claimed(w)
         \/ mark_generation_submitting(w) \/ arm_generation_shutdown_quarantine(w)
         \/ Send(w) \/ ReceiveAnswer(w)
         \/ mark_generation_submitted(w)
  PROVE  IInv'
<1> USE DEF Owns, Goto, Fail, Conclude, Rest
<1>1. \A v \in Workers : WorkerKnows(v)
  OBVIOUS
<1>2. CASE claim_generation_job(w)
  <2>1. /\ TerminalMatchesProvider' /\ NoRefundOfUnknownDelivery'
        /\ SubmittedAtMostOnce' /\ RowKnowsSubmission'
    BY <1>2, <1>1 DEF claim_generation_job, ClaimedCopy, WorkerKnows, Idle, Results
  <2>2. \A v \in Workers : WorkerKnows(v)'
    BY <1>2, <1>1 DEF claim_generation_job, ClaimedCopy, WorkerKnows, Idle
  <2> QED BY <2>1, <2>2
<1>3. CASE process_claimed(w)
  <2>1. /\ TerminalMatchesProvider' /\ NoRefundOfUnknownDelivery'
        /\ SubmittedAtMostOnce' /\ RowKnowsSubmission'
    BY <1>3, <1>1 DEF process_claimed, WorkerKnows, Idle, Results
  <2>2. \A v \in Workers : WorkerKnows(v)'
    BY <1>3, <1>1 DEF process_claimed, WorkerKnows, Idle
  <2> QED BY <2>1, <2>2
<1>4. CASE mark_generation_submitting(w)
  <2>1. /\ TerminalMatchesProvider' /\ NoRefundOfUnknownDelivery'
        /\ SubmittedAtMostOnce' /\ RowKnowsSubmission'
    BY <1>4, <1>1 DEF mark_generation_submitting, Committed, WorkerKnows, Idle, Results
  <2>2. \A v \in Workers : WorkerKnows(v)'
    BY <1>4, <1>1 DEF mark_generation_submitting, Committed, WorkerKnows, Idle
  <2> QED BY <2>1, <2>2
<1>5. CASE arm_generation_shutdown_quarantine(w)
  <2>1. /\ TerminalMatchesProvider' /\ NoRefundOfUnknownDelivery'
        /\ SubmittedAtMostOnce' /\ RowKnowsSubmission'
    BY <1>5, <1>1 DEF arm_generation_shutdown_quarantine, Committed, WorkerKnows, Idle, Results
  <2>2. \A v \in Workers : WorkerKnows(v)'
    BY <1>5, <1>1 DEF arm_generation_shutdown_quarantine, Committed, WorkerKnows, Idle
  <2> QED BY <2>1, <2>2
<1>6. CASE Send(w)
  <2>1. /\ TerminalMatchesProvider' /\ NoRefundOfUnknownDelivery'
        /\ SubmittedAtMostOnce' /\ RowKnowsSubmission'
    BY <1>6, <1>1 DEF Send, WorkerKnows, Idle, Results
  <2>2. \A v \in Workers : WorkerKnows(v)'
    BY <1>6, <1>1 DEF Send, WorkerKnows, Idle
  <2> QED BY <2>1, <2>2
<1>7. CASE ReceiveAnswer(w)
  <2>1. /\ TerminalMatchesProvider' /\ NoRefundOfUnknownDelivery'
        /\ SubmittedAtMostOnce' /\ RowKnowsSubmission'
    BY <1>7, <1>1 DEF ReceiveAnswer, WorkerKnows, Idle, Results
  <2>2. \A v \in Workers : WorkerKnows(v)'
    BY <1>7, <1>1 DEF ReceiveAnswer, WorkerKnows, Idle
  <2> QED BY <2>1, <2>2
<1>8. CASE mark_generation_submitted(w)
  <2>1. CASE Owns(w) /\ job.status = "submitting"
    <3>1. /\ job' = [Released(job) EXCEPT !.status = "running", !.upstream = TRUE,
                        !.failures = 0, !.quarantined = FALSE]
          /\ Rest(w) \/ Fail(w)
          /\ UNCHANGED <<provider, post, posts>>
      BY <1>8, <2>1 DEF mark_generation_submitted
    <3>2. /\ job'.status = "running" /\ job'.upstream /\ ~job'.quarantined
          /\ job'.owner = NoWorker /\ job'.billed = job.billed
          /\ job'.settlements = job.settlements
      BY <3>1 DEF Released
    <3>3. post = "accepted" /\ worker[w].pc # "armed"
      BY <1>8, <1>1 DEF WorkerKnows, mark_generation_submitted
    <3>4. /\ TerminalMatchesProvider' /\ NoRefundOfUnknownDelivery'
          /\ SubmittedAtMostOnce' /\ RowKnowsSubmission'
      BY <2>1, <3>1, <3>2, <3>3
    <3>5. \A v \in Workers : WorkerKnows(v)'
      BY <2>1, <3>1, <3>2, <3>3, OwnerlessKeeps
    <3> QED BY <3>4, <3>5
  <2>2. CASE ~(Owns(w) /\ job.status = "submitting")
    <3>1. Fail(w) /\ UNCHANGED <<job, provider, post, posts>>
      BY <1>8, <2>2 DEF mark_generation_submitted
    <3>2. \A v \in Workers : WorkerKnows(v)'
      BY <1>1, <3>1 DEF WorkerKnows
    <3> QED BY <3>1, <3>2
  <2> QED BY <2>1, <2>2
<1> QED BY <1>2, <1>3, <1>4, <1>5, <1>6, <1>7, <1>8

\* Polling, settling and cancelling: a result is what the provider did, and a row
\* whose delivery is unknown is neither rescheduled nor exhausted.
LEMMA ISettle ==
  ASSUME IInv, TypeOK', NEW w \in Workers,
         \/ poll(w) \/ record_generation_provider_receipt(w)
         \/ finish_generation_job_inner(w) \/ reschedule_generation_job(w)
         \/ cancel_upstream_generation(w) \/ retain_generation_delivery_unknown(w)
         \/ FailAttempt(w) \/ renew_generation_lease(w)
         \/ Drop(w)
  PROVE  IInv'
<1> USE DEF Owns, Goto, Fail, Conclude, Rest
<1>1. \A v \in Workers : WorkerKnows(v)
  OBVIOUS
<1>2. CASE poll(w)
  <2>1. UNCHANGED <<job, provider, post, posts>>
    BY <1>2 DEF poll
  <2>2. CASE Fail(w) \/ Goto(w, "rescheduling")
    <3>1. \A v \in Workers : WorkerKnows(v)'
      BY <1>2, <1>1, <2>1, <2>2 DEF WorkerKnows, poll
    <3> QED BY <2>1, <3>1
  <2>3. ASSUME NEW result \in PollResults,
               worker' = [worker EXCEPT ![w].result = result,
                   ![w].pc = IF driver.receipts THEN "recording" ELSE "finishing"]
        PROVE  IInv'
    <3>1. /\ result \in {"success", "exceeds_contract"} => provider = "succeeded"
          /\ result \notin {"cancelled", "rejected"}
      BY <2>3 DEF PollResults
    <3>2. ~(Owns(w) /\ job.quarantined)
      BY <1>2, <1>1 DEF WorkerKnows, poll
    <3>3. /\ worker'[w].result = result
          /\ worker'[w].pc \in {"recording", "finishing"}
      BY <2>3
    <3>4. \A v \in Workers : WorkerKnows(v)'
      <4> SUFFICES ASSUME NEW v \in Workers PROVE WorkerKnows(v)'
        OBVIOUS
      <4>1. CASE v = w
        BY <2>1, <3>1, <3>2, <3>3, <4>1 DEF WorkerKnows
      <4>2. CASE v # w
        <5>1. worker'[v] = worker[v]
          BY <2>3, <4>2
        <5> QED BY <1>1, <2>1, <5>1 DEF WorkerKnows
      <4> QED BY <4>1, <4>2
    <3> QED BY <2>1, <3>4
  <2> QED BY <1>2, <2>2, <2>3 DEF poll
<1>3. CASE record_generation_provider_receipt(w)
  <2>1. /\ TerminalMatchesProvider' /\ NoRefundOfUnknownDelivery'
        /\ SubmittedAtMostOnce' /\ RowKnowsSubmission'
    BY <1>3, <1>1 DEF record_generation_provider_receipt, WorkerKnows, Idle, Results
  <2>2. \A v \in Workers : WorkerKnows(v)'
    BY <1>3, <1>1 DEF record_generation_provider_receipt, WorkerKnows, Idle
  <2> QED BY <2>1, <2>2
<1>4. CASE finish_generation_job_inner(w)
  <2>1. UNCHANGED <<provider, post, posts>> /\ worker[w].pc = "finishing"
    BY <1>4 DEF finish_generation_job_inner
  <2>2. PICK result \in Results : result = worker[w].result
    OBVIOUS
  <2>3. CASE CanFinish(w, result) /\ job' = Finished(result) /\ (Rest(w) \/ Fail(w))
    <3>1. job' = Finished(result) /\ (Rest(w) \/ Fail(w))
      BY <2>3
    <3>2. Owns(w) /\ job.status \in Live
      BY <2>3 DEF CanFinish
    <3>3. /\ Billed(result) => provider = "succeeded"
          /\ result = "cancelled" => provider = "cancelled"
      BY <1>1, <2>2 DEF WorkerKnows, Billed
    <3>4. ~job.upstream => post \in {"none", "rejected"}
      BY <1>1, <2>1, <2>2, <3>2 DEF WorkerKnows
    <3>5. /\ TerminalMatchesProvider' /\ NoRefundOfUnknownDelivery'
          /\ SubmittedAtMostOnce' /\ RowKnowsSubmission'
      BY <2>1, <3>1, <3>2, <3>3, <3>4, FinishKeeps
    <3>6. job'.owner = NoWorker
      BY <3>1, FinishedFields
    <3>7. \A v \in Workers : WorkerKnows(v)'
      BY <2>1, <3>1, <3>2, <3>6, OwnerlessKeeps
    <3> QED BY <3>5, <3>7
  <2>4. CASE Fail(w) /\ UNCHANGED job
    <3>1. Fail(w) /\ UNCHANGED <<job, provider, post, posts>>
      BY <2>1, <2>4
    <3>2. \A v \in Workers : WorkerKnows(v)'
      BY <1>1, <2>1, <3>1 DEF WorkerKnows
    <3> QED BY <3>1, <3>2
  <2> QED BY <1>4, <2>2, <2>3, <2>4 DEF finish_generation_job_inner
<1>5. CASE reschedule_generation_job(w)
  <2>1. UNCHANGED <<provider, post, posts>> /\ worker[w].pc = "rescheduling"
    BY <1>5 DEF reschedule_generation_job
  <2>2. CASE Owns(w) /\ ~job.quarantined
    <3>1. job' = Rescheduled(FALSE) /\ Rest(w)
      BY <1>5, <2>2 DEF reschedule_generation_job
    <3> QED BY <2>1, <2>2, <3>1, RescheduleKeeps
  <2>3. CASE ~(Owns(w) /\ ~job.quarantined)
    <3>1. Fail(w) /\ UNCHANGED job
      BY <1>5, <2>3 DEF reschedule_generation_job
    <3>2. \A v \in Workers : WorkerKnows(v)'
      BY <1>1, <2>1, <3>1 DEF WorkerKnows
    <3> QED BY <2>1, <3>1, <3>2
  <2> QED BY <2>2, <2>3
<1>6. CASE cancel_upstream_generation(w)
  <2>1. /\ TerminalMatchesProvider' /\ NoRefundOfUnknownDelivery'
        /\ SubmittedAtMostOnce' /\ RowKnowsSubmission'
    BY <1>6, <1>1 DEF cancel_upstream_generation, WorkerKnows, Idle, Results
  <2>2. \A v \in Workers : WorkerKnows(v)'
    BY <1>6, <1>1 DEF cancel_upstream_generation, WorkerKnows, Idle
  <2> QED BY <2>1, <2>2
<1>7. CASE retain_generation_delivery_unknown(w)
  <2>1. UNCHANGED <<provider, post, posts>> /\ worker[w].pc = "error"
    BY <1>7 DEF retain_generation_delivery_unknown
  <2>2. CASE Owns(w) /\ job.status = "submitting" /\ ~job.upstream /\ job.quarantined
    <3>1. job' = Released(job) /\ Rest(w)
      BY <1>7, <2>2 DEF retain_generation_delivery_unknown
    <3>2. /\ job'.owner = NoWorker /\ job'.status = job.status
          /\ job'.quarantined = job.quarantined /\ job'.upstream = job.upstream
          /\ job'.billed = job.billed /\ job'.settlements = job.settlements
      BY <3>1 DEF Released
    <3>3. \A v \in Workers : WorkerKnows(v)'
      BY <2>1, <2>2, <3>1, <3>2, OwnerlessKeeps
    <3> QED BY <2>1, <3>2, <3>3
  <2>3. CASE ~(Owns(w) /\ job.status = "submitting" /\ ~job.upstream /\ job.quarantined)
    <3>1. Goto(w, "failing") /\ UNCHANGED job
      BY <1>7, <2>3 DEF retain_generation_delivery_unknown
    <3>2. \A v \in Workers : WorkerKnows(v)'
      BY <1>1, <2>1, <2>3, <3>1 DEF WorkerKnows
    <3> QED BY <2>1, <3>1, <3>2
  <2> QED BY <2>2, <2>3
<1>8. CASE FailAttempt(w)
  <2>1. UNCHANGED <<provider, post, posts>> /\ worker[w].pc = "failing" /\ Rest(w)
    BY <1>8 DEF FailAttempt
  <2>2. ~(Owns(w) /\ job.quarantined)
    BY <1>1, <2>1 DEF WorkerKnows
  <2>3. CASE job' = Finished("retry_exhausted") /\ job.status \in Live /\ Owns(w)
    <3>1. "retry_exhausted" \in Results /\ ~Billed("retry_exhausted")
      BY DEF Results, Billed
    <3>2. ~job.upstream => post = "none"
      BY <2>2, <2>3
    <3>3. /\ TerminalMatchesProvider' /\ NoRefundOfUnknownDelivery'
          /\ SubmittedAtMostOnce' /\ RowKnowsSubmission'
      BY <2>1, <2>3, <3>1, <3>2, FinishKeeps
    <3>4. job'.owner = NoWorker
      BY <2>3, <3>1, FinishedFields
    <3>5. \A v \in Workers : WorkerKnows(v)'
      BY <2>1, <2>3, <3>4, OwnerlessKeeps
    <3> QED BY <3>3, <3>5
  <2>4. CASE job' = Rescheduled(TRUE) /\ Owns(w) /\ ~job.quarantined
    BY <2>1, <2>4, RescheduleKeeps
  <2>5. CASE job' = job
    <3>1. \A v \in Workers : WorkerKnows(v)'
      BY <1>1, <2>1, <2>5 DEF WorkerKnows, Idle
    <3> QED BY <2>1, <2>5, <3>1
  <2> QED BY <1>8, <2>3, <2>4, <2>5 DEF FailAttempt
<1>9. CASE renew_generation_lease(w)
  <2>1. /\ TerminalMatchesProvider' /\ NoRefundOfUnknownDelivery'
        /\ SubmittedAtMostOnce' /\ RowKnowsSubmission'
    BY <1>9, <1>1 DEF renew_generation_lease, WorkerKnows, Idle, Results
  <2>2. \A v \in Workers : WorkerKnows(v)'
    BY <1>9, <1>1 DEF renew_generation_lease, WorkerKnows, Idle
  <2> QED BY <2>1, <2>2
<1>10. CASE Drop(w)
  <2>1. /\ TerminalMatchesProvider' /\ NoRefundOfUnknownDelivery'
        /\ SubmittedAtMostOnce' /\ RowKnowsSubmission'
    BY <1>10, <1>1 DEF Drop, WorkerKnows, Idle, Results
  <2>2. \A v \in Workers : WorkerKnows(v)'
    BY <1>10, <1>1 DEF Drop, WorkerKnows, Idle
  <2> QED BY <2>1, <2>2
<1> QED BY <1>2, <1>3, <1>4, <1>5, <1>6, <1>7, <1>8, <1>9, <1>10

\* The customer, the operator, the clock and the provider.
LEMMA IOthers ==
  ASSUME IInv, TypeOK',
         \/ LeaseExpires \/ cancel_generation_job
         \/ generation_quarantine \/ resolve_generation_quarantine
         \/ DeadlinePasses \/ ProviderReceives
         \/ ProviderFinishes
  PROVE  IInv'
<1> USE DEF Owns
<1>1. \A v \in Workers : WorkerKnows(v)
  OBVIOUS
<1>2. CASE LeaseExpires
  <2>1. /\ TerminalMatchesProvider' /\ NoRefundOfUnknownDelivery'
        /\ SubmittedAtMostOnce' /\ RowKnowsSubmission'
    BY <1>2, <1>1 DEF LeaseExpires, WorkerKnows, Idle, Results
  <2>2. \A v \in Workers : WorkerKnows(v)'
    BY <1>2, <1>1 DEF LeaseExpires, WorkerKnows, Idle
  <2> QED BY <2>1, <2>2
<1>3. CASE cancel_generation_job
  <2>1. UNCHANGED <<worker, provider, post, posts>>
    BY <1>3 DEF cancel_generation_job
  <2>2. ~job.quarantined
    BY <1>3 DEF cancel_generation_job
  <2>3. CASE job.status = "running" /\ job' = [Released(job) EXCEPT !.status = "cancelling",
                                                                  !.quarantined = FALSE]
    <3>1. /\ job'.status = "cancelling" /\ ~job'.quarantined
          /\ job'.upstream = job.upstream /\ job'.billed = job.billed
          /\ job'.settlements = job.settlements
      BY <2>3 DEF Released
    <3>2. \A v \in Workers : WorkerKnows(v)'
      BY <2>1, <2>2, <3>1 DEF WorkerKnows
    <3> QED BY <2>1, <2>3, <3>1, <3>2
  <2>4. CASE job.status = "queued" /\ job' = Finished("cancelled")
    <3>1. "cancelled" \in Results /\ ~Billed("cancelled")
      BY DEF Results, Billed
    <3>2. /\ TerminalMatchesProvider' /\ NoRefundOfUnknownDelivery'
          /\ SubmittedAtMostOnce' /\ RowKnowsSubmission'
      BY <2>1, <2>4, <3>1, FinishKeeps
    <3>3. ~job'.quarantined
      BY <2>4, <3>1, FinishedFields
    <3>4. \A v \in Workers : WorkerKnows(v)'
      BY <2>1, <2>2, <3>3 DEF WorkerKnows
    <3> QED BY <3>2, <3>4
  <2> QED BY <1>3, <2>3, <2>4 DEF cancel_generation_job
<1>4. CASE generation_quarantine
  <2>1. /\ TerminalMatchesProvider' /\ NoRefundOfUnknownDelivery'
        /\ SubmittedAtMostOnce' /\ RowKnowsSubmission'
    BY <1>4, <1>1 DEF generation_quarantine, WorkerKnows, Idle, Results
  <2>2. \A v \in Workers : WorkerKnows(v)'
    BY <1>4, <1>1 DEF generation_quarantine, WorkerKnows, Idle
  <2> QED BY <2>1, <2>2
<1>5. CASE resolve_generation_quarantine
  <2>1. /\ TerminalMatchesProvider' /\ NoRefundOfUnknownDelivery'
        /\ SubmittedAtMostOnce' /\ RowKnowsSubmission'
    BY <1>5, <1>1 DEF resolve_generation_quarantine, Released, WorkerKnows, Idle, Results
  <2>2. \A v \in Workers : WorkerKnows(v)'
    BY <1>5, <1>1 DEF resolve_generation_quarantine, Released, WorkerKnows, Idle
  <2> QED BY <2>1, <2>2
<1>6. CASE DeadlinePasses
  <2>1. /\ TerminalMatchesProvider' /\ NoRefundOfUnknownDelivery'
        /\ SubmittedAtMostOnce' /\ RowKnowsSubmission'
    BY <1>6, <1>1 DEF DeadlinePasses, WorkerKnows, Idle, Results
  <2>2. \A v \in Workers : WorkerKnows(v)'
    BY <1>6, <1>1 DEF DeadlinePasses, WorkerKnows, Idle
  <2> QED BY <2>1, <2>2
<1>7. CASE ProviderReceives
  <2>1. /\ TerminalMatchesProvider' /\ NoRefundOfUnknownDelivery'
        /\ SubmittedAtMostOnce' /\ RowKnowsSubmission'
    BY <1>7, <1>1 DEF ProviderReceives, WorkerKnows, Idle, Results
  <2>2. \A v \in Workers : WorkerKnows(v)'
    BY <1>7, <1>1 DEF ProviderReceives, WorkerKnows, Idle
  <2> QED BY <2>1, <2>2
<1>8. CASE ProviderFinishes
  <2>1. /\ TerminalMatchesProvider' /\ NoRefundOfUnknownDelivery'
        /\ SubmittedAtMostOnce' /\ RowKnowsSubmission'
    BY <1>8, <1>1 DEF ProviderFinishes, WorkerKnows, Idle, Results
  <2>2. \A v \in Workers : WorkerKnows(v)'
    BY <1>8, <1>1 DEF ProviderFinishes, WorkerKnows, Idle
  <2> QED BY <2>1, <2>2
<1> QED BY <1>2, <1>3, <1>4, <1>5, <1>6, <1>7, <1>8

HIDE DEF IInv, TypeOK, TerminalMatchesProvider, NoRefundOfUnknownDelivery,
         SubmittedAtMostOnce, RowKnowsSubmission, JobType, Terminal, Live, external,
         bounds

\* Every step keeps the invariant.
LEMMA INext == IInv /\ [Next]_vars => IInv'
<1> SUFFICES ASSUME IInv, [Next]_vars PROVE IInv'
  OBVIOUS
<1>1. TypeOK'
  BY TypeNext DEF IInv, TerminalMatchesProvider
<1>2. CASE Next
  BY <1>1, <1>2, ISubmit, ISettle, IOthers DEF Next, WorkerStep
<1>3. CASE UNCHANGED vars
  BY <1>1, <1>3 DEF vars, IInv, TerminalMatchesProvider, NoRefundOfUnknownDelivery,
        SubmittedAtMostOnce, RowKnowsSubmission, WorkerKnows, Owns
<1> QED BY <1>2, <1>3

\* The invariant always holds.
LEMMA Invariance == Spec => []IInv
BY IInit, INext, PTL DEF Spec

-----------------------------------------------------------------------------
\* However many workers crash, stall or retry, the provider is sent at most one
\* submission of a job (arm_generation_shutdown_quarantine, claim_generation_job).
THEOREM AtMostOneSubmission == Spec => []SubmittedAtMostOnce
<1>1. IInv => SubmittedAtMostOnce
  BY DEF IInv
<1> QED BY <1>1, Invariance, PTL

\* A job is never refunded while a provider task may exist for it, whichever
\* of the retry, deadline and cancellation paths ends it
\* (retain_generation_delivery_unknown, finish_generation_job_inner).
THEOREM NoUnknownRefund == Spec => []NoRefundOfUnknownDelivery
<1>1. IInv => NoRefundOfUnknownDelivery
  BY DEF IInv
<1> QED BY <1>1, Invariance, PTL

\* A job ends as its provider's task did and its reservation is settled exactly
\* once (finish_generation_job_inner, cancel_generation_job).
THEOREM EndsAsProvider == Spec => []TerminalMatchesProvider
<1>1. IInv => TerminalMatchesProvider
  BY DEF IInv
<1> QED BY <1>1, Invariance, PTL
=============================================================================
