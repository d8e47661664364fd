--------------------------- MODULE ArchiveStaging ---------------------------
(***************************************************************************)
(* How the request body of a generation job reaches object storage and    *)
(* how what is left over is deleted: the HTTP handlers that prepare one   *)
(* job under one idempotency key, the archive_staging_attempts rows with  *)
(* their writer and cleanup leases, and the archive reapers.              *)
(*                                                                         *)
(* Every call of create_generation begins an attempt of its own, so an    *)
(* attempt is named by its caller.  Leases are "live" or "expired"; a     *)
(* process that is running renews its lease and loses it only when it     *)
(* stalls.  Object storage is external: a write may land although its     *)
(* caller saw it fail.                                                     *)
(***************************************************************************)
EXTENDS Integers

CONSTANTS Callers,       \* handlers of create_generation, same idempotency key
          Reapers,       \* worker processes running an ArchiveReaper
          Nobody,
          AttachTries,   \* length of the retry_delay list
          MaxFaults      \* bound: lost acknowledgements of commits, failed
                         \* database and object-store operations, and leases
                         \* that lapse under a running process

ASSUME StagingAssumption ==
    /\ Callers \cap Reapers = {} /\ Nobody \notin Callers \cup Reapers
    /\ AttachTries \in Nat \ {0} /\ MaxFaults \in Nat

VARIABLES
    job,       \* the generation_jobs row: status, preparation lease, object
    staged,    \* archive_staging_attempts
    store,     \* prefixes under which object storage holds something
    caller,    \* the handlers
    reaper,    \* the reapers
    faults     \* faults so far

vars == <<job, staged, store, caller, reaper, faults>>

\* "done" stands for every status after the worker has settled the job.
\* by remembers whose object was queued when the locator is erased.
JobType == [status : {"none", "preparing", "queued", "failed", "done"},
            live : BOOLEAN,
            object : Callers \cup {Nobody},
            by : Callers \cup {Nobody}]
\* wait: next_cleanup_at lies ahead, by a retry's backoff ("short") or by
\* the stability window or the stale-writer grace ("long").
AttemptType == [state : {"none", "writing", "bound", "cleanup_pending", "cleaned"},
                holder : Callers \cup Reapers \cup {Nobody},
                live : BOOLEAN,
                wait : {"no", "short", "long"},
                observed : BOOLEAN]
\* refusing, refused: the handler's own error, before the attachment or a
\* conflict found by it; failing, failed: a database error of the attachment.
CallerType == [pc : {"idle", "preparing", "writing", "written", "abandoning",
                     "refusing", "failing", "accepted", "replayed", "refused",
                     "failed", "dead"},
               tries : 0..AttachTries - 1]
ReaperType == [pc : {"idle", "claimed", "proved", "deleted", "failed"},
               attempt : Callers \cup {Nobody}]

NoAttempt == [state |-> "none", holder |-> Nobody, live |-> FALSE,
              wait |-> "no", observed |-> FALSE]
Resting == [pc |-> "idle", attempt |-> Nobody]

Init ==
    /\ job = [status |-> "none", live |-> FALSE, object |-> Nobody, by |-> Nobody]
    /\ staged = [c \in Callers |-> NoAttempt]
    /\ store = {}
    /\ caller = [c \in Callers |-> [pc |-> "idle", tries |-> 0]]
    /\ reaper = [r \in Reapers |-> Resting]
    /\ faults = 0

CallerTo(c, pc) == caller' = [caller EXCEPT ![c] = [pc |-> pc, tries |-> 0]]
Fault == faults < MaxFaults /\ faults' = faults + 1

\* cleanup_archive_staging_attempt_in_transaction of one attempt, with no
\* time left to a writer that may still be at work.
Discarded(attempt) == [attempt EXCEPT !.state = "cleanup_pending",
    !.holder = Nobody, !.live = FALSE, !.wait = "no", !.observed = FALSE]
\* ... and of every attempt of the job.
CleanupPurpose ==
    staged' = [c \in Callers |->
        IF staged[c].state \in {"writing", "bound"} THEN Discarded(staged[c])
                                                    ELSE staged[c]]

HoldsLease(p, c) == staged[c].holder = p /\ staged[c].live

-----------------------------------------------------------------------------
(* create_generation: admission, staging, attachment.                      *)

start_generation_job(c) ==
    /\ caller[c].pc = "idle"
    /\ \/ /\ job.status = "none"
          /\ job' = [job EXCEPT !.status = "preparing", !.live = TRUE]
          /\ CallerTo(c, "preparing") /\ UNCHANGED staged
       \/ /\ job.status = "preparing" /\ ~job.live
          /\ job' = [job EXCEPT !.live = TRUE]
          /\ CleanupPurpose
          /\ CallerTo(c, "preparing")
       \/ /\ job.status \notin {"none", "preparing"} \/ job.live
          /\ CallerTo(c, "replayed") /\ UNCHANGED <<job, staged>>
    /\ UNCHANGED <<store, reaper, faults>>

begin_archive_staging_attempt(c) ==
    /\ caller[c].pc = "preparing"
    /\ \/ /\ staged' = [staged EXCEPT ![c] = [NoAttempt EXCEPT
                            !.state = "writing", !.holder = c, !.live = TRUE]]
          /\ CallerTo(c, "writing")
       \/ CallerTo(c, "refusing") /\ UNCHANGED staged
    /\ UNCHANGED <<job, store, reaper, faults>>

write_generation_staging_segments(c) ==
    /\ caller[c].pc = "writing"
    /\ \/ /\ store' = store \cup {c}
          /\ CallerTo(c, "written") /\ UNCHANGED faults
       \/ /\ Fault
          /\ store' \in {store, store \cup {c}}
          /\ CallerTo(c, "abandoning")
    /\ UNCHANGED <<job, staged, reaper>>

\* The heartbeat during the write: a fenced writer stops.
heartbeat_archive_staging_write(c) ==
    /\ caller[c].pc = "writing"
    /\ ~(staged[c].state = "writing" /\ HoldsLease(c, c))
    /\ store' \in {store, store \cup {c}}
    /\ CallerTo(c, "abandoning")
    /\ UNCHANGED <<job, staged, reaper, faults>>

\* A failed abandonment is returned before the job is failed.
abandon_archive_staging_attempt(c) ==
    LET left == IF staged[c].state = "writing" /\ HoldsLease(c, c)
                THEN [staged EXCEPT ![c] = Discarded(@)] ELSE staged
    IN /\ caller[c].pc = "abandoning"
       /\ \/ staged' = left /\ CallerTo(c, "refusing") /\ UNCHANGED faults
          \/ staged' \in {staged, left} /\ CallerTo(c, "refused") /\ Fault
       /\ UNCHANGED <<job, store, reaper>>

\* Mutant: a fenced writer still publishes its object.
BindsFenced(c) == staged[c].state # "cleaned"
\* bind_archive_staging_attempt_in_transaction succeeds: the writer's lease
\* is live, or an earlier try already bound the attempt.
Binds(c) == \/ staged[c].state = "writing" /\ HoldsLease(c, c)
            \/ staged[c].state = "bound"
Bound(attempt) == [attempt EXCEPT !.state = "bound", !.holder = Nobody,
                                  !.live = FALSE]

Promotable(c) == job.status = "preparing" /\ job.object = Nobody /\ job.live
AlreadyAttached(c) == job.status # "preparing" /\ job.object = c

\* Mutant: a try after an unknown commit is refused like the first one.
RefuseUnattached(c) == CallerTo(c, "refusing")
\* One more try after a commit of unknown outcome; after the last one the
\* known job is reported as accepted.
TryAgain(c) ==
    IF caller[c].tries + 1 = AttachTries
    THEN CallerTo(c, "accepted")
    ELSE caller' = [caller EXCEPT ![c].tries = @ + 1]

\* One try of attach_generation_job_request_staged.
attach_generation_job_request_staged(c) ==
    /\ caller[c].pc = "written"
    /\ IF Promotable(c) \/ AlreadyAttached(c)
       THEN IF Binds(c)
            THEN /\ job' = [job EXCEPT !.status = IF Promotable(c) THEN "queued" ELSE @,
                                       !.live = IF Promotable(c) THEN FALSE ELSE @,
                                       !.object = c, !.by = c]
                 /\ staged' = [staged EXCEPT ![c] = Bound(@)]
                 /\ \/ CallerTo(c, "accepted") /\ UNCHANGED faults
                    \/ Fault /\ TryAgain(c)
            ELSE CallerTo(c, "refusing") /\ UNCHANGED <<job, staged, faults>>
       ELSE /\ IF caller[c].tries > 0 THEN TryAgain(c) ELSE CallerTo(c, "refusing")
            /\ UNCHANGED <<job, staged, faults>>
    /\ UNCHANGED <<store, reaper>>

\* A try that fails before anything is committed: a connection that breaks
\* under begin or the promoting UPDATE is a commit of unknown outcome like
\* any other; an error the database reports, and any error of the SELECT, the
\* bind or the rollback, is returned at once, whatever earlier tries did.
AttachUnreached(c) ==
    /\ caller[c].pc = "written"
    /\ Fault
    /\ TryAgain(c) \/ CallerTo(c, "failing")
    /\ UNCHANGED <<job, staged, store, reaper>>

FailedPreparation == [job EXCEPT !.status = "failed", !.live = FALSE]

\* The client gets the error; a failure of this call leaves the job to expire.
fail_generation_job_preparation(c) ==
    /\ caller[c].pc \in {"refusing", "failing"}
    /\ CallerTo(c, IF caller[c].pc = "refusing" THEN "refused" ELSE "failed")
    /\ \/ /\ IF job.status = "preparing"
             THEN job' = FailedPreparation /\ CleanupPurpose
             ELSE UNCHANGED <<job, staged>>
          /\ UNCHANGED faults
       \/ Fault /\ UNCHANGED <<job, staged>>
    /\ UNCHANGED <<store, reaper>>

\* The gateway dies with its handlers; a write under way may still land.
Die(c) ==
    /\ caller[c].pc \in {"preparing", "writing", "written", "abandoning", "refusing",
                        "failing"}
    /\ store' \in {store, IF caller[c].pc = "writing" THEN store \cup {c} ELSE store}
    /\ CallerTo(c, "dead")
    /\ UNCHANGED <<job, staged, reaper, faults>>

-----------------------------------------------------------------------------
(* Workers: expiry of preparations, the end of the job.                    *)

expire_preparing_generation_jobs ==
    /\ job.status = "preparing" /\ ~job.live
    /\ job' = FailedPreparation
    /\ CleanupPurpose
    /\ UNCHANGED <<store, caller, reaper, faults>>

\* Any terminal transition of a queued job erases request_object.
FinishJob ==
    /\ job.status = "queued"
    /\ job' = [job EXCEPT !.status = "done", !.object = Nobody]
    /\ CleanupPurpose
    /\ UNCHANGED <<store, caller, reaper, faults>>

\* Mutant: only abandoned writers are cleaned up.
PromoteNothing == FALSE /\ UNCHANGED vars
promote_stale_archive_staging_attempts ==
    /\ \E c \in Callers :
          /\ staged[c].state = "writing" /\ ~staged[c].live
          /\ staged' = [staged EXCEPT ![c] = [Discarded(@) EXCEPT !.wait = "long"]]
    /\ UNCHANGED <<job, store, caller, reaper, faults>>

-----------------------------------------------------------------------------
(* The reapers.                                                            *)

claim_archive_staging_cleanup(r) ==
    /\ reaper[r].pc = "idle"
    /\ \E c \in Callers :
          /\ staged[c].state = "cleanup_pending" /\ staged[c].wait = "no"
          /\ ~staged[c].live
          /\ staged' = [staged EXCEPT ![c].holder = r, ![c].live = TRUE]
          /\ reaper' = [reaper EXCEPT ![r] = [pc |-> "claimed", attempt |-> c]]
    /\ UNCHANGED <<job, store, caller, faults>>

CleanupLease(r) ==
    /\ staged[reaper[r].attempt].state = "cleanup_pending"
    /\ HoldsLease(r, reaper[r].attempt)
Settle(r, attempt) ==
    staged' = [staged EXCEPT ![reaper[r].attempt] =
                  [attempt EXCEPT !.holder = Nobody, !.live = FALSE]]

prove_archive_staging_unreferenced(r) ==
    LET c == reaper[r].attempt IN
    /\ reaper[r].pc = "claimed"
    /\ IF ~CleanupLease(r)
       THEN reaper' = [reaper EXCEPT ![r].pc = "failed"] /\ UNCHANGED staged
       ELSE IF job.object = c
            THEN /\ Settle(r, [staged[c] EXCEPT !.observed = FALSE, !.wait = "short"])
                 /\ reaper' = [reaper EXCEPT ![r] = Resting]
            ELSE reaper' = [reaper EXCEPT ![r].pc = "proved"] /\ UNCHANGED staged
    /\ UNCHANGED <<job, store, caller, faults>>

delete_archive_staging_segment(r) ==
    /\ reaper[r].pc = "proved"
    /\ \/ /\ store' = store \ {reaper[r].attempt}
          /\ reaper' = [reaper EXCEPT ![r].pc = "deleted"]
          /\ UNCHANGED faults
       \/ /\ Fault
          /\ store' \in {store, store \ {reaper[r].attempt}}
          /\ reaper' = [reaper EXCEPT ![r].pc = "failed"]
    /\ UNCHANGED <<job, staged, caller>>

\* The prefix is listed after the deletion; an object that has landed since
\* makes it a failed cleanup.
record_archive_staging_empty(r) ==
    LET c == reaper[r].attempt IN
    /\ reaper[r].pc = "deleted"
    /\ IF c \in store
       THEN reaper' = [reaper EXCEPT ![r].pc = "failed"] /\ UNCHANGED staged
       ELSE /\ IF ~CleanupLease(r)
               THEN UNCHANGED staged
               ELSE IF staged[c].observed
                    THEN Settle(r, [staged[c] EXCEPT !.state = "cleaned"])
                    ELSE Settle(r, [staged[c] EXCEPT !.observed = TRUE, !.wait = "long"])
            /\ reaper' = [reaper EXCEPT ![r] = Resting]
    /\ UNCHANGED <<job, store, caller, faults>>

record_archive_staging_cleanup_failure(r) ==
    LET c == reaper[r].attempt IN
    /\ reaper[r].pc = "failed"
    /\ IF CleanupLease(r)
       THEN Settle(r, [staged[c] EXCEPT !.observed = FALSE, !.wait = "short"])
       ELSE UNCHANGED staged
    /\ reaper' = [reaper EXCEPT ![r] = Resting]
    /\ UNCHANGED <<job, store, caller, faults>>

-----------------------------------------------------------------------------
(* Time.                                                                   *)

PreparationExpires ==
    /\ job.live
    /\ job' = [job EXCEPT !.live = FALSE]
    /\ UNCHANGED <<staged, store, caller, reaper, faults>>

\* A handler renews its lease only while it writes.
Renewing(p, c) ==
    IF p \in Callers THEN caller[p].pc = "writing"
                     ELSE reaper[p].pc # "idle" /\ reaper[p].attempt = c
LeaseExpires ==
    \E c \in Callers :
        /\ staged[c].live
        /\ IF Renewing(staged[c].holder, c)
           THEN Fault ELSE UNCHANGED faults
        /\ staged' = [staged EXCEPT ![c].live = FALSE]
        /\ UNCHANGED <<job, store, caller, reaper>>

\* next_cleanup_at is reached.  A writer's heartbeat (20 s) comes before the
\* end of the stability window (60 s) and of the stale-writer grace (30 min).
CleanupDue ==
    \E c \in Callers :
        /\ staged[c].wait # "no"
        /\ staged[c].wait = "long" => caller[c].pc # "writing"
        /\ staged' = [staged EXCEPT ![c].wait = "no"]
        /\ UNCHANGED <<job, store, caller, reaper, faults>>

CallerStep(c) ==
    \/ begin_archive_staging_attempt(c)
    \/ write_generation_staging_segments(c)
    \/ heartbeat_archive_staging_write(c)
    \/ abandon_archive_staging_attempt(c)
    \/ attach_generation_job_request_staged(c)
    \/ AttachUnreached(c)
    \/ fail_generation_job_preparation(c)

ReaperStep(r) ==
    \/ claim_archive_staging_cleanup(r)
    \/ prove_archive_staging_unreferenced(r)
    \/ delete_archive_staging_segment(r)
    \/ record_archive_staging_empty(r)
    \/ record_archive_staging_cleanup_failure(r)

Next ==
    \/ \E c \in Callers : start_generation_job(c) \/ CallerStep(c) \/ Die(c)
    \/ \E r \in Reapers : ReaperStep(r)
    \/ expire_preparing_generation_jobs
    \/ FinishJob
    \/ promote_stale_archive_staging_attempts
    \/ PreparationExpires
    \/ LeaseExpires
    \/ CleanupDue

Spec == Init /\ [][Next]_vars

\* Handlers and reapers take their next step, the worker's timers fire, time
\* passes.  Nothing is assumed of clients or of the job itself.
FairSpec ==
    /\ Spec
    /\ \A c \in Callers : WF_vars(CallerStep(c))
    /\ \A r \in Reapers : WF_vars(ReaperStep(r))
    /\ WF_vars(expire_preparing_generation_jobs)
    /\ WF_vars(promote_stale_archive_staging_attempts)
    /\ WF_vars(PreparationExpires) /\ WF_vars(LeaseExpires) /\ WF_vars(CleanupDue)

-----------------------------------------------------------------------------
(* Properties.                                                             *)

\* Every variable stays in its domain; only attempts being written or
\* cleaned up are leased.
TypeOK ==
    /\ job \in JobType
    /\ staged \in [Callers -> AttemptType]
    /\ store \subseteq Callers
    /\ caller \in [Callers -> CallerType]
    /\ reaper \in [Reapers -> ReaperType]
    /\ \A c \in Callers : staged[c].live => staged[c].state \in {"writing", "cleanup_pending"}

\* A prefix that is given up for good holds nothing and nobody is still
\* writing to it: the second empty listing comes a stability window later.
CleanedPrefixesAreEmpty ==
    \A c \in Callers : staged[c].state = "cleaned" =>
        c \notin store /\ caller[c].pc # "writing"

\* A worker that claims a queued job finds its request: the object the job
\* names was completely written, is bound to the job and is never deleted
\* while the job needs it, whatever became of other attempts of that job, and
\* the reaper leaves nothing behind of those.  Every row has its shape.
QueuedRequestsAreStored ==
    /\ TypeOK
    /\ job.status = "queued" =>
          /\ job.object \in store
          /\ staged[job.object].state = "bound"
    /\ CleanedPrefixesAreEmpty

\* A client that is refused has not queued a job: after a commit without an
\* acknowledgement a later try that finds its job moved on, finished and
\* erased included, never takes that for another owner's, so that a client
\* without an idempotency key does not repeat a request that runs.  A database
\* error that a later try returns at once ("failed") gives no such promise: the
\* code reports it also when an earlier commit has queued the job.
RefusalMeansNotQueued ==
    \A c \in Callers : caller[c].pc = "refused" => job.by # c

\* Whatever crashed or stalled, the system comes back to a state in which
\* no preparation is open and every attempt is bound to its job or cleaned.
NothingIsLeftBehind ==
    []<>(/\ job.status # "preparing"
         /\ \A c \in Callers : staged[c].state \in {"none", "bound", "cleaned"})

=============================================================================
