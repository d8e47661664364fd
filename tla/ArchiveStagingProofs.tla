------------------------ MODULE ArchiveStagingProofs ------------------------
(***************************************************************************)
(* Proofs about ArchiveStaging, for any handlers and reapers: the object a *)
(* queued job names stays in storage, prefixes given up are empty, and a   *)
(* handler that refuses its client has not queued the job.                 *)
(*                                                                         *)
(* QueuedRequestsAreStored needs that a reaper only ever works on attempts *)
(* that were discarded, which never come back, and that the stability      *)
(* window outlasts the writer.  RefusalMeansNotQueued needs that a handler *)
(* whose attachment has committed is on a later try of it, or gave up with *)
(* a database error.                                                       *)
(***************************************************************************)
EXTENDS ArchiveStaging, TLAPS

\* The attempt of a handler begins with its write.
AttemptsFollowCallers ==
    \A c \in Callers : caller[c].pc \in {"idle", "preparing"} => staged[c].state = "none"

Given == {"cleanup_pending", "cleaned"}

\* A reaper works on an attempt that was given up.
ReapersHoldDiscarded ==
    \A r \in Reapers : reaper[r].pc # "idle" =>
        /\ reaper[r].attempt \in Callers
        /\ staged[reaper[r].attempt].state \in Given

\* What is bound, or about to be, has been written.
BoundIsStored ==
    \A c \in Callers :
        /\ staged[c].state = "bound" => c \in store
        /\ caller[c].pc = "written" /\ staged[c].state \notin Given => c \in store

\* The job names an object exactly while it is queued.
JobNamesBound ==
    /\ job.status = "queued" => job.object \in Callers /\ staged[job.object].state = "bound"
    /\ job.status # "queued" => job.object = Nobody

\* An attempt is seen empty the second time only when its writer has gone.
Settling(c) ==
    staged[c].state = "cleanup_pending" =>
        /\ staged[c].live => staged[c].wait = "no"
        /\ staged[c].observed /\ staged[c].wait # "long" => caller[c].pc # "writing"
WritersGone == \A c \in Callers : Settling(c)

\* A handler whose attachment has committed knows it, tries again or gives
\* up with a database error.
Attached(c) == /\ caller[c].pc \in {"written", "accepted", "failing", "failed", "dead"}
               /\ caller[c].pc = "written" => caller[c].tries > 0
QueuedIsKnown ==
    \A c \in Callers : job.by = c => job.status \in {"queued", "done"} /\ Attached(c)

\* The inductive invariant.
IInv == /\ TypeOK /\ AttemptsFollowCallers /\ ReapersHoldDiscarded /\ BoundIsStored
        /\ JobNamesBound /\ WritersGone /\ CleanedPrefixesAreEmpty /\ QueuedIsKnown

-----------------------------------------------------------------------------
\* The invariant holds at first.
LEMMA IInit == Init => IInv
<1> SUFFICES ASSUME Init PROVE IInv
  OBVIOUS
<1>1. /\ job \in JobType /\ job.status = "none" /\ job.object = Nobody /\ job.by = Nobody
  BY DEF Init, JobType
<1>2. NoAttempt \in AttemptType /\ NoAttempt.state = "none" /\ ~NoAttempt.live
  BY DEF NoAttempt, AttemptType
<1>3. staged \in [Callers -> AttemptType] /\ \A c \in Callers : staged[c] = NoAttempt
  BY <1>2 DEF Init
<1>4. caller \in [Callers -> CallerType] /\ \A c \in Callers : caller[c].pc = "idle"
  BY StagingAssumption DEF Init, CallerType
<1>5. reaper \in [Reapers -> ReaperType] /\ \A r \in Reapers : reaper[r].pc = "idle"
  BY DEF Init, ReaperType, Resting
<1>6. store = {}
  BY DEF Init
<1> QED
  BY <1>1, <1>2, <1>3, <1>4, <1>5, <1>6, StagingAssumption
  DEF IInv, TypeOK, AttemptsFollowCallers, ReapersHoldDiscarded, BoundIsStored, JobNamesBound,
      WritersGone, Settling, CleanedPrefixesAreEmpty, QueuedIsKnown

\* An attempt that is given up: nobody holds it and nothing was seen of it.
Drops(c) == /\ staged[c].state \in {"writing", "bound"} /\ staged'[c] \in AttemptType
            /\ staged'[c].state = "cleanup_pending" /\ ~staged'[c].live /\ ~staged'[c].observed
\* A handler goes on, and not back.
Proceeds(c) == /\ caller'[c] \in CallerType
               /\ caller'[c].pc \notin {"idle", "writing"}
               /\ caller'[c].pc = "preparing" => caller[c].pc = "idle"
               /\ caller'[c].pc = "written" => c \in store' \/ caller[c].pc = "written"
               /\ job.by = c => Attached(c)'

\* Handlers go on and attempts are given up; the job stays or leaves the queue.
LEMMA GoesOn ==
    ASSUME IInv, job' \in JobType, job'.by = job.by, UNCHANGED reaper,
           staged' \in [Callers -> AttemptType], caller' \in [Callers -> CallerType],
           \A c \in Callers : staged'[c] = staged[c] \/ Drops(c),
           \A c \in Callers : caller'[c] = caller[c] \/ Proceeds(c),
           job'.status = "queued" => /\ job.status = "queued" /\ job'.object = job.object
                                     /\ staged'[job.object] = staged[job.object],
           job'.status # "queued" => job'.object = Nobody,
           job.status \in {"queued", "done"} => job'.status \in {"queued", "done"},
           store \subseteq store', store' \subseteq Callers,
           \A c \in store' \ store : caller[c].pc = "writing"
    PROVE  IInv'
<1>1. TypeOK'
  BY DEF IInv, TypeOK, Drops
<1>2. \A c \in Callers : staged'[c].state = staged[c].state
                         \/ (staged[c].state # "none" /\ staged'[c].state = "cleanup_pending")
  BY DEF Drops
<1>3. AttemptsFollowCallers'
  BY <1>2 DEF IInv, AttemptsFollowCallers, Proceeds, Drops
<1>4. ReapersHoldDiscarded'
  BY DEF IInv, ReapersHoldDiscarded, Drops, Given
<1>5. BoundIsStored'
  BY DEF IInv, BoundIsStored, Drops, Given, Proceeds
<1>6. JobNamesBound'
  BY DEF IInv, JobNamesBound
<1>7. WritersGone'
  BY DEF IInv, WritersGone, Settling, Drops, Proceeds
<1>8. CleanedPrefixesAreEmpty'
  BY DEF IInv, CleanedPrefixesAreEmpty, Drops, Proceeds
<1>9. QueuedIsKnown'
  BY DEF IInv, QueuedIsKnown, Attached, Proceeds
<1> QED
  BY <1>1, <1>3, <1>4, <1>5, <1>6, <1>7, <1>8, <1>9 DEF IInv

\* A reaper goes on and time passes: an attempt keeps its state or is given
\* up for good.
LEMMA Tends ==
    ASSUME IInv, UNCHANGED <<job, caller>>, staged' \in [Callers -> AttemptType],
           reaper' \in [Reapers -> ReaperType], store' \subseteq store,
           \A c \in store \ store' : staged[c].state \in Given,
           \A r \in Reapers : reaper'[r].pc # "idle" =>
              reaper'[r].attempt \in Callers /\ staged[reaper'[r].attempt].state \in Given,
           \A c \in Callers :
              \/ staged'[c] = staged[c]
              \/ /\ staged'[c].state = staged[c].state /\ Settling(c)'
                 /\ staged'[c].live => staged[c].state \in {"writing", "cleanup_pending"}
              \/ /\ staged[c].state = "cleanup_pending" /\ staged'[c].state = "cleaned"
                 /\ ~staged'[c].live /\ c \notin store' /\ caller[c].pc # "writing"
    PROVE  IInv'
<1>1. TypeOK'
  BY DEF IInv, TypeOK
<1>2. AttemptsFollowCallers' /\ JobNamesBound'
  BY DEF IInv, AttemptsFollowCallers, JobNamesBound
<1>3. ReapersHoldDiscarded'
  BY DEF IInv, ReapersHoldDiscarded, Given
<1>4. BoundIsStored'
  BY DEF IInv, BoundIsStored, Given
<1>5. WritersGone'
  BY DEF IInv, WritersGone, Settling
<1>6. CleanedPrefixesAreEmpty'
  BY DEF IInv, CleanedPrefixesAreEmpty
<1>7. QueuedIsKnown'
  BY DEF IInv, QueuedIsKnown, Attached
<1> QED
  BY <1>1, <1>2, <1>3, <1>4, <1>5, <1>6, <1>7 DEF IInv

-----------------------------------------------------------------------------
(* What the helpers of the actions do.                                     *)

CallerPcs == {"idle", "preparing", "writing", "written", "abandoning", "refusing", "failing",
              "accepted", "replayed", "refused", "failed", "dead"}

\* The types of the tables, part by part.
LEMMA TypeFacts ==
    ASSUME IInv
    PROVE  /\ job \in JobType /\ staged \in [Callers -> AttemptType] /\ store \subseteq Callers
           /\ caller \in [Callers -> CallerType] /\ reaper \in [Reapers -> ReaperType]
           /\ Nobody \notin Callers /\ Nobody \notin Reapers /\ AttachTries \in Nat \ {0}
BY StagingAssumption DEF IInv, TypeOK

\* A caller that moves on.
LEMMA CallerToFacts ==
    ASSUME IInv, NEW c \in Callers, NEW pc \in CallerPcs, CallerTo(c, pc)
    PROVE  /\ caller' \in [Callers -> CallerType] /\ caller'[c].pc = pc /\ caller'[c].tries = 0
           /\ caller'[c] \in CallerType
           /\ \A d \in Callers \ {c} : caller'[d] = caller[d]
<1>1. [pc |-> pc, tries |-> 0] \in CallerType
  BY TypeFacts DEF CallerType, CallerPcs
<1> QED
  BY <1>1, TypeFacts DEF CallerTo

\* One more try after a commit of unknown outcome, or the job is reported as
\* accepted.
LEMMA TryAgainFacts ==
    ASSUME IInv, NEW c \in Callers, caller[c].pc = "written", TryAgain(c)
    PROVE  /\ caller' \in [Callers -> CallerType] /\ caller'[c] \in CallerType
           /\ caller'[c].pc \in {"written", "accepted"}
           /\ caller'[c].pc = "written" => caller'[c].tries > 0
           /\ \A d \in Callers \ {c} : caller'[d] = caller[d]
<1>1. CASE caller[c].tries + 1 = AttachTries
  <2>1. CallerTo(c, "accepted")
    BY <1>1 DEF TryAgain
  <2> QED
    BY <2>1, CallerToFacts DEF CallerPcs
<1>2. CASE caller[c].tries + 1 # AttachTries
  <2>1. caller' = [caller EXCEPT ![c].tries = @ + 1]
    BY <1>2 DEF TryAgain
  <2>2. caller[c].tries \in 0..AttachTries - 1 /\ AttachTries \in Nat
    BY TypeFacts DEF CallerType
  <2>3. caller[c].tries + 1 \in 0..AttachTries - 1
    BY <1>2, <2>2
  <2> QED
    BY <2>1, <2>2, <2>3, TypeFacts DEF CallerType
<1> QED
  BY <1>1, <1>2

\* What discarding makes of an attempt.
LEMMA DiscardedFacts ==
    ASSUME NEW a \in AttemptType
    PROVE  /\ Discarded(a) \in AttemptType /\ Discarded(a).state = "cleanup_pending"
           /\ ~Discarded(a).live /\ ~Discarded(a).observed
<1>1. Discarded(a) \in AttemptType
  BY DEF Discarded, AttemptType
<1>2. Discarded(a).state = "cleanup_pending" /\ ~Discarded(a).live /\ ~Discarded(a).observed
  BY DEF Discarded, AttemptType
<1> QED
  BY <1>1, <1>2

\* Cleaning a job up discards attempts and does nothing else to them.
LEMMA CleanupFacts ==
    ASSUME IInv, CleanupPurpose
    PROVE  /\ staged' \in [Callers -> AttemptType]
           /\ \A c \in Callers : staged'[c] = staged[c] \/ Drops(c)
<1>1. \A c \in Callers : staged'[c] = IF staged[c].state \in {"writing", "bound"}
                                      THEN Discarded(staged[c]) ELSE staged[c]
  BY DEF CleanupPurpose
<1>2. \A c \in Callers : staged[c] \in AttemptType
  BY TypeFacts
<1>3. \A c \in Callers : staged'[c] \in AttemptType /\ (staged'[c] = staged[c] \/ Drops(c))
  BY <1>1, <1>2, DiscardedFacts DEF Drops
<1>4. staged' = [c \in Callers |-> staged'[c]]
  BY DEF CleanupPurpose
<1> QED
  BY <1>3, <1>4

-----------------------------------------------------------------------------
(* The handlers.                                                           *)

\* A caller finds or creates the job.
LEMMA IStart == ASSUME IInv, NEW c \in Callers, start_generation_job(c) PROVE IInv'
<1>t. job \in JobType /\ store \subseteq Callers /\ Nobody \notin Callers /\ Nobody \notin Reapers
      /\ staged \in [Callers -> AttemptType]
  BY TypeFacts
<1>u. UNCHANGED <<store, reaper>> /\ caller[c].pc = "idle"
  BY DEF start_generation_job
<1>b. job.by # c
  BY <1>u DEF IInv, QueuedIsKnown, Attached
<1>p. ASSUME NEW pc \in {"preparing", "replayed"}, CallerTo(c, pc)
      PROVE  /\ caller' \in [Callers -> CallerType]
             /\ \A d \in Callers : caller'[d] = caller[d] \/ Proceeds(d)
  BY <1>p, <1>u, <1>b, CallerToFacts DEF CallerPcs, Proceeds
<1>1. CASE /\ job.status \in {"none", "preparing"} /\ CallerTo(c, "preparing")
           /\ job' = [job EXCEPT !.status = "preparing", !.live = TRUE]
           /\ UNCHANGED staged \/ CleanupPurpose
  <2>1. /\ job' \in JobType /\ job'.by = job.by /\ job'.status = "preparing"
        /\ job'.object = job.object
    BY <1>1, <1>t DEF JobType
  <2>2. job.object = Nobody
    BY <1>1 DEF IInv, JobNamesBound
  <2>3. /\ staged' \in [Callers -> AttemptType]
        /\ \A d \in Callers : staged'[d] = staged[d] \/ Drops(d)
    BY <1>1, <1>t, CleanupFacts
  <2> QED
    BY <1>1, <1>t, <1>u, <1>p, <2>1, <2>2, <2>3, GoesOn
<1>2. CASE CallerTo(c, "replayed") /\ UNCHANGED <<job, staged>>
  BY <1>2, <1>t, <1>u, <1>p, GoesOn DEF IInv, JobNamesBound
<1>3. CASE /\ job.status = "none"
           /\ job' = [job EXCEPT !.status = "preparing", !.live = TRUE]
           /\ CallerTo(c, "preparing") /\ UNCHANGED staged
  BY <1>1, <1>3
<1>4. CASE /\ job.status = "preparing" /\ ~job.live /\ job' = [job EXCEPT !.live = TRUE]
           /\ CleanupPurpose /\ CallerTo(c, "preparing")
  <2>1. job' = [job EXCEPT !.status = "preparing", !.live = TRUE]
    BY <1>4, <1>t DEF JobType
  <2> QED
    BY <1>1, <1>4, <2>1
<1> QED
  BY <1>2, <1>3, <1>4, Zenon DEF start_generation_job

\* A caller stages the request body.
LEMMA IBegin == ASSUME IInv, NEW c \in Callers, begin_archive_staging_attempt(c) PROVE IInv'
<1>t. /\ job \in JobType /\ store \subseteq Callers /\ staged \in [Callers -> AttemptType]
      /\ caller \in [Callers -> CallerType]
  BY TypeFacts
<1>u. UNCHANGED <<job, store, reaper>> /\ caller[c].pc = "preparing"
  BY DEF begin_archive_staging_attempt
<1>b. job.by # c /\ staged[c].state = "none"
  BY <1>u DEF IInv, QueuedIsKnown, Attached, AttemptsFollowCallers
<1>1. CASE CallerTo(c, "refusing") /\ UNCHANGED staged
  <2>1. /\ caller' \in [Callers -> CallerType]
        /\ \A d \in Callers : caller'[d] = caller[d] \/ Proceeds(d)
    BY <1>1, <1>b, CallerToFacts DEF CallerPcs, Proceeds
  <2> QED
    BY <1>1, <1>t, <1>u, <2>1, GoesOn DEF IInv, JobNamesBound
<1>2. CASE /\ CallerTo(c, "writing")
           /\ staged' = [staged EXCEPT ![c] = [NoAttempt EXCEPT
                            !.state = "writing", !.holder = c, !.live = TRUE]]
  <2> DEFINE new == [NoAttempt EXCEPT !.state = "writing", !.holder = c, !.live = TRUE]
  <2>1. new \in AttemptType /\ new.state = "writing"
    <3>1. NoAttempt \in AttemptType
      BY DEF NoAttempt, AttemptType
    <3> QED
      BY <3>1 DEF AttemptType
  <2>2. staged' = [staged EXCEPT ![c] = new]
    BY <1>2
  <2> HIDE DEF new
  <2>3. /\ staged' \in [Callers -> AttemptType] /\ staged'[c].state = "writing"
        /\ \A d \in Callers \ {c} : staged'[d] = staged[d]
    BY <1>t, <2>1, <2>2
  <2>4. /\ caller' \in [Callers -> CallerType] /\ caller'[c].pc = "writing"
        /\ \A d \in Callers \ {c} : caller'[d] = caller[d]
    BY <1>2, CallerToFacts DEF CallerPcs
  <2>5. TypeOK'
    BY <1>u, <2>3, <2>4 DEF IInv, TypeOK
  <2>6. AttemptsFollowCallers' /\ BoundIsStored'
    BY <1>u, <2>3, <2>4 DEF IInv, AttemptsFollowCallers, BoundIsStored
  <2>7. ReapersHoldDiscarded' /\ JobNamesBound'
    BY <1>b, <1>u, <2>3 DEF IInv, ReapersHoldDiscarded, JobNamesBound, Given
  <2>8. WritersGone' /\ CleanedPrefixesAreEmpty'
    BY <1>u, <2>3, <2>4 DEF IInv, WritersGone, Settling, CleanedPrefixesAreEmpty
  <2>9. QueuedIsKnown'
    BY <1>b, <1>u, <2>4 DEF IInv, QueuedIsKnown, Attached
  <2> QED
    BY <2>5, <2>6, <2>7, <2>8, <2>9 DEF IInv
<1> QED
  BY <1>1, <1>2, Zenon DEF begin_archive_staging_attempt

\* The job and the attempts stay as they are.
LEMMA IWrites ==
    ASSUME IInv, NEW c \in Callers,
           \/ write_generation_staging_segments(c) \/ heartbeat_archive_staging_write(c)
           \/ AttachUnreached(c) \/ Die(c)
    PROVE  IInv'
<1>t. job \in JobType /\ store \subseteq Callers /\ staged \in [Callers -> AttemptType]
  BY TypeFacts
<1>u. UNCHANGED <<job, staged, reaper>>
  BY Zenon DEF write_generation_staging_segments, heartbeat_archive_staging_write, AttachUnreached,
               Die
<1>s. /\ store \subseteq store' /\ store' \subseteq Callers
      /\ \A d \in store' \ store : caller[d].pc = "writing"
  <2>1. store' = store \/ (store' = store \cup {c} /\ caller[c].pc = "writing")
    BY DEF write_generation_staging_segments, heartbeat_archive_staging_write, AttachUnreached, Die
  <2> QED
    BY <1>t, <2>1
<1>b. caller[c].pc \in {"preparing", "writing", "abandoning", "refusing"} => job.by # c
  BY DEF IInv, QueuedIsKnown, Attached
<1>1. /\ caller' \in [Callers -> CallerType]
      /\ \A d \in Callers : caller'[d] = caller[d] \/ Proceeds(d)
  <2>1. CASE write_generation_staging_segments(c)
    <3>1. /\ (CallerTo(c, "written") /\ c \in store') \/ CallerTo(c, "abandoning")
          /\ caller[c].pc = "writing"
      BY <2>1 DEF write_generation_staging_segments
    <3> QED
      BY <1>b, <3>1, CallerToFacts DEF Proceeds, CallerPcs
  <2>2. CASE heartbeat_archive_staging_write(c)
    BY <1>b, <2>2, CallerToFacts DEF Proceeds, CallerPcs, heartbeat_archive_staging_write
  <2>3. CASE AttachUnreached(c)
    <3>1. caller[c].pc = "written" /\ (TryAgain(c) \/ CallerTo(c, "failing"))
      BY <2>3 DEF AttachUnreached
    <3>2. CASE TryAgain(c)
      BY <3>1, <3>2, TryAgainFacts DEF Proceeds, Attached
    <3>3. CASE CallerTo(c, "failing")
      BY <3>3, CallerToFacts DEF Proceeds, CallerPcs, Attached
    <3> QED
      BY <3>1, <3>2, <3>3
  <2>4. CASE Die(c)
    <3>1. CallerTo(c, "dead")
      BY <2>4 DEF Die
    <3> QED
      BY <3>1, CallerToFacts DEF Proceeds, CallerPcs, Attached
  <2> QED
    BY <2>1, <2>2, <2>3, <2>4
<1> QED
  BY <1>t, <1>u, <1>s, <1>1, GoesOn DEF IInv, JobNamesBound

\* A caller abandons its attempt.
LEMMA IAbandon == ASSUME IInv, NEW c \in Callers, abandon_archive_staging_attempt(c) PROVE IInv'
<1>t. job \in JobType /\ store \subseteq Callers /\ staged \in [Callers -> AttemptType]
  BY TypeFacts
<1>u. /\ UNCHANGED <<job, store, reaper>> /\ caller[c].pc = "abandoning"
      /\ CallerTo(c, "refusing") \/ CallerTo(c, "refused")
  BY DEF abandon_archive_staging_attempt
<1>1. /\ caller' \in [Callers -> CallerType]
      /\ \A d \in Callers : caller'[d] = caller[d] \/ Proceeds(d)
  BY <1>u, CallerToFacts DEF IInv, QueuedIsKnown, Attached, Proceeds, CallerPcs
<1>2. \/ staged' = staged
      \/ staged[c].state = "writing" /\ staged' = [staged EXCEPT ![c] = Discarded(staged[c])]
  BY DEF abandon_archive_staging_attempt
<1>3. Discarded(staged[c]) \in AttemptType /\ Discarded(staged[c]).state = "cleanup_pending"
      /\ ~Discarded(staged[c]).live /\ ~Discarded(staged[c]).observed
  BY <1>t, DiscardedFacts
<1>4. /\ staged' \in [Callers -> AttemptType]
      /\ \A d \in Callers : staged'[d] = staged[d] \/ (Drops(d) /\ staged[d].state = "writing")
  BY <1>t, <1>2, <1>3 DEF Drops
<1> QED
  BY <1>t, <1>u, <1>1, <1>4, GoesOn DEF IInv, JobNamesBound

\* What the end of a preparation or of the job leaves.
LEMMA Ends ==
    ASSUME IInv, job' \in JobType, job'.by = job.by, job'.object = Nobody,
           job'.status \notin {"queued"}, UNCHANGED <<store, reaper>>, CleanupPurpose,
           job.status \in {"queued", "done"} => job'.status = "done",
           caller' \in [Callers -> CallerType],
           \A c \in Callers : caller'[c] = caller[c] \/ Proceeds(c)
    PROVE  IInv'
BY TypeFacts, CleanupFacts, GoesOn

\* A job that failed in preparation names no object.
LEMMA FailedFacts ==
    ASSUME IInv, job.status = "preparing", job' = FailedPreparation
    PROVE  /\ job' \in JobType /\ job'.by = job.by /\ job'.object = Nobody
           /\ job'.status = "failed"
<1>1. job \in JobType /\ job.object = Nobody
  BY TypeFacts DEF IInv, JobNamesBound
<1> QED
  BY <1>1 DEF FailedPreparation, JobType

\* A caller fails the preparation.
LEMMA IFail == ASSUME IInv, NEW c \in Callers, fail_generation_job_preparation(c) PROVE IInv'
<1>t. job \in JobType /\ store \subseteq Callers /\ staged \in [Callers -> AttemptType]
  BY TypeFacts
<1>u. /\ UNCHANGED <<store, reaper>>
      /\ \/ caller[c].pc = "refusing" /\ CallerTo(c, "refused")
         \/ caller[c].pc = "failing" /\ CallerTo(c, "failed")
  BY DEF fail_generation_job_preparation
<1>1. /\ caller' \in [Callers -> CallerType]
      /\ \A d \in Callers : caller'[d] = caller[d] \/ Proceeds(d)
  BY <1>u, CallerToFacts DEF IInv, QueuedIsKnown, Attached, Proceeds, CallerPcs
<1>2. CASE job.status = "preparing" /\ job' = FailedPreparation /\ CleanupPurpose
  BY <1>u, <1>1, <1>2, FailedFacts, Ends
<1>3. CASE UNCHANGED <<job, staged>>
  BY <1>t, <1>u, <1>1, <1>3, GoesOn DEF IInv, JobNamesBound
<1> QED
  BY <1>2, <1>3 DEF fail_generation_job_preparation

-----------------------------------------------------------------------------
(* The workers and the preparation's clock.                                *)

\* The worker fails preparations that took too long.
LEMMA IExpire == ASSUME IInv, expire_preparing_generation_jobs PROVE IInv'
BY TypeFacts, FailedFacts, Ends DEF expire_preparing_generation_jobs

\* The job runs to its end.
LEMMA IFinish == ASSUME IInv, FinishJob PROVE IInv'
<1>1. /\ job' \in JobType /\ job'.by = job.by /\ job'.object = Nobody
      /\ job'.status = "done"
  BY TypeFacts DEF FinishJob, JobType
<1> QED
  BY <1>1, TypeFacts, Ends DEF FinishJob

\* The preparation deadline passes.
LEMMA ILapse == ASSUME IInv, PreparationExpires PROVE IInv'
<1>1. /\ job' \in JobType /\ job'.by = job.by /\ job'.object = job.object
      /\ job'.status = job.status
  BY TypeFacts DEF PreparationExpires, JobType
<1> QED
  BY <1>1, TypeFacts, GoesOn DEF PreparationExpires, IInv, JobNamesBound

\* Attempts that lost their purpose become due for cleanup.
LEMMA IPromote == ASSUME IInv, promote_stale_archive_staging_attempts PROVE IInv'
<1>t. job \in JobType /\ store \subseteq Callers /\ staged \in [Callers -> AttemptType]
      /\ caller \in [Callers -> CallerType]
  BY TypeFacts
<1>u. UNCHANGED <<job, store, caller, reaper>>
  BY DEF promote_stale_archive_staging_attempts
<1>1. PICK c \in Callers :
        /\ staged[c].state = "writing"
        /\ staged' = [staged EXCEPT ![c] = [Discarded(staged[c]) EXCEPT !.wait = "long"]]
  BY DEF promote_stale_archive_staging_attempts
<1> DEFINE new == [Discarded(staged[c]) EXCEPT !.wait = "long"]
<1>2. staged[c] \in AttemptType /\ Discarded(staged[c]) \in AttemptType
  BY <1>t, DiscardedFacts
<1>3. new \in AttemptType /\ new.state = "cleanup_pending" /\ ~new.live /\ ~new.observed
  BY <1>2, DiscardedFacts DEF AttemptType
<1>4. staged' = [staged EXCEPT ![c] = new]
  BY <1>1
<1> HIDE DEF new
<1>5. /\ staged' \in [Callers -> AttemptType]
      /\ \A d \in Callers : staged'[d] = staged[d] \/ (Drops(d) /\ staged[d].state = "writing")
  BY <1>1, <1>t, <1>3, <1>4 DEF Drops
<1> QED
  BY <1>t, <1>u, <1>5, GoesOn DEF IInv, JobNamesBound

-----------------------------------------------------------------------------
(* The attachment.                                                         *)

\* What binding makes of an attempt.
LEMMA BoundFacts ==
    ASSUME NEW a \in AttemptType
    PROVE  Bound(a) \in AttemptType /\ Bound(a).state = "bound" /\ ~Bound(a).live
<1>1. Bound(a) \in AttemptType
  BY DEF Bound, AttemptType
<1>2. Bound(a).state = "bound" /\ ~Bound(a).live
  BY DEF Bound, AttemptType
<1> QED
  BY <1>1, <1>2

\* The try that commits: the object is in storage because the lease, or an
\* earlier commit, kept the attempt from being given up.
LEMMA IAttached ==
    ASSUME IInv, NEW c \in Callers, caller[c].pc = "written", Binds(c),
           Promotable(c) \/ AlreadyAttached(c),
           job' = [job EXCEPT !.status = IF Promotable(c) THEN "queued" ELSE @,
                              !.live = IF Promotable(c) THEN FALSE ELSE @,
                              !.object = c, !.by = c],
           staged' = [staged EXCEPT ![c] = Bound(@)],
           CallerTo(c, "accepted") \/ TryAgain(c), UNCHANGED <<store, reaper>>
    PROVE  IInv'
<1>t. /\ job \in JobType /\ store \subseteq Callers /\ staged \in [Callers -> AttemptType]
      /\ Nobody \notin Callers
  BY TypeFacts
<1>1. AlreadyAttached(c) => job.status = "queued"
  BY <1>t DEF IInv, JobNamesBound, AlreadyAttached
<1>2. job' \in JobType /\ job'.object = c /\ job'.by = c
  BY <1>t DEF JobType
<1>3. job'.status = "queued"
  BY <1>t, <1>1 DEF JobType
<1>4. /\ staged' \in [Callers -> AttemptType] /\ staged'[c].state = "bound" /\ ~staged'[c].live
      /\ \A d \in Callers \ {c} : staged'[d] = staged[d]
  BY <1>t, BoundFacts
<1>5. staged[c].state \in {"writing", "bound"} /\ c \in store
  BY DEF Binds, IInv, BoundIsStored, Given
<1>6. /\ caller' \in [Callers -> CallerType] /\ Attached(c)'
      /\ caller'[c].pc \in {"written", "accepted"}
      /\ \A d \in Callers \ {c} : caller'[d] = caller[d]
  BY CallerToFacts, TryAgainFacts DEF CallerPcs, Attached
<1>7. TypeOK'
  BY <1>2, <1>4, <1>6 DEF IInv, TypeOK
<1>8. AttemptsFollowCallers'
  BY <1>4, <1>6 DEF IInv, AttemptsFollowCallers
<1>9. ReapersHoldDiscarded'
  BY <1>4, <1>5 DEF IInv, ReapersHoldDiscarded, Given
<1>10. BoundIsStored'
  BY <1>4, <1>5, <1>6 DEF IInv, BoundIsStored, Given
<1>11. JobNamesBound'
  BY <1>2, <1>3, <1>4 DEF JobNamesBound
<1>12. WritersGone' /\ CleanedPrefixesAreEmpty'
  BY <1>4, <1>6 DEF IInv, WritersGone, Settling, CleanedPrefixesAreEmpty
<1>13. QueuedIsKnown'
  BY <1>2, <1>3, <1>6 DEF QueuedIsKnown
<1> QED
  BY <1>7, <1>8, <1>9, <1>10, <1>11, <1>12, <1>13 DEF IInv

\* The job takes the staged body and is queued, in one transaction.
LEMMA IAttach ==
    ASSUME IInv, NEW c \in Callers, attach_generation_job_request_staged(c) PROVE IInv'
<1>t. /\ job \in JobType /\ store \subseteq Callers /\ staged \in [Callers -> AttemptType]
      /\ Nobody \notin Callers
  BY TypeFacts
<1>u. UNCHANGED <<store, reaper>> /\ caller[c].pc = "written"
  BY DEF attach_generation_job_request_staged
<1>1. CASE /\ Promotable(c) \/ AlreadyAttached(c)
           /\ Binds(c)
           /\ job' = [job EXCEPT !.status = IF Promotable(c) THEN "queued" ELSE @,
                                 !.live = IF Promotable(c) THEN FALSE ELSE @,
                                 !.object = c, !.by = c]
           /\ staged' = [staged EXCEPT ![c] = Bound(@)]
           /\ CallerTo(c, "accepted") \/ TryAgain(c)
  BY <1>u, <1>1, IAttached
<1>s. ASSUME UNCHANGED <<job, staged>>,
             TryAgain(c) \/ (CallerTo(c, "refusing") /\ job.by # c)
      PROVE  IInv'
  <2>1. /\ caller' \in [Callers -> CallerType]
        /\ \A d \in Callers : caller'[d] = caller[d] \/ Proceeds(d)
    <3>1. CASE TryAgain(c)
      BY <1>u, <3>1, TryAgainFacts DEF Proceeds, Attached
    <3>2. CASE CallerTo(c, "refusing") /\ job.by # c
      BY <1>u, <3>2, CallerToFacts DEF Proceeds, CallerPcs
    <3> QED
      BY <1>s, <3>1, <3>2
  <2> QED
    BY <1>t, <1>u, <1>s, <2>1, GoesOn DEF IInv, JobNamesBound
<1>2. CASE /\ Promotable(c) \/ AlreadyAttached(c)
           /\ ~Binds(c) /\ CallerTo(c, "refusing") /\ UNCHANGED <<job, staged>>
  <2>1. ~AlreadyAttached(c)
    BY <1>2, <1>t DEF AlreadyAttached, IInv, JobNamesBound, Binds
  <2>2. job.by # c
    BY <1>2, <2>1 DEF Promotable, IInv, QueuedIsKnown
  <2> QED
    BY <1>s, <1>2, <2>2
<1>3. CASE /\ UNCHANGED <<job, staged>>
           /\ IF caller[c].tries > 0 THEN TryAgain(c) ELSE CallerTo(c, "refusing")
  <2>1. job.by = c => caller[c].tries > 0
    BY <1>u DEF IInv, QueuedIsKnown, Attached
  <2> QED
    BY <1>s, <1>3, <2>1
<1> QED
  BY <1>1, <1>2, <1>3, Zenon DEF attach_generation_job_request_staged

-----------------------------------------------------------------------------
(* The reapers and the attempts' clocks.                                   *)

\* A reaper leases a discarded attempt.
LEMMA IClaim == ASSUME IInv, NEW r \in Reapers, claim_archive_staging_cleanup(r) PROVE IInv'
<1>t. /\ store \subseteq Callers /\ staged \in [Callers -> AttemptType]
      /\ reaper \in [Reapers -> ReaperType]
  BY TypeFacts
<1>u. UNCHANGED <<job, store, caller>>
  BY DEF claim_archive_staging_cleanup
<1>1. PICK c \in Callers :
        /\ staged[c].state = "cleanup_pending" /\ staged[c].wait = "no"
        /\ staged' = [staged EXCEPT ![c].holder = r, ![c].live = TRUE]
        /\ reaper' = [reaper EXCEPT ![r] = [pc |-> "claimed", attempt |-> c]]
  BY DEF claim_archive_staging_cleanup
<1>2. /\ staged' \in [Callers -> AttemptType]
      /\ \A d \in Callers \ {c} : staged'[d] = staged[d]
  BY <1>t, <1>1 DEF AttemptType
<1>3. staged'[c].state = "cleanup_pending" /\ staged'[c].wait = "no"
      /\ staged'[c].observed = staged[c].observed
  BY <1>t, <1>1 DEF AttemptType
<1>4. Settling(c)'
  BY <1>1, <1>3, <1>u DEF Settling, IInv, WritersGone
<1>5. /\ reaper' \in [Reapers -> ReaperType]
      /\ reaper'[r].attempt = c /\ \A q \in Reapers \ {r} : reaper'[q] = reaper[q]
  BY <1>t, <1>1 DEF ReaperType
<1>6. \A q \in Reapers : reaper'[q].pc # "idle" =>
          reaper'[q].attempt \in Callers /\ staged[reaper'[q].attempt].state \in Given
  BY <1>1, <1>5 DEF IInv, ReapersHoldDiscarded, Given
<1> QED
  BY <1>1, <1>2, <1>3, <1>4, <1>5, <1>6, <1>u, Tends

\* A reaper at work puts its attempt down, changed in its own way.
LEMMA ReaperMoves ==
    ASSUME IInv, NEW r \in Reapers, NEW pc \in {"proved", "deleted", "failed"},
           reaper[r].pc # "idle",
           \/ reaper' = [reaper EXCEPT ![r].pc = pc]
           \/ reaper' = [reaper EXCEPT ![r] = Resting]
    PROVE  /\ reaper' \in [Reapers -> ReaperType]
           /\ \A q \in Reapers : reaper'[q].pc # "idle" =>
                reaper'[q].attempt \in Callers /\ staged[reaper'[q].attempt].state \in Given
<1>t. reaper \in [Reapers -> ReaperType]
  BY TypeFacts
<1>1. CASE reaper' = [reaper EXCEPT ![r].pc = pc]
  <2>1. /\ reaper' \in [Reapers -> ReaperType] /\ reaper'[r].attempt = reaper[r].attempt
        /\ \A q \in Reapers \ {r} : reaper'[q] = reaper[q]
    BY <1>t, <1>1 DEF ReaperType
  <2> QED
    BY <2>1 DEF IInv, ReapersHoldDiscarded
<1>2. CASE reaper' = [reaper EXCEPT ![r] = Resting]
  <2>1. /\ reaper' \in [Reapers -> ReaperType] /\ reaper'[r].pc = "idle"
        /\ \A q \in Reapers \ {r} : reaper'[q] = reaper[q]
    BY <1>t, <1>2 DEF ReaperType, Resting
  <2> QED
    BY <2>1 DEF IInv, ReapersHoldDiscarded
<1> QED
  BY <1>1, <1>2

\* A reaper writes the attempt it holds and lets it go.
LEMMA SettleFacts ==
    ASSUME IInv, NEW r \in Reapers, reaper[r].attempt \in Callers, NEW a \in AttemptType,
           Settle(r, a)
    PROVE  /\ staged' \in [Callers -> AttemptType]
           /\ staged'[reaper[r].attempt].state = a.state
           /\ staged'[reaper[r].attempt].wait = a.wait
           /\ ~staged'[reaper[r].attempt].live
           /\ staged'[reaper[r].attempt].observed = a.observed
           /\ \A d \in Callers \ {reaper[r].attempt} : staged'[d] = staged[d]
<1> DEFINE new == [a EXCEPT !.holder = Nobody, !.live = FALSE]
<1>1. new \in AttemptType
  BY DEF AttemptType
<1>2. new.state = a.state /\ new.wait = a.wait /\ ~new.live
  BY DEF AttemptType
<1>3. new.observed = a.observed
  BY DEF AttemptType
<1>4. staged' = [staged EXCEPT ![reaper[r].attempt] = new]
  BY DEF Settle
<1> HIDE DEF new
<1> QED
  BY <1>1, <1>2, <1>3, <1>4, TypeFacts

\* An attempt whose cleanup is put off.
LEMMA PutOff ==
    ASSUME IInv, NEW r \in Reapers, reaper[r].pc # "idle",
           NEW o \in BOOLEAN, NEW w \in {"short", "long"}, o => w = "long",
           Settle(r, [staged[reaper[r].attempt] EXCEPT !.observed = o, !.wait = w]),
           reaper' = [reaper EXCEPT ![r] = Resting], UNCHANGED <<job, store, caller>>
    PROVE  IInv'
<1>1. PICK c \in Callers : c = reaper[r].attempt
  BY DEF IInv, ReapersHoldDiscarded
<1>t. staged[c] \in AttemptType /\ store \subseteq Callers
  BY TypeFacts
<1>2. Settle(r, [staged[c] EXCEPT !.observed = o, !.wait = w])
  BY <1>1
<1>3. PICK a \in AttemptType :
         /\ a.state = staged[c].state /\ a.wait = w /\ a.observed = o /\ Settle(r, a)
  <2> DEFINE a == [staged[c] EXCEPT !.observed = o, !.wait = w]
  <2>1. a \in AttemptType /\ a.state = staged[c].state /\ a.wait = w /\ a.observed = o
    <3>1. a \in AttemptType
      BY <1>t DEF AttemptType
    <3>2. a.state = staged[c].state /\ a.wait = w
      BY <1>t DEF AttemptType
    <3>3. a.observed = o
      BY <1>t DEF AttemptType
    <3> QED
      BY <3>1, <3>2, <3>3
  <2>2. Settle(r, a)
    BY <1>2
  <2> HIDE DEF a
  <2> QED
    BY <2>1, <2>2
<1>4. /\ staged' \in [Callers -> AttemptType]
      /\ staged'[c].state = staged[c].state /\ staged'[c].wait = w /\ ~staged'[c].live
      /\ staged'[c].observed = o
      /\ \A d \in Callers \ {c} : staged'[d] = staged[d]
  BY <1>1, <1>3, SettleFacts
<1>5. Settling(c)'
  BY <1>4 DEF Settling
<1>6. /\ reaper' \in [Reapers -> ReaperType]
      /\ \A q \in Reapers : reaper'[q].pc # "idle" =>
           reaper'[q].attempt \in Callers /\ staged[reaper'[q].attempt].state \in Given
  BY ReaperMoves
<1> QED
  BY <1>t, <1>4, <1>5, <1>6, Tends

\* A reaper goes on and no attempt changes.
LEMMA Advances ==
    ASSUME IInv, NEW r \in Reapers, NEW pc \in {"proved", "deleted", "failed"},
           reaper[r].pc # "idle",
           \/ reaper' = [reaper EXCEPT ![r].pc = pc]
           \/ reaper' = [reaper EXCEPT ![r] = Resting],
           store' \in {store, store \ {reaper[r].attempt}}, UNCHANGED <<job, staged, caller>>
    PROVE  IInv'
<1>1. /\ reaper' \in [Reapers -> ReaperType]
      /\ \A q \in Reapers : reaper'[q].pc # "idle" =>
           reaper'[q].attempt \in Callers /\ staged[reaper'[q].attempt].state \in Given
  BY ReaperMoves
<1>2. staged[reaper[r].attempt].state \in Given
  BY DEF IInv, ReapersHoldDiscarded
<1> QED
  BY <1>1, <1>2, TypeFacts, Tends

\* A reaper proves that nothing names the object.
LEMMA IProve == ASSUME IInv, NEW r \in Reapers, prove_archive_staging_unreferenced(r) PROVE IInv'
<1>u. UNCHANGED <<job, store, caller>> /\ reaper[r].pc # "idle"
  BY DEF prove_archive_staging_unreferenced
<1>1. CASE reaper' = [reaper EXCEPT ![r].pc = "failed"] /\ UNCHANGED staged
  BY <1>u, <1>1, Advances
<1>2. CASE reaper' = [reaper EXCEPT ![r].pc = "proved"] /\ UNCHANGED staged
  BY <1>u, <1>2, Advances
<1>3. CASE /\ Settle(r, [staged[reaper[r].attempt] EXCEPT !.observed = FALSE, !.wait = "short"])
           /\ reaper' = [reaper EXCEPT ![r] = Resting]
  BY <1>u, <1>3, PutOff
<1> QED
  BY <1>1, <1>2, <1>3, Zenon DEF prove_archive_staging_unreferenced

\* A reaper deletes the object.
LEMMA IDelete == ASSUME IInv, NEW r \in Reapers, delete_archive_staging_segment(r) PROVE IInv'
BY Advances DEF delete_archive_staging_segment

\* The second empty listing: the attempt was due, so its writer has gone.
LEMMA ICleaned ==
    ASSUME IInv, NEW r \in Reapers, reaper[r].pc # "idle",
           reaper[r].attempt \notin store, CleanupLease(r),
           staged[reaper[r].attempt].observed,
           Settle(r, [staged[reaper[r].attempt] EXCEPT !.state = "cleaned"]),
           reaper' = [reaper EXCEPT ![r] = Resting], UNCHANGED <<job, store, caller>>
    PROVE  IInv'
<1>1. PICK c \in Callers : c = reaper[r].attempt
  BY DEF IInv, ReapersHoldDiscarded
<1>t. staged[c] \in AttemptType /\ store \subseteq Callers
  BY TypeFacts
<1>2. staged[c].state = "cleanup_pending" /\ caller[c].pc # "writing" /\ c \notin store
  BY <1>1 DEF CleanupLease, HoldsLease, IInv, WritersGone, Settling
<1>3. PICK a \in AttemptType : a.state = "cleaned" /\ Settle(r, a)
  <2> DEFINE a == [staged[c] EXCEPT !.state = "cleaned"]
  <2>1. a \in AttemptType /\ a.state = "cleaned"
    BY <1>t DEF AttemptType
  <2>2. Settle(r, a)
    BY <1>1
  <2> HIDE DEF a
  <2> QED
    BY <2>1, <2>2
<1>4. /\ staged' \in [Callers -> AttemptType] /\ staged'[c].state = "cleaned" /\ ~staged'[c].live
      /\ \A d \in Callers \ {c} : staged'[d] = staged[d]
  BY <1>1, <1>3, SettleFacts
<1>5. /\ reaper' \in [Reapers -> ReaperType]
      /\ \A q \in Reapers : reaper'[q].pc # "idle" =>
           reaper'[q].attempt \in Callers /\ staged[reaper'[q].attempt].state \in Given
  BY ReaperMoves
<1> QED
  BY <1>t, <1>2, <1>4, <1>5, Tends

\* A reaper records that the prefix is empty.
LEMMA IEmpty == ASSUME IInv, NEW r \in Reapers, record_archive_staging_empty(r) PROVE IInv'
<1>u. UNCHANGED <<job, store, caller>> /\ reaper[r].pc # "idle"
  BY DEF record_archive_staging_empty
<1>1. CASE reaper' = [reaper EXCEPT ![r].pc = "failed"] /\ UNCHANGED staged
  BY <1>u, <1>1, Advances
<1>2. CASE reaper' = [reaper EXCEPT ![r] = Resting] /\ UNCHANGED staged
  BY <1>u, <1>2, Advances
<1>3. CASE /\ reaper[r].attempt \notin store /\ CleanupLease(r)
           /\ staged[reaper[r].attempt].observed
           /\ Settle(r, [staged[reaper[r].attempt] EXCEPT !.state = "cleaned"])
           /\ reaper' = [reaper EXCEPT ![r] = Resting]
  BY <1>u, <1>3, ICleaned
<1>4. CASE /\ Settle(r, [staged[reaper[r].attempt] EXCEPT !.observed = TRUE, !.wait = "long"])
           /\ reaper' = [reaper EXCEPT ![r] = Resting]
  BY <1>u, <1>4, PutOff
<1> QED
  BY <1>1, <1>2, <1>3, <1>4, Zenon DEF record_archive_staging_empty

\* A reaper records a failure and backs off.
LEMMA IFailure ==
    ASSUME IInv, NEW r \in Reapers, record_archive_staging_cleanup_failure(r) PROVE IInv'
<1>u. UNCHANGED <<job, store, caller>> /\ reaper[r].pc # "idle"
      /\ reaper' = [reaper EXCEPT ![r] = Resting]
  BY DEF record_archive_staging_cleanup_failure
<1>1. CASE UNCHANGED staged
  BY <1>u, <1>1, Advances
<1>2. CASE Settle(r, [staged[reaper[r].attempt] EXCEPT !.observed = FALSE, !.wait = "short"])
  BY <1>u, <1>2, PutOff
<1> QED
  BY <1>1, <1>2, Zenon DEF record_archive_staging_cleanup_failure

\* A reaper's lease runs out.
LEMMA ILease == ASSUME IInv, LeaseExpires PROVE IInv'
<1>t. /\ store \subseteq Callers /\ staged \in [Callers -> AttemptType]
      /\ reaper \in [Reapers -> ReaperType]
  BY TypeFacts
<1>1. PICK c \in Callers : /\ staged' = [staged EXCEPT ![c].live = FALSE]
                           /\ UNCHANGED <<job, store, caller, reaper>>
  BY DEF LeaseExpires
<1>2. /\ staged' \in [Callers -> AttemptType] /\ ~staged'[c].live
      /\ \A d \in Callers \ {c} : staged'[d] = staged[d]
  BY <1>t, <1>1 DEF AttemptType
<1>3. staged'[c].state = staged[c].state /\ staged'[c].wait = staged[c].wait
  BY <1>t, <1>1 DEF AttemptType
<1>4. staged'[c].observed = staged[c].observed
  BY <1>t, <1>1 DEF AttemptType
<1>5. Settling(c)'
  BY <1>1, <1>2, <1>3, <1>4 DEF Settling, IInv, WritersGone
<1> QED
  BY <1>t, <1>1, <1>2, <1>3, <1>5, Tends DEF IInv, ReapersHoldDiscarded

\* A backed-off attempt becomes due.
LEMMA IDue == ASSUME IInv, CleanupDue PROVE IInv'
<1>t. /\ store \subseteq Callers /\ staged \in [Callers -> AttemptType]
      /\ reaper \in [Reapers -> ReaperType]
  BY TypeFacts
<1>1. PICK c \in Callers : /\ staged[c].wait = "long" => caller[c].pc # "writing"
                           /\ staged' = [staged EXCEPT ![c].wait = "no"]
                           /\ UNCHANGED <<job, store, caller, reaper>>
  BY DEF CleanupDue
<1>2. /\ staged' \in [Callers -> AttemptType] /\ staged'[c].state = staged[c].state
      /\ staged'[c].wait = "no" /\ \A d \in Callers \ {c} : staged'[d] = staged[d]
  BY <1>t, <1>1 DEF AttemptType
<1>3. staged'[c].observed = staged[c].observed
  BY <1>t, <1>1 DEF AttemptType
<1>4. staged'[c].live = staged[c].live
  BY <1>t, <1>1 DEF AttemptType
<1>5. Settling(c)'
  BY <1>1, <1>2, <1>3 DEF Settling, IInv, WritersGone
<1>6. staged'[c].live => staged[c].state \in {"writing", "cleanup_pending"}
  BY <1>4 DEF IInv, TypeOK
<1> QED
  BY <1>t, <1>1, <1>2, <1>5, <1>6, Tends DEF IInv, ReapersHoldDiscarded

-----------------------------------------------------------------------------
\* Every step keeps the invariant.
LEMMA INext == IInv /\ [Next]_vars => IInv'
<1> SUFFICES ASSUME IInv, [Next]_vars PROVE IInv'
  OBVIOUS
<1>1. ASSUME NEW c \in Callers, start_generation_job(c) \/ CallerStep(c) \/ Die(c) PROVE IInv'
  BY <1>1, IStart, IBegin, IWrites, IAbandon, IAttach, IFail DEF CallerStep
<1>2. ASSUME NEW r \in Reapers, ReaperStep(r) PROVE IInv'
  BY <1>2, IClaim, IProve, IDelete, IEmpty, IFailure DEF ReaperStep
<1>3. CASE expire_preparing_generation_jobs \/ FinishJob \/ PreparationExpires
           \/ promote_stale_archive_staging_attempts
  BY <1>3, IExpire, IFinish, ILapse, IPromote
<1>4. CASE LeaseExpires \/ CleanupDue
  BY <1>4, ILease, IDue
<1>5. CASE UNCHANGED vars
  BY <1>5 DEF vars, IInv, TypeOK, AttemptsFollowCallers, ReapersHoldDiscarded, BoundIsStored,
              JobNamesBound, WritersGone, Settling, CleanedPrefixesAreEmpty, QueuedIsKnown, Attached
<1> QED
  BY <1>1, <1>2, <1>3, <1>4, <1>5 DEF Next

\* A worker that claims a queued job finds its request, whatever handlers,
\* reapers and leases did, and nothing is left under a prefix that the
\* reapers have given up.
THEOREM RequestsAreStored == Spec => []QueuedRequestsAreStored
<1>1. IInv => QueuedRequestsAreStored
  BY DEF IInv, JobNamesBound, BoundIsStored, QueuedRequestsAreStored
<1> QED
  BY <1>1, IInit, INext, PTL DEF Spec

\* A client that is refused has not queued the job: neither an error before
\* the attachment nor a conflict found by one of its tries
\* (attach_generation_job_request_staged) is reported for a job that runs.
THEOREM RefusalIsHonest == Spec => []RefusalMeansNotQueued
<1>1. IInv => RefusalMeansNotQueued
  BY DEF IInv, QueuedIsKnown, Attached, RefusalMeansNotQueued
<1> QED
  BY <1>1, IInit, INext, PTL DEF Spec
=============================================================================
