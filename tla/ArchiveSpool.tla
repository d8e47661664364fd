---------------------------- MODULE ArchiveSpool ----------------------------
(***************************************************************************)
(* The encrypted spool through which response bodies reach object storage. *)
(* A streamed body is appended chunk by chunk by a response archive writer *)
(* and sealed; a buffered body is captured in one transaction that draws   *)
(* on a capacity reservation.  Upload workers claim sealed spools, copy    *)
(* the chunks into an object and bind its locator to the request row; a    *)
(* collector deletes what is bound or expired in bounded batches.  Every   *)
(* stored byte is accounted for in one global counter.                     *)
(*                                                                         *)
(* A chunk is a row with its place in the body and its accounted size.     *)
(* Times are flags: a row's expires_at has passed or not, a lease is live  *)
(* or not.                                                                 *)
(***************************************************************************)
EXTENDS Integers, FiniteSets

CONSTANTS Requests,      \* requests whose response is archived
          Workers,       \* upload workers
          Nobody,
          Chunks,        \* chunks of every body, the tail of a stream included
          ChunkSizes,    \* accounted sizes of one encrypted chunk
          WorstChunk,    \* what a reservation takes for one chunk
          MaxFaults      \* bound: failed or unacknowledged database and store
                         \* operations, timeouts and stalls

ASSUME SpoolAssumption ==
    /\ IsFiniteSet(Requests) /\ Nobody \notin Workers /\ Chunks \in Nat \ {0}
    /\ ChunkSizes \subseteq 1..WorstChunk /\ WorstChunk \in Nat
    /\ MaxFaults \in Nat

Overhead == 1                                        \* SPOOL_OVERHEAD

\* response_object: unset, the gap locator, or the token of an upload.
Null == 0
Gap == -1


VARIABLES
    spool,     \* response_archive_spools
    stored,    \* response_archive_spool_chunks of every request
    budget,    \* response_archive_spool_budget.cipher_bytes
    reserved,  \* archive_budget_reservations
    record,    \* request_records: completion and response_object
    writer,    \* response archive writers and buffered captures
    worker,    \* upload workers
    late,      \* binds whose worker has given up waiting
    faults

vars == <<spool, stored, budget, reserved, record, writer, worker, late, faults>>

\* count is chunk_count, cipher is cipher_bytes; token stands for the lease
\* token, the staging attempt and the locator of one upload.
SpoolType == [state : {"none", "capturing", "pending", "uploading", "bound", "gap"},
              count : 0..Chunks, cipher : Nat, expired : BOOLEAN,
              waiting : BOOLEAN, owner : Workers \cup {Nobody}, live : BOOLEAN,
              token : Nat, cleaned : BOOLEAN]
ChunkType == [seq : 1..Chunks, bytes : ChunkSizes]
RecordType == [completed : BOOLEAN, ok : BOOLEAN,
               object : {Null, Gap} \cup Nat]
TaskType == [req : Requests, token : Nat, count : 0..Chunks, cas : BOOLEAN]
WriterType == [streamed : BOOLEAN,
               pc : {"begin", "append", "fence", "check", "reserve", "capture",
                     "release", "done", "collect"},
               handed : {"no", "yes", "gone"}, seq : 0..Chunks, tries : Nat]
WorkerType == [pc : {"idle", "loading", "binding", "retrying"},
               task : TaskType \cup {Nobody}, read : 0..Chunks]

NoSpool == [state |-> "none", count |-> 0, cipher |-> 0, expired |-> FALSE,
            waiting |-> FALSE, owner |-> Nobody, live |-> FALSE, token |-> 0,
            cleaned |-> FALSE]
Idle == [pc |-> "idle", task |-> Nobody, read |-> 0]

Init ==
    /\ spool = [r \in Requests |-> NoSpool]
    /\ stored = [r \in Requests |-> {}]
    /\ budget = 0
    /\ reserved = {}
    /\ record = [r \in Requests |-> [completed |-> FALSE, ok |-> FALSE, object |-> Null]]
    /\ \E streamed \in [Requests -> BOOLEAN] : writer = [r \in Requests |->
          [streamed |-> streamed[r], pc |-> IF streamed[r] THEN "begin" ELSE "check",
           handed |-> "no", seq |-> 0, tries |-> 0]]
    /\ worker = [w \in Workers |-> Idle]
    /\ late = {}
    /\ faults = 0

Fault == faults < MaxFaults /\ faults' = faults + 1

\* What rows take together: the bytes of each, counted.
Bytes(rows) == UNION {{row} \X (1..row.bytes) : row \in rows}
Total(rows) == Cardinality(Bytes(rows))

WriterTo(r, pc) == writer' = [writer EXCEPT ![r].pc = pc]
Unleased(s) == [s EXCEPT !.owner = Nobody, !.live = FALSE]

\* An operation of a process: it commits, it commits and its answer is lost,
\* or it fails before it commits.
Commits(change, same, next, failed) ==
    \/ change /\ next /\ UNCHANGED faults
    \/ change /\ failed /\ Fault
    \/ same /\ failed /\ Fault

-----------------------------------------------------------------------------
(* The response archive writer of a streamed body.                         *)

\* The owner row still waits for its body.
Eligible(r) == ~record[r].completed \/ record[r].object \in {Null, Gap}

begin_response_archive_spool(r) ==
    /\ writer[r].pc = "begin"
    /\ IF ~Eligible(r) \/ (spool[r].state # "none" /\
                           (spool[r].state # "capturing" \/ spool[r].expired))
       THEN WriterTo(r, "fence") /\ UNCHANGED <<spool, budget, faults>>
       ELSE LET created == spool[r].state = "none"
                change == IF created
                          THEN /\ spool' = [spool EXCEPT ![r] = [NoSpool EXCEPT
                                      !.state = "capturing", !.cipher = Overhead]]
                               /\ budget' = budget + Overhead
                          ELSE UNCHANGED <<spool, budget>>
            IN Commits(change, UNCHANGED <<spool, budget>>, WriterTo(r, "append"),
                       \* a database error is retried while the producer lives
                       WriterTo(r, IF writer[r].handed # "gone" THEN "begin" ELSE "fence"))
    /\ UNCHANGED <<stored, reserved, record, worker, late>>

\* The tail is appended only after the producer has handed it over.
append_response_archive_spool_batch_with(r) ==
    /\ writer[r].pc = "append" /\ writer[r].handed # "gone"
    /\ writer[r].seq < (IF writer[r].handed = "yes" THEN Chunks ELSE Chunks - 1)
    /\ IF spool[r].state # "capturing" \/ spool[r].expired
          \/ writer[r].seq # spool[r].count
       THEN WriterTo(r, "fence") /\ UNCHANGED <<spool, stored, budget, faults>>
       ELSE \E n \in ChunkSizes :
              Commits(/\ spool' = [spool EXCEPT ![r].count = @ + 1, ![r].cipher = @ + n]
                      /\ stored' = [stored EXCEPT ![r] =
                             @ \cup {[seq |-> spool[r].count + 1, bytes |-> n]}]
                      /\ budget' = budget + n,
                      UNCHANGED <<spool, stored, budget>>,
                      writer' = [writer EXCEPT ![r].seq = @ + 1],
                      WriterTo(r, "fence"))
    /\ UNCHANGED <<reserved, record, worker, late>>

seal_response_archive_spool(r) ==
    /\ writer[r].pc = "append" /\ writer[r].handed = "yes" /\ writer[r].seq = Chunks
    /\ IF spool[r].state # "capturing" \/ spool[r].expired
          \/ spool[r].count # writer[r].seq
       THEN WriterTo(r, "fence") /\ UNCHANGED <<spool, faults>>
       ELSE Commits(spool' = [spool EXCEPT ![r].state = "pending"],
                    UNCHANGED spool, WriterTo(r, "done"), WriterTo(r, "fence"))
    /\ UNCHANGED <<stored, budget, reserved, record, worker, late>>

\* run_response_archive_writer notices that its producer has gone.
WriterInterrupted(r) ==
    /\ writer[r].pc = "append" /\ writer[r].handed = "gone"
    /\ WriterTo(r, "fence")
    /\ UNCHANGED <<spool, stored, budget, reserved, record, worker, late, faults>>

\* Mutant: a writer without an acknowledgement gives its spool up, sealed or not.
FailAnyState(r) ==
    /\ writer[r].pc = "fence"
    /\ LET change == IF spool[r].state \in {"capturing", "pending", "uploading"}
                     THEN spool' = [spool EXCEPT ![r] = [Unleased(@) EXCEPT
                                        !.state = "gap", !.expired = TRUE]]
                     ELSE UNCHANGED spool
       IN Commits(change, UNCHANGED spool, WriterTo(r, "done"), WriterTo(r, "done"))
    /\ UNCHANGED <<stored, budget, reserved, record, worker, late>>

\* fence_failed_capture: a spool that is sealed already stays as it is.
fail_response_archive_spool(r) ==
    /\ writer[r].pc = "fence"
    /\ LET change == IF spool[r].state = "capturing"
                     THEN spool' = [spool EXCEPT ![r] = [Unleased(@) EXCEPT
                                        !.state = "gap", !.expired = TRUE]]
                     ELSE UNCHANGED spool
       IN Commits(change, UNCHANGED spool, WriterTo(r, "done"), WriterTo(r, "done"))
    /\ UNCHANGED <<stored, budget, reserved, record, worker, late>>

\* The stream ends and hands its tail over, or is dropped: the client left,
\* the upstream broke off, the queue was full.
seal(r) ==
    /\ writer[r].streamed /\ writer[r].handed = "no" /\ writer[r].pc # "done"
    /\ writer' = [writer EXCEPT ![r].handed = "yes"]
    /\ UNCHANGED <<spool, stored, budget, reserved, record, worker, late, faults>>
abandon(r) ==
    /\ writer[r].streamed /\ writer[r].handed = "no" /\ writer[r].pc # "done"
    /\ writer' = [writer EXCEPT ![r].handed = "gone"]
    /\ UNCHANGED <<spool, stored, budget, reserved, record, worker, late, faults>>

-----------------------------------------------------------------------------
(* The capture of a buffered body: it repeats until the body is captured.  *)

deferred_archive_is_captured(r) ==
    /\ writer[r].pc = "check"
    /\ WriterTo(r, IF spool[r].state \in {"pending", "uploading", "bound"}
                   THEN "done" ELSE "collect")
    /\ UNCHANGED <<spool, stored, budget, reserved, record, worker, late, faults>>

\* refund_reserved_capacity
Refund(row) == /\ budget >= row.bytes
               /\ budget' = budget - row.bytes
               /\ reserved' = reserved \ {row}

\* A try to reserve that failed is repeated from the start.
TryLater(r) == writer' = [writer EXCEPT ![r].pc = "check", ![r].tries = @ + 1]

Lapsed == {row \in reserved : ~row.live}

\* The call of cleanup_expired_archive_budget_reservation with which a
\* reservation begins: at most one lapsed reservation is refunded.
CollectsLapsed(r) ==
    /\ writer[r].pc = "collect"
    /\ \/ Lapsed = {} /\ WriterTo(r, "reserve") /\ UNCHANGED <<budget, reserved, faults>>
       \/ \E row \in Lapsed : Commits(Refund(row), UNCHANGED <<budget, reserved>>,
                                      WriterTo(r, "reserve"), TryLater(r))
    /\ UNCHANGED <<spool, stored, record, worker, late>>

reserve_buffered_archive_capacity(r) ==
    LET amount == Overhead + Chunks * WorstChunk
        row == [req |-> r, id |-> writer[r].tries, bytes |-> amount, live |-> TRUE]
    IN /\ writer[r].pc = "reserve"
       /\ Commits(budget' = budget + amount /\ reserved' = reserved \cup {row},
                  UNCHANGED <<budget, reserved>>,
                  WriterTo(r, "capture"), TryLater(r))
       /\ UNCHANGED <<spool, stored, record, worker, late>>

Held(r) == {row \in reserved : row.req = r /\ row.id = writer[r].tries}

\* capture_reserved_buffered_archive_body_in_transaction: the spool is
\* charged with the reservation, what compression saved goes back to it.
capture_deferred_archive(r) ==
    /\ writer[r].pc = "capture"
    /\ IF (\E row \in Held(r) : row.live) /\ Eligible(r) /\ spool[r].state = "none"
       THEN \E sizes \in [1..Chunks -> ChunkSizes], row \in Held(r) :
              LET chunks == {[seq |-> i, bytes |-> sizes[i]] : i \in 1..Chunks}
                  actual == Overhead + Total(chunks)
              IN
              Commits(/\ spool' = [spool EXCEPT ![r] = [NoSpool EXCEPT
                              !.state = "pending", !.count = Chunks, !.cipher = actual]]
                      /\ stored' = [stored EXCEPT ![r] = chunks]
                      /\ reserved' = (reserved \ {row})
                             \cup {[row EXCEPT !.bytes = @ - actual]},
                      UNCHANGED <<spool, stored, reserved>>,
                      WriterTo(r, "release"), WriterTo(r, "release"))
       ELSE WriterTo(r, "release") /\ UNCHANGED <<spool, stored, reserved, faults>>
    /\ UNCHANGED <<budget, record, worker, late>>

release_archive_budget_reservation(r) ==
    /\ writer[r].pc = "release"
    /\ LET change == IF Held(r) = {} THEN UNCHANGED <<budget, reserved>>
                     ELSE \E row \in Held(r) : Refund(row)
       IN Commits(change, UNCHANGED <<budget, reserved>>, TryLater(r), TryLater(r))
    /\ UNCHANGED <<spool, stored, record, worker, late>>

-----------------------------------------------------------------------------
(* The request itself, and the end of a gateway process.                   *)

\* Mutant: the final update of the request always writes the gap locator.
FinishWithGap(r) ==
    /\ ~record[r].completed
    /\ \E ok \in BOOLEAN :
          record' = [record EXCEPT ![r] = [completed |-> TRUE, ok |-> ok, object |-> Gap]]
    /\ UNCHANGED <<spool, stored, budget, reserved, writer, worker, late, faults>>

\* finish_request_in_transaction with the gap locator: a locator that the
\* upload worker has bound is kept.
FinishRequest(r) ==
    /\ ~record[r].completed
    /\ \E ok \in BOOLEAN :
          record' = [record EXCEPT ![r] = [completed |-> TRUE, ok |-> ok,
              object |-> IF spool[r].state = "bound" /\ spool[r].token = record[r].object
                         THEN record[r].object ELSE Gap]]
    /\ UNCHANGED <<spool, stored, budget, reserved, writer, worker, late, faults>>

GatewayDies ==
    /\ Fault
    /\ writer' = [r \in Requests |-> [writer[r] EXCEPT !.pc = "done", !.handed = "gone"]]
    /\ UNCHANGED <<spool, stored, budget, reserved, record, worker, late>>

-----------------------------------------------------------------------------
(* Upload workers.                                                         *)

Claimable(r) ==
    /\ ~spool[r].cleaned /\ ~spool[r].expired
    /\ record[r].object \in {Null, Gap}
    /\ \/ spool[r].state = "pending" /\ ~spool[r].waiting
       \/ spool[r].state = "uploading" /\ ~spool[r].live

\* The terminal state of the request decides here whether the object will be
\* promoted to the tenant's content-addressed store.
claim_archive_spool_if(w) ==
    /\ worker[w].pc = "idle"
    /\ \E r \in Requests :
          /\ Claimable(r)
          /\ LET token == spool[r].token + 1 IN
             /\ spool' = [spool EXCEPT ![r].state = "uploading", ![r].owner = w,
                                       ![r].live = TRUE, ![r].token = token]
             /\ worker' = [worker EXCEPT ![w] = [pc |-> "loading", read |-> 0,
                    task |-> [req |-> r, token |-> token, count |-> spool[r].count,
                              cas |-> record[r].completed /\ record[r].ok]]]
    /\ UNCHANGED <<stored, budget, reserved, record, writer, late, faults>>

\* locked_live_task
TaskLive(task) ==
    LET s == spool[task.req] IN
    /\ s.state = "uploading" /\ s.token = task.token /\ s.live
    /\ ~s.expired /\ s.count = task.count

\* load_response_archive_spool_batch and the write of one chunk; a fenced
\* worker, a failed write, a lost lease or the upload timeout ends the try.
load_response_archive_spool_batch(w) ==
    LET task == worker[w].task IN
    /\ worker[w].pc = "loading"
    /\ \/ /\ TaskLive(task) /\ worker[w].read < task.count
          /\ worker' = [worker EXCEPT ![w].read = @ + 1] /\ UNCHANGED faults
       \/ /\ worker[w].read = task.count
          /\ worker' = [worker EXCEPT ![w].pc = "binding"] /\ UNCHANGED faults
       \/ /\ ~TaskLive(task)
          /\ worker' = [worker EXCEPT ![w].pc = "retrying"] /\ UNCHANGED faults
       \/ /\ Fault
          /\ worker' = [worker EXCEPT ![w].pc = "retrying"]
    /\ UNCHANGED <<spool, stored, budget, reserved, record, writer, late>>

\* complete_response_archive_spool and complete_response_archive_spool_cas.
Completes(task) ==
    /\ TaskLive(task)
    /\ IF task.cas THEN record[task.req].object = Gap
                   ELSE record[task.req].object \in {Null, Gap}
Complete(task) ==
    IF Completes(task)
    THEN /\ record' = [record EXCEPT ![task.req].object = task.token]
         /\ spool' = [spool EXCEPT ![task.req] = [Unleased(@) EXCEPT !.state = "bound"]]
    ELSE UNCHANGED <<record, spool>>

\* A worker that gives up waiting does not stop the transaction it started.
complete_response_archive_spool(w) ==
    LET task == worker[w].task
        after(pc) == worker' = [worker EXCEPT ![w].pc = pc]
    IN /\ worker[w].pc = "binding"
       /\ \/ /\ Commits(Complete(task), UNCHANGED <<record, spool>>,
                        IF Completes(task) THEN worker' = [worker EXCEPT ![w] = Idle]
                                           ELSE after("retrying"),
                        after("retrying"))
             /\ UNCHANGED late
          \/ /\ Fault /\ after("retrying")
             /\ late' = late \cup {task}
             /\ UNCHANGED <<record, spool>>
       /\ UNCHANGED <<stored, budget, reserved, writer>>

LateBind ==
    /\ \E task \in late : late' = late \ {task} /\ Complete(task)
    /\ UNCHANGED <<stored, budget, reserved, writer, worker, faults>>

retry_response_archive_spool(w) ==
    LET task == worker[w].task IN
    /\ worker[w].pc = "retrying"
    /\ worker' = [worker EXCEPT ![w] = Idle]
    /\ IF TaskLive(task)
       THEN Commits(spool' = [spool EXCEPT ![task.req] = [Unleased(@) EXCEPT
                                  !.state = "pending", !.waiting = TRUE]],
                    UNCHANGED spool, TRUE, TRUE)
       ELSE UNCHANGED <<spool, faults>>
    /\ UNCHANGED <<stored, budget, reserved, record, writer, late>>

WorkerDies(w) ==
    /\ worker[w].pc # "idle" /\ Fault
    /\ worker' = [worker EXCEPT ![w] = Idle]
    /\ UNCHANGED <<spool, stored, budget, reserved, record, writer, late>>

-----------------------------------------------------------------------------
(* Collection.                                                             *)

\* Mutant: a batch releases what it deleted but not the spool's own overhead.
CleanupKeepsOverhead(r) ==
    LET s == spool[r] IN
    /\ s.state # "none" /\ ~s.cleaned
    /\ s.state = "bound" \/ s.expired
    /\ \E last \in 1..Chunks :
          LET batch == {chunk \in stored[r] : chunk.seq <= last} IN
          /\ batch = {} => stored[r] = {}
          /\ stored' = [stored EXCEPT ![r] = @ \ batch]
          /\ spool' = [spool EXCEPT ![r] = [Unleased(s) EXCEPT
                 !.state = IF s.state = "bound" THEN "bound" ELSE "gap",
                 !.cleaned = batch = stored[r], !.cipher = @ - Total(batch)]]
          /\ budget' = budget - Total(batch)
    /\ UNCHANGED <<reserved, record, writer, worker, late, faults>>

\* What a batch releases: its chunks, and the fixed overhead with the last.
Released(r, batch) == Total(batch) + (IF batch = stored[r] THEN Overhead ELSE 0)

\* One batch: some of the first chunks, as its limits allow.
cleanup_archive_spool_batch(r) ==
    LET s == spool[r] IN
    /\ s.state # "none" /\ ~s.cleaned
    /\ s.state = "bound" \/ s.expired
    /\ \E last \in 1..Chunks :
          LET batch == {chunk \in stored[r] : chunk.seq <= last}
              released == Released(r, batch)
              cleaned == batch = stored[r]
          IN /\ batch = {} => cleaned
             /\ released <= s.cipher /\ (cleaned => released = s.cipher)
             /\ budget >= released
             /\ stored' = [stored EXCEPT ![r] = @ \ batch]
             /\ spool' = [spool EXCEPT ![r] = [Unleased(s) EXCEPT
                    !.state = IF s.state = "bound" THEN "bound" ELSE "gap",
                    !.cleaned = cleaned, !.cipher = @ - released]]
             /\ budget' = budget - released
    /\ UNCHANGED <<reserved, record, writer, worker, late, faults>>

\* Mutant: the comparison with expires_at is the wrong way round.
CleanupLiveOnly ==
    /\ \E row \in reserved : row.live /\ Refund(row)
    /\ UNCHANGED <<spool, stored, record, writer, worker, late, faults>>

cleanup_expired_archive_budget_reservation ==
    /\ \E row \in Lapsed : Refund(row)
    /\ UNCHANGED <<spool, stored, record, writer, worker, late, faults>>

-----------------------------------------------------------------------------
(* Time.                                                                   *)

\* A capture that has not appended for CAPTURE_TTL, or a sealed spool at the
\* end of its retention; the retry of a buffered capture comes long before.
SpoolExpires(r) ==
    /\ spool[r].state \in {"capturing", "pending", "uploading"} /\ ~spool[r].expired
    /\ writer[r].streamed \/ writer[r].pc = "done"
    /\ spool' = [spool EXCEPT ![r].expired = TRUE]
    /\ UNCHANGED <<stored, budget, reserved, record, writer, worker, late, faults>>

\* While its capture is running, only a stall lets a reservation expire.
ReservationExpires ==
    /\ \E row \in reserved :
          /\ row.live
          /\ IF row \in Held(row.req) /\ writer[row.req].pc = "capture"
             THEN Fault ELSE UNCHANGED faults
          /\ reserved' = (reserved \ {row}) \cup {[row EXCEPT !.live = FALSE]}
    /\ UNCHANGED <<spool, stored, budget, record, writer, worker, late>>

\* The heartbeat keeps the lease of a running upload.
LeaseExpires(r) ==
    /\ spool[r].live
    /\ IF \E w \in Workers : /\ worker[w].pc \in {"loading", "binding"}
                             /\ worker[w].task.req = r
                             /\ worker[w].task.token = spool[r].token
       THEN Fault ELSE UNCHANGED faults
    /\ spool' = [spool EXCEPT ![r].live = FALSE]
    /\ UNCHANGED <<stored, budget, reserved, record, writer, worker, late>>

RetryDue(r) ==
    /\ spool[r].waiting
    /\ spool' = [spool EXCEPT ![r].waiting = FALSE]
    /\ UNCHANGED <<stored, budget, reserved, record, writer, worker, late, faults>>

WriterStep(r) ==
    \/ begin_response_archive_spool(r)
    \/ append_response_archive_spool_batch_with(r)
    \/ seal_response_archive_spool(r)
    \/ WriterInterrupted(r)
    \/ fail_response_archive_spool(r)
    \/ deferred_archive_is_captured(r)
    \/ CollectsLapsed(r)
    \/ reserve_buffered_archive_capacity(r)
    \/ capture_deferred_archive(r)
    \/ release_archive_budget_reservation(r)

WorkerStep(w) ==
    \/ claim_archive_spool_if(w)
    \/ load_response_archive_spool_batch(w)
    \/ complete_response_archive_spool(w)
    \/ retry_response_archive_spool(w)

Next ==
    \/ \E r \in Requests :
          \/ WriterStep(r) \/ seal(r) \/ abandon(r) \/ FinishRequest(r)
          \/ cleanup_archive_spool_batch(r)
          \/ SpoolExpires(r) \/ LeaseExpires(r) \/ RetryDue(r)
    \/ \E w \in Workers : WorkerStep(w) \/ WorkerDies(w)
    \/ LateBind
    \/ GatewayDies
    \/ cleanup_expired_archive_budget_reservation
    \/ ReservationExpires

Spec == Init /\ [][Next]_vars

\* Tasks and workers run, the collector is called every second, time passes.
\* Nothing is assumed of clients or of the request's end.
FairSpec ==
    /\ Spec
    /\ \A r \in Requests :
          /\ WF_vars(WriterStep(r)) /\ WF_vars(cleanup_archive_spool_batch(r))
          /\ WF_vars(SpoolExpires(r)) /\ WF_vars(LeaseExpires(r)) /\ WF_vars(RetryDue(r))
    /\ \A w \in Workers : WF_vars(WorkerStep(w))
    /\ WF_vars(LateBind)
    /\ WF_vars(cleanup_expired_archive_budget_reservation)
    /\ WF_vars(ReservationExpires)

-----------------------------------------------------------------------------
(* Properties.                                                             *)

\* Every variable stays in its domain, and only spools being uploaded are
\* leased.
TypeOK ==
    /\ spool \in [Requests -> SpoolType]
    /\ stored \in [Requests -> SUBSET ChunkType]
    /\ budget \in Nat
    /\ reserved \subseteq [req : Requests, id : Nat, bytes : Nat, live : BOOLEAN]
    /\ record \in [Requests -> RecordType]
    /\ writer \in [Requests -> WriterType]
    /\ worker \in [Workers -> WorkerType]
    /\ late \subseteq TaskType
    /\ \A r \in Requests : spool[r].owner # Nobody => spool[r].state = "uploading"

\* What every spool is charged with, cipher_bytes.
Spools == {[req |-> r, bytes |-> spool[r].cipher] : r \in Requests}

\* The global counter is exactly what the spools store plus what is reserved,
\* whichever appends, captures, refunds and partial collections have failed.
\* Every row has its shape.
BudgetIsExact ==
    /\ TypeOK
    /\ budget = Total(Spools) + Total(reserved)
    /\ \A r \in Requests : spool[r].cipher =
          IF spool[r].state = "none" \/ spool[r].cleaned THEN 0
          ELSE Overhead + Total(stored[r])

\* A bound spool holds the whole body, never a prefix of an interrupted
\* stream, and its request row names that very object: neither a finish that
\* comes after the bind nor a second upload takes its place.
BoundBodiesAreWhole ==
    \A r \in Requests : spool[r].state = "bound" =>
        /\ spool[r].count = Chunks
        /\ record[r].object = spool[r].token

\* A body that has been sealed or captured stays whole and uploadable until
\* it is bound or its retention ends: a writer that never saw its seal
\* acknowledged, a failed upload and a collector destroy nothing.
SealedBodiesSurvive ==
    [][\A r \in Requests :
          spool[r].state \in {"pending", "uploading"} /\ ~spool[r].expired =>
              /\ spool'[r].state \in {"pending", "uploading", "bound"}
              /\ stored'[r] = stored[r]]_vars

\* Whatever is interrupted, in the end every byte has left the spool and the
\* counter is back at zero.
EverythingIsReleased == <>[](budget = 0 /\ late = {})

=============================================================================
