------------------------- MODULE ArchiveSpoolProofs -------------------------
(***************************************************************************)
(* Proofs about ArchiveSpool, for any requests and upload workers: what is *)
(* bound is a whole body that its request row names, a sealed body is not  *)
(* destroyed before it is bound or its retention ends, and the global      *)
(* counter is what the spools store plus what is reserved.                 *)
(*                                                                         *)
(* The sizes of encrypted chunks play no part in the first two.  For the   *)
(* third, a sum of sizes is the number of elements of a finite set, so the *)
(* library's facts about cardinality add and subtract it.                  *)
(***************************************************************************)
EXTENDS ArchiveSpool, FiniteSetTheorems, TLAPS

\* The fields of a spool row whose accounted size is n.
SpoolRow(n) == [state : {"none", "capturing", "pending", "uploading", "bound", "gap"},
                count : 0..Chunks, cipher : {n}, expired : BOOLEAN,
                waiting : BOOLEAN, owner : Workers \cup {Nobody}, live : BOOLEAN,
                token : Nat, cleaned : BOOLEAN]

\* The chunk rows of a buffered body.
Body(sizes) == {[seq |-> i, bytes |-> sizes[i]] : i \in 1..Chunks}

RowsOK == /\ spool = [r \in Requests |-> spool[r]]
          /\ \A r \in Requests : spool[r] \in SpoolRow(spool[r].cipher)
          /\ stored = [r \in Requests |-> stored[r]]
          /\ record \in [Requests -> RecordType]

\* A worker that is not idle has a task.
WorkersOK == /\ worker \in [Workers -> WorkerType] /\ late \subseteq TaskType
             /\ \A w \in Workers : worker[w].pc # "idle" => worker[w].task \in TaskType

Sealed == {"pending", "uploading", "bound"}

\* Only whole bodies are sealed, and no chunk is added afterwards.
SealedIsWhole == \A r \in Requests : spool[r].state \in Sealed => spool[r].count = Chunks

BoundIsNamed == \A r \in Requests : spool[r].state = "bound" => record[r].object = spool[r].token

\* The inductive invariant.
IInv == RowsOK /\ WorkersOK /\ SealedIsWhole /\ BoundIsNamed

-----------------------------------------------------------------------------
\* The invariant holds at first.
LEMMA IInit == Init => IInv
<1> SUFFICES ASSUME Init PROVE IInv
  OBVIOUS
<1>1. NoSpool \in SpoolRow(NoSpool.cipher) /\ NoSpool.state = "none"
  BY SpoolAssumption DEF NoSpool, SpoolRow
<1>2. spool = [r \in Requests |-> spool[r]] /\ \A r \in Requests : spool[r] = NoSpool
  BY DEF Init
<1>3. record \in [Requests -> RecordType]
  BY DEF Init, RecordType, Null
<1>4. RowsOK
  BY <1>1, <1>2, <1>3 DEF Init, RowsOK
<1>5. Idle \in WorkerType /\ Idle.pc = "idle"
  BY SpoolAssumption DEF Idle, WorkerType
<1>6. WorkersOK
  BY <1>5 DEF Init, WorkersOK
<1>7. SealedIsWhole /\ BoundIsNamed
  BY <1>1, <1>2 DEF SealedIsWhole, BoundIsNamed, Sealed
<1> QED
  BY <1>4, <1>6, <1>7 DEF IInv

\* One spool row changes and its request row does not: it is sealed only when
\* whole and bound only if it was.
Rewrites(r) ==
    /\ spool' = [q \in Requests |-> spool'[q]] /\ \A q \in Requests \ {r} : spool'[q] = spool[q]
    /\ spool'[r] \in SpoolRow(spool'[r].cipher)
    /\ spool'[r].state \in Sealed => spool'[r].count = Chunks
    /\ spool'[r].state = "bound" =>
         spool[r].state = "bound" /\ spool'[r].token = spool[r].token

\* A step that rewrites at most the row of one request, in one of the allowed
\* ways.
LEMMA Moves ==
    ASSUME IInv, NEW r \in Requests, UNCHANGED spool \/ Rewrites(r), UNCHANGED record,
           stored' = [q \in Requests |-> stored'[q]], WorkersOK'
    PROVE  IInv'
<1>1. CASE UNCHANGED spool
  BY <1>1 DEF IInv, RowsOK, SealedIsWhole, BoundIsNamed
<1>2. CASE Rewrites(r)
  <2>1. RowsOK'
    BY <1>2 DEF IInv, RowsOK, Rewrites
  <2>2. SealedIsWhole'
    BY <1>2 DEF IInv, SealedIsWhole, Rewrites
  <2>3. BoundIsNamed'
    BY <1>2 DEF IInv, BoundIsNamed, Rewrites
  <2> QED
    BY <2>1, <2>2, <2>3 DEF IInv
<1> QED
  BY <1>1, <1>2

\* Workers and late calls that do not move stay well-formed.
LEMMA WorkersStay == ASSUME IInv, UNCHANGED <<worker, late>> PROVE WorkersOK'
BY DEF IInv, WorkersOK

-----------------------------------------------------------------------------
(* Writers and captures.                                                   *)

\* The shape of a spool row and of the tables around it.
LEMMA RowFacts ==
    ASSUME IInv, NEW r \in Requests
    PROVE  /\ spool[r] \in SpoolRow(spool[r].cipher)
           /\ stored = [q \in Requests |-> stored[q]]
           /\ spool = [q \in Requests |-> spool[q]]
BY DEF IInv, RowsOK

\* Opening a spool.
LEMMA IBegin == ASSUME IInv, NEW r \in Requests, begin_response_archive_spool(r) PROVE IInv'
<1>u. UNCHANGED <<stored, record, worker, late>>
  BY DEF begin_response_archive_spool
<1>1. \/ UNCHANGED spool
      \/ spool' = [spool EXCEPT ![r] = [NoSpool EXCEPT !.state = "capturing",
                                                       !.cipher = Overhead]]
  BY Zenon DEF begin_response_archive_spool, Commits
<1>2. CASE spool' = [spool EXCEPT ![r] = [NoSpool EXCEPT !.state = "capturing",
                                                         !.cipher = Overhead]]
  <2> DEFINE new == [NoSpool EXCEPT !.state = "capturing", !.cipher = Overhead]
  <2>1. new \in SpoolRow(new.cipher) /\ new.state = "capturing"
    <3>1. NoSpool \in SpoolRow(0)
      BY SpoolAssumption DEF NoSpool, SpoolRow
    <3>2. new \in SpoolRow(Overhead) /\ new.state = "capturing"
      BY <3>1 DEF SpoolRow
    <3>3. new.cipher = Overhead
      BY <3>1 DEF SpoolRow
    <3> QED
      BY <3>2, <3>3
  <2>2. spool' = [spool EXCEPT ![r] = new]
    BY <1>2
  <2> HIDE DEF new
  <2> QED
    BY <2>1, <2>2, <1>u, RowFacts, Moves, WorkersStay DEF Rewrites, Sealed
<1> QED
  BY <1>1, <1>2, <1>u, RowFacts, Moves, WorkersStay

\* Appending a batch to a spool that is still open and not fenced.
LEMMA IAppend ==
    ASSUME IInv, NEW r \in Requests, append_response_archive_spool_batch_with(r) PROVE IInv'
<1>u. UNCHANGED <<record, worker, late>>
  BY DEF append_response_archive_spool_batch_with
<1>1. CASE UNCHANGED <<spool, stored>>
  BY <1>1, <1>u, RowFacts, Moves, WorkersStay
<1>2. CASE \E n \in ChunkSizes :
             /\ spool[r].state = "capturing" /\ writer[r].seq = spool[r].count
             /\ writer[r].seq < (IF writer[r].handed = "yes" THEN Chunks ELSE Chunks - 1)
             /\ spool' = [spool EXCEPT ![r].count = @ + 1, ![r].cipher = @ + n]
             /\ stored' = [stored EXCEPT ![r] =
                             @ \cup {[seq |-> spool[r].count + 1, bytes |-> n]}]
  <2>1. PICK n \in ChunkSizes :
          /\ spool' = [spool EXCEPT ![r].count = @ + 1, ![r].cipher = @ + n]
          /\ stored' = [stored EXCEPT ![r] =
                          @ \cup {[seq |-> spool[r].count + 1, bytes |-> n]}]
    BY <1>2
  <2>c. spool[r].state = "capturing" /\ spool[r].count + 1 \in 0..Chunks
    <3>1. spool[r].count \in 0..Chunks /\ Chunks \in Nat
      BY RowFacts, SpoolAssumption DEF SpoolRow
    <3>2. /\ spool[r].state = "capturing" /\ writer[r].seq = spool[r].count
          /\ writer[r].seq < (IF writer[r].handed = "yes" THEN Chunks ELSE Chunks - 1)
      BY <1>2
    <3>3. writer[r].seq < Chunks \/ writer[r].seq < Chunks - 1
      BY <3>2
    <3> QED
      BY <3>1, <3>2, <3>3
  <2> DEFINE new == [spool[r] EXCEPT !.count = @ + 1, !.cipher = @ + n]
  <2>2. stored' = [q \in Requests |-> stored'[q]]
    BY <2>1, RowFacts
  <2>3. new \in SpoolRow(new.cipher) /\ new.state = "capturing"
    <3>1. new \in SpoolRow(spool[r].cipher + n) /\ new.state = "capturing"
      BY <2>c, RowFacts DEF SpoolRow
    <3>2. new.cipher = spool[r].cipher + n
      BY RowFacts DEF SpoolRow
    <3> QED
      BY <3>1, <3>2
  <2>4. spool' = [spool EXCEPT ![r] = new]
    BY <2>1, RowFacts
  <2> HIDE DEF new
  <2> QED
    BY <2>2, <2>3, <2>4, <1>u, RowFacts, Moves, WorkersStay DEF Rewrites, Sealed
<1> QED
  BY <1>1, <1>2, Zenon DEF append_response_archive_spool_batch_with, Commits

\* Sealing: the whole body is stored.
LEMMA ISeal == ASSUME IInv, NEW r \in Requests, seal_response_archive_spool(r) PROVE IInv'
<1>u. UNCHANGED <<stored, record, worker, late>>
  BY DEF seal_response_archive_spool
<1>1. CASE UNCHANGED spool
  BY <1>1, <1>u, RowFacts, Moves, WorkersStay
<1>2. CASE /\ spool[r].count = Chunks
           /\ spool' = [spool EXCEPT ![r].state = "pending"]
  <2>1. spool'[r] \in SpoolRow(spool'[r].cipher) /\ spool'[r].state = "pending"
        /\ spool'[r].count = Chunks
    BY <1>2, RowFacts DEF SpoolRow
  <2>2. /\ spool' = [q \in Requests |-> spool'[q]]
        /\ \A q \in Requests \ {r} : spool'[q] = spool[q]
    BY <1>2, RowFacts
  <2> QED
    BY <2>1, <2>2, <1>u, RowFacts, Moves, WorkersStay DEF Rewrites
<1>3. writer[r].seq = Chunks
  BY DEF seal_response_archive_spool
<1>4. \/ UNCHANGED spool
      \/ spool[r].count = writer[r].seq /\ spool' = [spool EXCEPT ![r].state = "pending"]
  BY Zenon DEF seal_response_archive_spool, Commits
<1> QED
  BY <1>1, <1>2, <1>3, <1>4

\* Failing the capture fences a row that is not sealed yet.
LEMMA IFence == ASSUME IInv, NEW r \in Requests, fail_response_archive_spool(r) PROVE IInv'
<1>u. UNCHANGED <<stored, record, worker, late>>
  BY DEF fail_response_archive_spool
<1>1. CASE UNCHANGED spool
  BY <1>1, <1>u, RowFacts, Moves, WorkersStay
<1>2. CASE spool' = [spool EXCEPT ![r] = [Unleased(@) EXCEPT !.state = "gap", !.expired = TRUE]]
  <2> DEFINE new == [Unleased(spool[r]) EXCEPT !.state = "gap", !.expired = TRUE]
  <2>1. new \in SpoolRow(new.cipher) /\ new.state = "gap"
    BY RowFacts DEF SpoolRow, Unleased
  <2>2. spool' = [spool EXCEPT ![r] = new]
    BY <1>2
  <2> HIDE DEF new
  <2> QED
    BY <2>1, <2>2, <1>u, RowFacts, Moves, WorkersStay DEF Rewrites, Sealed
<1> QED
  BY <1>1, <1>2, Zenon DEF fail_response_archive_spool, Commits

\* A buffered body is stored whole.
LEMMA ICapture == ASSUME IInv, NEW r \in Requests, capture_deferred_archive(r) PROVE IInv'
<1>u. UNCHANGED <<record, worker, late>>
  BY DEF capture_deferred_archive
<1>1. CASE UNCHANGED <<spool, stored>>
  BY <1>1, <1>u, RowFacts, Moves, WorkersStay
<1>2. CASE \E sizes \in [1..Chunks -> ChunkSizes] :
             /\ spool' = [spool EXCEPT ![r] = [NoSpool EXCEPT !.state = "pending",
                              !.count = Chunks, !.cipher = Overhead + Total(Body(sizes))]]
             /\ stored' = [stored EXCEPT ![r] = Body(sizes)]
  <2>1. PICK sizes \in [1..Chunks -> ChunkSizes] :
             /\ spool' = [spool EXCEPT ![r] = [NoSpool EXCEPT !.state = "pending",
                              !.count = Chunks, !.cipher = Overhead + Total(Body(sizes))]]
             /\ stored' = [stored EXCEPT ![r] = Body(sizes)]
    BY <1>2
  <2> DEFINE new == [NoSpool EXCEPT !.state = "pending", !.count = Chunks,
                                    !.cipher = Overhead + Total(Body(sizes))]
  <2>2. new \in SpoolRow(new.cipher) /\ new.state = "pending" /\ new.count = Chunks
    <3>1. NoSpool \in SpoolRow(0)
      BY SpoolAssumption DEF NoSpool, SpoolRow
    <3>2. new \in SpoolRow(Overhead + Total(Body(sizes)))
      <4>1. Chunks \in 0..Chunks
        BY SpoolAssumption
      <4> QED
        BY <3>1, <4>1 DEF SpoolRow
    <3>3. new.state = "pending" /\ new.count = Chunks
      BY <3>1 DEF SpoolRow
    <3>4. new.cipher = Overhead + Total(Body(sizes))
      BY <3>1 DEF SpoolRow
    <3> QED
      BY <3>2, <3>3, <3>4
  <2>3. spool' = [spool EXCEPT ![r] = new]
    BY <2>1
  <2>4. stored' = [q \in Requests |-> stored'[q]]
    BY <2>1, RowFacts
  <2> HIDE DEF new
  <2> QED
    BY <2>2, <2>3, <2>4, <1>u, RowFacts, Moves, WorkersStay DEF Rewrites, Sealed
<1> QED
  BY <1>1, <1>2, Zenon DEF capture_deferred_archive, Commits, Body

-----------------------------------------------------------------------------
(* Upload workers.                                                         *)

\* The shape of a worker and of the batch it holds.
LEMMA TaskFacts ==
    ASSUME IInv, NEW w \in Workers
    PROVE  /\ worker \in [Workers -> WorkerType] /\ worker[w] \in WorkerType
           /\ late \subseteq TaskType
           /\ worker[w].pc # "idle" => worker[w].task \in TaskType /\ worker[w].task.req \in Requests
<1>1. /\ worker \in [Workers -> WorkerType] /\ worker[w] \in WorkerType /\ late \subseteq TaskType
      /\ worker[w].pc # "idle" => worker[w].task \in TaskType
  BY DEF IInv, WorkersOK
<1> QED
  BY <1>1 DEF TaskType

\* A worker goes on with its task or puts it down.
LEMMA WorkerMoves ==
    ASSUME IInv, NEW w \in Workers,
           \/ worker' = [worker EXCEPT ![w] = Idle]
           \/ /\ worker[w].pc # "idle"
              /\ \E pc \in {"loading", "binding", "retrying"} :
                    worker' = [worker EXCEPT ![w].pc = pc],
           late' \subseteq late \cup {worker[w].task},
           worker[w].pc # "idle" \/ late' \subseteq late
    PROVE  WorkersOK'
<1>1. late' \subseteq TaskType
  BY TaskFacts
<1>2. CASE worker' = [worker EXCEPT ![w] = Idle]
  <2>1. Idle \in WorkerType /\ Idle.pc = "idle"
    BY SpoolAssumption DEF Idle, WorkerType
  <2> QED
    BY <1>1, <1>2, <2>1 DEF IInv, WorkersOK
<1>3. CASE /\ worker[w].pc # "idle"
           /\ \E pc \in {"loading", "binding", "retrying"} : worker' = [worker EXCEPT ![w].pc = pc]
  <2>1. PICK pc \in {"loading", "binding", "retrying"} : worker' = [worker EXCEPT ![w].pc = pc]
    BY <1>3
  <2>2. /\ worker' \in [Workers -> WorkerType] /\ worker'[w].task = worker[w].task
        /\ \A v \in Workers \ {w} : worker'[v] = worker[v]
    BY <2>1, TaskFacts DEF WorkerType
  <2> QED
    BY <1>1, <1>3, <2>2 DEF IInv, WorkersOK
<1> QED
  BY <1>2, <1>3

\* A worker leases a sealed row.
LEMMA IClaim == ASSUME IInv, NEW w \in Workers, claim_archive_spool_if(w) PROVE IInv'
<1>u. UNCHANGED <<stored, record, late>>
  BY DEF claim_archive_spool_if
<1>1. PICK r \in Requests :
        /\ Claimable(r)
        /\ spool' = [spool EXCEPT ![r].state = "uploading", ![r].owner = w,
                                  ![r].live = TRUE, ![r].token = spool[r].token + 1]
        /\ worker' = [worker EXCEPT ![w] = [pc |-> "loading", read |-> 0,
               task |-> [req |-> r, token |-> spool[r].token + 1, count |-> spool[r].count,
                         cas |-> record[r].completed /\ record[r].ok]]]
  BY DEF claim_archive_spool_if
<1>2. spool[r].state \in {"pending", "uploading"} /\ spool[r].count = Chunks
  BY <1>1 DEF Claimable, IInv, SealedIsWhole, Sealed
<1>3. /\ spool' = [q \in Requests |-> spool'[q]]
      /\ \A q \in Requests \ {r} : spool'[q] = spool[q]
  BY <1>1, RowFacts
<1>4. spool'[r].state = "uploading" /\ spool'[r].count = Chunks
  BY <1>1, <1>2, RowFacts DEF SpoolRow
<1>5. spool'[r] \in SpoolRow(spool'[r].cipher)
  BY <1>1, RowFacts DEF SpoolRow
<1> DEFINE task == [req |-> r, token |-> spool[r].token + 1, count |-> spool[r].count,
                    cas |-> record[r].completed /\ record[r].ok]
           new == [pc |-> "loading", read |-> 0, task |-> task]
<1>6. task \in TaskType
  <2>1. spool[r].token + 1 \in Nat /\ spool[r].count \in 0..Chunks
    BY RowFacts DEF SpoolRow
  <2> QED
    BY <2>1 DEF TaskType
<1>7. worker' = [worker EXCEPT ![w] = new]
  BY <1>1
<1> HIDE DEF task
<1>8. new \in WorkerType /\ new.task \in TaskType
  BY <1>6, SpoolAssumption DEF WorkerType
<1> HIDE DEF new
<1>9. WorkersOK'
  BY <1>7, <1>8, <1>u DEF IInv, WorkersOK
<1> QED
  BY <1>u, <1>3, <1>4, <1>5, <1>9, RowFacts, Moves DEF Rewrites

\* A worker reads the batch it leased.
LEMMA ILoad == ASSUME IInv, NEW w \in Workers, load_response_archive_spool_batch(w) PROVE IInv'
<1>u. UNCHANGED <<spool, stored, record, late>> /\ worker[w].pc = "loading"
  BY DEF load_response_archive_spool_batch
<1>1. WorkersOK'
  <2>1. CASE \E pc \in {"loading", "binding", "retrying"} : worker' = [worker EXCEPT ![w].pc = pc]
    BY <1>u, <2>1, WorkerMoves
  <2>2. CASE worker[w].read < worker[w].task.count /\ worker' = [worker EXCEPT ![w].read = @ + 1]
    <3>1. worker[w].read \in 0..Chunks /\ worker[w].task.count \in 0..Chunks /\ Chunks \in Nat
      BY <1>u, TaskFacts, SpoolAssumption DEF WorkerType, TaskType
    <3>2. worker[w].read + 1 \in 0..Chunks
      BY <2>2, <3>1
    <3>3. /\ worker' \in [Workers -> WorkerType] /\ worker'[w].task = worker[w].task
          /\ \A v \in Workers \ {w} : worker'[v] = worker[v]
      BY <2>2, <3>2, TaskFacts DEF WorkerType
    <3> QED
      BY <1>u, <3>3, TaskFacts DEF IInv, WorkersOK
  <2> QED
    BY <2>1, <2>2, Zenon DEF load_response_archive_spool_batch
<1>2. RowsOK' /\ SealedIsWhole' /\ BoundIsNamed'
  BY <1>u DEF IInv, RowsOK, SealedIsWhole, BoundIsNamed
<1> QED
  BY <1>1, <1>2 DEF IInv

\* The bind: the token of a live task is that of the spool it uploads.
LEMMA Binding ==
    ASSUME IInv, NEW task \in TaskType, Complete(task), UNCHANGED stored, WorkersOK'
    PROVE  IInv'
<1>1. CASE UNCHANGED <<record, spool>>
  BY <1>1 DEF IInv, RowsOK, SealedIsWhole, BoundIsNamed
<1>2. CASE /\ Completes(task)
           /\ record' = [record EXCEPT ![task.req].object = task.token]
           /\ spool' = [spool EXCEPT ![task.req] = [Unleased(@) EXCEPT !.state = "bound"]]
  <2>1. PICK r \in Requests : r = task.req
    BY DEF TaskType
  <2>2. task.token \in Nat /\ spool[r].token = task.token /\ spool[r].state = "uploading"
    BY <1>2, <2>1 DEF Completes, TaskLive, TaskType
  <2>3. spool[r].count = Chunks
    BY <2>2 DEF IInv, SealedIsWhole, Sealed
  <2> DEFINE new == [Unleased(spool[r]) EXCEPT !.state = "bound"]
  <2>4. /\ new \in SpoolRow(new.cipher) /\ new.state = "bound" /\ new.count = Chunks
        /\ new.token = spool[r].token
    BY <2>3, RowFacts DEF SpoolRow, Unleased
  <2>5. spool' = [spool EXCEPT ![r] = new]
    BY <1>2, <2>1
  <2> HIDE DEF new
  <2>6. /\ record' \in [Requests -> RecordType] /\ record'[r].object = spool[r].token
        /\ \A q \in Requests \ {r} : record'[q] = record[q]
    BY <1>2, <2>1, <2>2 DEF IInv, RowsOK, RecordType
  <2>7. /\ spool' = [q \in Requests |-> spool'[q]] /\ spool'[r] = new
        /\ \A q \in Requests \ {r} : spool'[q] = spool[q]
    BY <2>5, RowFacts
  <2>8. RowsOK'
    BY <2>4, <2>6, <2>7 DEF IInv, RowsOK
  <2>9. SealedIsWhole' /\ BoundIsNamed'
    BY <2>4, <2>6, <2>7 DEF IInv, SealedIsWhole, BoundIsNamed
  <2> QED
    BY <2>8, <2>9 DEF IInv
<1> QED
  BY <1>1, <1>2, Zenon DEF Complete

\* A worker binds what it read, if its lease still stands.
LEMMA IComplete == ASSUME IInv, NEW w \in Workers, complete_response_archive_spool(w) PROVE IInv'
<1>u. UNCHANGED stored /\ worker[w].pc = "binding"
  BY DEF complete_response_archive_spool
<1>1. Complete(worker[w].task) \/ UNCHANGED <<record, spool>>
  BY Zenon DEF complete_response_archive_spool, Commits
<1>2. \/ worker' = [worker EXCEPT ![w] = Idle]
      \/ worker' = [worker EXCEPT ![w].pc = "retrying"]
  BY Zenon DEF complete_response_archive_spool, Commits
<1>3. late' = late \/ late' = late \cup {worker[w].task}
  BY Zenon DEF complete_response_archive_spool
<1>4. WorkersOK'
  BY <1>u, <1>2, <1>3, WorkerMoves
<1>5. CASE UNCHANGED <<record, spool>>
  BY <1>4, <1>5, <1>u DEF IInv, RowsOK, SealedIsWhole, BoundIsNamed
<1>6. CASE Complete(worker[w].task)
  BY <1>4, <1>6, <1>u, TaskFacts, Binding
<1> QED
  BY <1>1, <1>5, <1>6

\* A completion that was delayed past its lease.
LEMMA ILate == ASSUME IInv, LateBind PROVE IInv'
<1>1. PICK task \in late : late' = late \ {task} /\ Complete(task)
  BY DEF LateBind
<1>2. task \in TaskType /\ WorkersOK'
  BY <1>1 DEF IInv, WorkersOK, LateBind
<1> QED
  BY <1>1, <1>2, Binding DEF LateBind

\* A worker gives its row back.
LEMMA IRetry == ASSUME IInv, NEW w \in Workers, retry_response_archive_spool(w) PROVE IInv'
<1>u. /\ UNCHANGED <<stored, record, late>> /\ worker[w].pc = "retrying"
      /\ worker' = [worker EXCEPT ![w] = Idle]
  BY DEF retry_response_archive_spool
<1>1. WorkersOK'
  BY <1>u, WorkerMoves
<1>2. PICK r \in Requests : r = worker[w].task.req
  BY <1>u, TaskFacts
<1>3. CASE UNCHANGED spool
  BY <1>1, <1>3, <1>u DEF IInv, RowsOK, SealedIsWhole, BoundIsNamed
<1>4. CASE /\ TaskLive(worker[w].task)
           /\ spool' = [spool EXCEPT ![worker[w].task.req] = [Unleased(@) EXCEPT
                           !.state = "pending", !.waiting = TRUE]]
  <2>1. spool[r].count = Chunks
    BY <1>2, <1>4 DEF TaskLive, IInv, SealedIsWhole, Sealed
  <2> DEFINE new == [Unleased(spool[r]) EXCEPT !.state = "pending", !.waiting = TRUE]
  <2>2. /\ new \in SpoolRow(new.cipher) /\ new.state = "pending" /\ new.count = Chunks
    BY <2>1, RowFacts DEF SpoolRow, Unleased
  <2>3. spool' = [spool EXCEPT ![r] = new]
    BY <1>2, <1>4
  <2> HIDE DEF new
  <2> QED
    BY <1>1, <1>u, <2>2, <2>3, RowFacts, Moves DEF Rewrites
<1> QED
  BY <1>3, <1>4, Zenon DEF retry_response_archive_spool, Commits

-----------------------------------------------------------------------------
(* The request, the collector and time.                                    *)

\* The request's row reaches its end.
LEMMA IFinish == ASSUME IInv, NEW r \in Requests, FinishRequest(r) PROVE IInv'
<1>u. UNCHANGED <<spool, stored, worker, late>>
  BY DEF FinishRequest
<1>1. PICK ok \in BOOLEAN :
        record' = [record EXCEPT ![r] = [completed |-> TRUE, ok |-> ok,
            object |-> IF spool[r].state = "bound" /\ spool[r].token = record[r].object
                       THEN record[r].object ELSE Gap]]
  BY DEF FinishRequest
<1> DEFINE object == IF spool[r].state = "bound" /\ spool[r].token = record[r].object
                     THEN record[r].object ELSE Gap
           new == [completed |-> TRUE, ok |-> ok, object |-> object]
<1>2. object \in {Null, Gap} \cup Nat /\ (spool[r].state = "bound" => object = spool[r].token)
  BY DEF IInv, RowsOK, RecordType, BoundIsNamed
<1>3. record' = [record EXCEPT ![r] = new]
  BY <1>1
<1> HIDE DEF object
<1>4. new \in RecordType /\ new.object = object
  BY <1>2 DEF RecordType
<1> HIDE DEF new
<1>5. RowsOK'
  BY <1>u, <1>3, <1>4 DEF IInv, RowsOK
<1>6. SealedIsWhole' /\ BoundIsNamed'
  BY <1>u, <1>2, <1>3, <1>4 DEF IInv, RowsOK, SealedIsWhole, BoundIsNamed
<1> QED
  BY <1>5, <1>6, <1>u, WorkersStay DEF IInv

\* Cleanup deletes a chunk of a row that is bound or expired.
LEMMA ICollect == ASSUME IInv, NEW r \in Requests, cleanup_archive_spool_batch(r) PROVE IInv'
<1>u. UNCHANGED <<record, worker, late>>
  BY DEF cleanup_archive_spool_batch
<1>1. stored' = [q \in Requests |-> stored'[q]]
  BY RowFacts DEF cleanup_archive_spool_batch
<1>b. PICK batch :
        spool' = [spool EXCEPT ![r] = [Unleased(spool[r]) EXCEPT
                    !.state = IF spool[r].state = "bound" THEN "bound" ELSE "gap",
                    !.cleaned = batch = stored[r], !.cipher = @ - Released(r, batch)]]
  BY Zenon DEF cleanup_archive_spool_batch
<1> DEFINE cleaned == batch = stored[r]
           released == Released(r, batch)
           state == IF spool[r].state = "bound" THEN "bound" ELSE "gap"
           row == Unleased(spool[r])
           new == [row EXCEPT !.state = state, !.cleaned = cleaned, !.cipher = @ - released]
<1>2. spool' = [spool EXCEPT ![r] = new]
  BY <1>b
<1>3. cleaned \in BOOLEAN /\ state \in {"bound", "gap"} /\ (state = "bound" => spool[r].state = "bound")
  OBVIOUS
<1>4. row \in SpoolRow(spool[r].cipher) /\ row.count = spool[r].count /\ row.token = spool[r].token
  BY RowFacts DEF SpoolRow, Unleased
<1> HIDE DEF cleaned, released, state, row
<1>5. new \in SpoolRow(row.cipher - released)
  BY <1>3, <1>4 DEF SpoolRow
<1>6. new.state = state /\ new.count = spool[r].count /\ new.token = spool[r].token
  BY <1>4 DEF SpoolRow
<1>7. new.cipher = row.cipher - released
  BY <1>4 DEF SpoolRow
<1> HIDE DEF new
<1>8. spool[r].state \in Sealed => spool[r].count = Chunks
  BY DEF IInv, SealedIsWhole
<1>9. Rewrites(r)
  BY <1>2, <1>3, <1>5, <1>6, <1>7, <1>8, RowFacts DEF Rewrites, Sealed
<1> QED
  BY <1>u, <1>1, <1>9, Moves, WorkersStay

\* Retention, leases and retry delays run out.
LEMMA IClocks ==
    ASSUME IInv, NEW r \in Requests, SpoolExpires(r) \/ LeaseExpires(r) \/ RetryDue(r)
    PROVE  IInv'
<1>u. UNCHANGED <<stored, record, worker, late>>
  BY DEF SpoolExpires, LeaseExpires, RetryDue
<1>1. \/ spool' = [spool EXCEPT ![r].expired = TRUE]
      \/ spool' = [spool EXCEPT ![r].live = FALSE]
      \/ spool' = [spool EXCEPT ![r].waiting = FALSE]
  BY DEF SpoolExpires, LeaseExpires, RetryDue
<1>2. spool'[r] \in SpoolRow(spool'[r].cipher)
  <2>1. CASE spool' = [spool EXCEPT ![r].expired = TRUE]
    BY <2>1, RowFacts DEF SpoolRow
  <2>2. CASE spool' = [spool EXCEPT ![r].live = FALSE]
    BY <2>2, RowFacts DEF SpoolRow
  <2>3. CASE spool' = [spool EXCEPT ![r].waiting = FALSE]
    BY <2>3, RowFacts DEF SpoolRow
  <2> QED
    BY <1>1, <2>1, <2>2, <2>3
<1>3. spool'[r].state = spool[r].state /\ spool'[r].count = spool[r].count
      /\ spool'[r].token = spool[r].token
  BY <1>1, RowFacts DEF SpoolRow
<1>4. spool' = [q \in Requests |-> spool'[q]] /\ \A q \in Requests \ {r} : spool'[q] = spool[q]
  BY <1>1, RowFacts
<1>5. spool[r].state \in Sealed => spool[r].count = Chunks
  BY DEF IInv, SealedIsWhole
<1> QED
  BY <1>u, <1>2, <1>3, <1>4, <1>5, RowFacts, Moves, WorkersStay DEF Rewrites

\* Steps that leave spools, chunks and request rows alone.
LEMMA IElsewhere ==
    ASSUME IInv, UNCHANGED <<spool, stored, record>>, WorkersOK'
    PROVE  IInv'
BY DEF IInv, RowsOK, SealedIsWhole, BoundIsNamed

\* Every step keeps the invariant.
LEMMA INext == IInv /\ [Next]_vars => IInv'
<1> SUFFICES ASSUME IInv, [Next]_vars PROVE IInv'
  OBVIOUS
<1>1. ASSUME NEW r \in Requests, WriterStep(r) PROVE IInv'
  <2>1. CASE \/ WriterInterrupted(r) \/ deferred_archive_is_captured(r) \/ CollectsLapsed(r)
             \/ reserve_buffered_archive_capacity(r) \/ release_archive_budget_reservation(r)
    <3>1. UNCHANGED <<spool, stored, record, worker, late>>
      BY <2>1, Zenon DEF WriterInterrupted, deferred_archive_is_captured, CollectsLapsed,
           reserve_buffered_archive_capacity, release_archive_budget_reservation
    <3> QED
      BY <3>1, WorkersStay, IElsewhere
  <2> QED
    BY <1>1, <2>1, IBegin, IAppend, ISeal, IFence, ICapture DEF WriterStep
<1>2. ASSUME NEW r \in Requests, seal(r) \/ abandon(r) PROVE IInv'
  BY <1>2, WorkersStay, IElsewhere DEF seal, abandon
<1>3. ASSUME NEW r \in Requests,
             \/ FinishRequest(r) \/ cleanup_archive_spool_batch(r)
             \/ SpoolExpires(r) \/ LeaseExpires(r) \/ RetryDue(r)
      PROVE  IInv'
  BY <1>3, IFinish, ICollect, IClocks
<1>4. ASSUME NEW w \in Workers, WorkerStep(w) PROVE IInv'
  BY <1>4, IClaim, ILoad, IComplete, IRetry DEF WorkerStep
<1>5. ASSUME NEW w \in Workers, WorkerDies(w) PROVE IInv'
  BY <1>5, WorkerMoves, IElsewhere DEF WorkerDies
<1>6. CASE LateBind
  BY <1>6, ILate
<1>7. CASE GatewayDies \/ cleanup_expired_archive_budget_reservation \/ ReservationExpires
  BY <1>7, WorkersStay, IElsewhere
  DEF GatewayDies, cleanup_expired_archive_budget_reservation, ReservationExpires
<1>8. CASE UNCHANGED vars
  BY <1>8, WorkersStay, IElsewhere DEF vars
<1> QED
  BY <1>1, <1>2, <1>3, <1>4, <1>5, <1>6, <1>7, <1>8 DEF Next

\* A bound spool is a whole body and its request row names that object,
\* whichever uploads, finishes and late binds came before.
THEOREM BoundIsWhole == Spec => []BoundBodiesAreWhole
<1>1. IInv => BoundBodiesAreWhole
  BY DEF IInv, SealedIsWhole, BoundIsNamed, Sealed, BoundBodiesAreWhole
<1> QED
  BY <1>1, IInit, INext, PTL DEF Spec

-----------------------------------------------------------------------------
(* What a step may do to a sealed body.                                    *)

Open(r) == spool[r].state \in {"pending", "uploading"} /\ ~spool[r].expired
Survives(r) == /\ spool'[r].state \in {"pending", "uploading", "bound"}
               /\ stored'[r] = stored[r]

\* Rows and segments that do not move survive.
LEMMA Untouched ==
    ASSUME UNCHANGED <<spool, stored>>, NEW q \in Requests, Open(q) PROVE Survives(q)
BY DEF Open, Survives

\* A step about one row that is not an open sealed body.
LEMMA Beside ==
    ASSUME IInv, NEW r \in Requests, NEW s, NEW b, NEW q \in Requests, Open(q), ~Open(r),
           spool' = [spool EXCEPT ![r] = s],
           UNCHANGED stored \/ stored' = [stored EXCEPT ![r] = b]
    PROVE  Survives(q)
BY RowFacts DEF Open, Survives

\* A step about one row that leaves its chunks alone.
LEMMA Keeps ==
    ASSUME IInv, NEW r \in Requests, NEW q \in Requests, Open(q), UNCHANGED stored,
           \A p \in Requests \ {r} : spool'[p] = spool[p],
           spool'[r].state \in {spool[r].state, "pending", "uploading", "bound"}
    PROVE  Survives(q)
BY DEF Open, Survives

\* No step of a request's writer loses a body that waits to be bound.
LEMMA WritersKeep ==
    ASSUME IInv, NEW r \in Requests, WriterStep(r), NEW q \in Requests, Open(q)
    PROVE  Survives(q)
<1>1. CASE begin_response_archive_spool(r)
  <2>1. \/ UNCHANGED <<spool, stored>>
        \/ /\ spool[r].state = "none" /\ UNCHANGED stored
           /\ spool' = [spool EXCEPT ![r] = [NoSpool EXCEPT !.state = "capturing",
                                                            !.cipher = Overhead]]
    BY <1>1, Zenon DEF begin_response_archive_spool, Commits
  <2> QED
    BY <2>1, Untouched, Beside DEF Open
<1>2. CASE append_response_archive_spool_batch_with(r)
  <2>1. \/ UNCHANGED <<spool, stored>>
        \/ /\ spool[r].state = "capturing"
           /\ \E n \in ChunkSizes :
                /\ spool' = [spool EXCEPT ![r].count = @ + 1, ![r].cipher = @ + n]
                /\ stored' = [stored EXCEPT ![r] =
                                @ \cup {[seq |-> spool[r].count + 1, bytes |-> n]}]
    BY <1>2, Zenon DEF append_response_archive_spool_batch_with, Commits
  <2> QED
    BY <2>1, Untouched, RowFacts DEF Open, Survives
<1>3. CASE seal_response_archive_spool(r)
  <2>1. \/ UNCHANGED <<spool, stored>>
        \/ UNCHANGED stored /\ spool' = [spool EXCEPT ![r].state = "pending"]
    BY <1>3, Zenon DEF seal_response_archive_spool, Commits
  <2> QED
    BY <2>1, Untouched, RowFacts DEF Open, Survives, SpoolRow
<1>4. CASE fail_response_archive_spool(r)
  <2>1. \/ UNCHANGED <<spool, stored>>
        \/ /\ spool[r].state = "capturing" /\ UNCHANGED stored
           /\ spool' = [spool EXCEPT ![r] = [Unleased(@) EXCEPT !.state = "gap",
                                                               !.expired = TRUE]]
    BY <1>4, Zenon DEF fail_response_archive_spool, Commits
  <2> QED
    BY <2>1, Untouched, Beside DEF Open
<1>5. CASE capture_deferred_archive(r)
  <2>1. \/ UNCHANGED <<spool, stored>>
        \/ /\ spool[r].state = "none"
           /\ \E s, b : /\ spool' = [spool EXCEPT ![r] = s]
                        /\ stored' = [stored EXCEPT ![r] = b]
    BY <1>5, Zenon DEF capture_deferred_archive, Commits
  <2> QED
    BY <2>1, Untouched, Beside DEF Open
<1>6. CASE \/ WriterInterrupted(r) \/ deferred_archive_is_captured(r) \/ CollectsLapsed(r)
           \/ reserve_buffered_archive_capacity(r) \/ release_archive_budget_reservation(r)
  BY <1>6, Untouched DEF WriterInterrupted, deferred_archive_is_captured, CollectsLapsed,
       reserve_buffered_archive_capacity, release_archive_budget_reservation
<1> QED
  BY <1>1, <1>2, <1>3, <1>4, <1>5, <1>6, Zenon DEF WriterStep

\* Binding a body removes it from the spool only by finishing it.
LEMMA BindingKeeps ==
    ASSUME IInv, NEW task \in TaskType, Complete(task), UNCHANGED stored,
           NEW q \in Requests, Open(q)
    PROVE  Survives(q)
<1>1. PICK r \in Requests : r = task.req
  BY DEF TaskType
<1>2. CASE UNCHANGED spool
  BY <1>2, Untouched
<1>3. CASE spool' = [spool EXCEPT ![r] = [Unleased(@) EXCEPT !.state = "bound"]]
  <2>1. Unleased(spool[r]) \in SpoolRow(spool[r].cipher)
    BY RowFacts DEF Unleased, SpoolRow
  <2>2. [Unleased(spool[r]) EXCEPT !.state = "bound"].state = "bound"
    BY <2>1 DEF SpoolRow
  <2> QED
    BY <1>3, <2>2, RowFacts, Keeps
<1> QED
  BY <1>1, <1>2, <1>3 DEF Complete

\* No step of a worker loses a body that waits to be bound.
LEMMA WorkersKeep ==
    ASSUME IInv, NEW w \in Workers, WorkerStep(w), NEW q \in Requests, Open(q)
    PROVE  Survives(q)
<1>1. CASE claim_archive_spool_if(w)
  <2>1. PICK r \in Requests :
          spool' = [spool EXCEPT ![r].state = "uploading", ![r].owner = w,
                                 ![r].live = TRUE, ![r].token = spool[r].token + 1]
    BY <1>1 DEF claim_archive_spool_if
  <2>2. spool'[r].state = "uploading" /\ \A p \in Requests \ {r} : spool'[p] = spool[p]
    BY <2>1, RowFacts DEF SpoolRow
  <2> QED
    BY <1>1, <2>2, Keeps DEF claim_archive_spool_if
<1>2. CASE load_response_archive_spool_batch(w)
  BY <1>2, Untouched DEF load_response_archive_spool_batch
<1>3. CASE complete_response_archive_spool(w)
  <2>1. Complete(worker[w].task) \/ UNCHANGED spool
    BY <1>3, Zenon DEF complete_response_archive_spool, Commits
  <2>2. UNCHANGED stored /\ worker[w].pc # "idle"
    BY <1>3 DEF complete_response_archive_spool
  <2> QED
    BY <2>1, <2>2, TaskFacts, BindingKeeps, Untouched
<1>4. CASE retry_response_archive_spool(w)
  <2>1. PICK r \in Requests : r = worker[w].task.req
    BY <1>4, TaskFacts DEF retry_response_archive_spool
  <2>2. \/ UNCHANGED spool
        \/ spool' = [spool EXCEPT ![r] = [Unleased(@) EXCEPT !.state = "pending",
                                                            !.waiting = TRUE]]
    BY <1>4, <2>1 DEF retry_response_archive_spool, Commits
  <2>3. Unleased(spool[r]) \in SpoolRow(spool[r].cipher)
    BY RowFacts DEF Unleased, SpoolRow
  <2>4. [Unleased(spool[r]) EXCEPT !.state = "pending", !.waiting = TRUE].state = "pending"
    BY <2>3 DEF SpoolRow
  <2>5. UNCHANGED stored
    BY <1>4 DEF retry_response_archive_spool
  <2> QED
    BY <2>2, <2>4, <2>5, RowFacts, Keeps, Untouched
<1> QED
  BY <1>1, <1>2, <1>3, <1>4, Zenon DEF WorkerStep

\* Until it is bound or its retention ends, a sealed body keeps all its chunks
\* and stays on its way to storage, whatever fails.
THEOREM SealedSurvive == Spec => SealedBodiesSurvive
<1>1. ASSUME IInv, [Next]_vars, NEW q \in Requests, Open(q) PROVE Survives(q)
  <2>1. ASSUME NEW r \in Requests, cleanup_archive_spool_batch(r) PROVE Survives(q)
    <3>1. /\ ~Open(r)
          /\ \E s, b : spool' = [spool EXCEPT ![r] = s] /\ stored' = [stored EXCEPT ![r] = b]
      BY <2>1, Zenon DEF cleanup_archive_spool_batch, Open
    <3> QED
      BY <1>1, <3>1, Beside
  <2>2. ASSUME NEW r \in Requests, SpoolExpires(r) \/ LeaseExpires(r) \/ RetryDue(r)
        PROVE  Survives(q)
    <3>1. \/ spool' = [spool EXCEPT ![r].expired = TRUE]
          \/ spool' = [spool EXCEPT ![r].live = FALSE]
          \/ spool' = [spool EXCEPT ![r].waiting = FALSE]
      BY <2>2 DEF SpoolExpires, LeaseExpires, RetryDue
    <3>2. spool'[r].state = spool[r].state /\ \A p \in Requests \ {r} : spool'[p] = spool[p]
      BY <1>1, <3>1, RowFacts DEF SpoolRow
    <3>3. UNCHANGED stored
      BY <2>2 DEF SpoolExpires, LeaseExpires, RetryDue
    <3> QED
      BY <1>1, <3>2, <3>3, Keeps
  <2>3. ASSUME NEW r \in Requests, WriterStep(r) PROVE Survives(q)
    BY <1>1, <2>3, WritersKeep
  <2>4. ASSUME NEW r \in Requests, seal(r) \/ abandon(r) \/ FinishRequest(r) PROVE Survives(q)
    BY <1>1, <2>4, Untouched DEF seal, abandon, FinishRequest
  <2>5. ASSUME NEW w \in Workers, WorkerStep(w) PROVE Survives(q)
    BY <1>1, <2>5, WorkersKeep
  <2>6. ASSUME NEW w \in Workers, WorkerDies(w) PROVE Survives(q)
    BY <1>1, <2>6, Untouched DEF WorkerDies
  <2>7. CASE LateBind
    <3>1. PICK task \in late : Complete(task)
      BY <2>7 DEF LateBind
    <3>2. task \in TaskType /\ UNCHANGED stored
      BY <1>1, <2>7 DEF LateBind, IInv, WorkersOK
    <3> QED
      BY <1>1, <3>1, <3>2, BindingKeeps
  <2>8. CASE \/ GatewayDies \/ cleanup_expired_archive_budget_reservation
             \/ ReservationExpires \/ UNCHANGED vars
    BY <1>1, <2>8, Untouched DEF GatewayDies, cleanup_expired_archive_budget_reservation,
                              ReservationExpires, vars
  <2> QED
    BY <1>1, <2>1, <2>2, <2>3, <2>4, <2>5, <2>6, <2>7, <2>8 DEF Next
<1>2. IInv /\ [Next]_vars =>
        [\A r \in Requests :
            spool[r].state \in {"pending", "uploading"} /\ ~spool[r].expired =>
                /\ spool'[r].state \in {"pending", "uploading", "bound"}
                /\ stored'[r] = stored[r]]_vars
  BY <1>1 DEF Open, Survives
<1> QED
  BY <1>2, IInit, INext, PTL DEF Spec, SealedBodiesSurvive

-----------------------------------------------------------------------------
(* The counter.                                                            *)

\* The bytes of one row.
LEMMA RowBytes ==
  ASSUME NEW row, row.bytes \in Nat
  PROVE  /\ IsFiniteSet({row} \X (1..row.bytes))
         /\ Cardinality({row} \X (1..row.bytes)) = row.bytes
<1>1. IsFiniteSet({row}) /\ Cardinality({row}) = 1
  BY FS_Singleton
<1>2. IsFiniteSet(1..row.bytes) /\ Cardinality(1..row.bytes) = row.bytes
  BY FS_Interval
<1>3. /\ IsFiniteSet({row} \X (1..row.bytes))
      /\ Cardinality({row} \X (1..row.bytes)) = Cardinality({row}) * Cardinality(1..row.bytes)
  BY <1>1, <1>2, FS_Product
<1> QED
  BY <1>1, <1>2, <1>3

\* Finitely many rows have finitely many bytes.
LEMMA TotalType ==
  ASSUME NEW S, IsFiniteSet(S), \A row \in S : row.bytes \in Nat
  PROVE  IsFiniteSet(Bytes(S)) /\ Total(S) \in Nat
<1> DEFINE f == [row \in S |-> {row} \X (1..row.bytes)]
           parts == {{row} \X (1..row.bytes) : row \in S}
<1>1. f \in Surjection(S, parts)
  BY DEF Surjection
<1>2. IsFiniteSet(parts)
  BY <1>1, FS_Surjection
<1>3. \A part \in parts : IsFiniteSet(part)
  BY RowBytes
<1>4. IsFiniteSet(UNION parts)
  <2> HIDE DEF parts
  <2> QED
    BY <1>2, <1>3, FS_UNION
<1> QED
  BY <1>4, FS_CardinalityType DEF Bytes, Total

\* Rows apart from each other take the sum of what they take.
LEMMA TotalApart ==
  ASSUME NEW S, NEW T, IsFiniteSet(S), IsFiniteSet(T), S \cap T = {},
         \A row \in S \cup T : row.bytes \in Nat
  PROVE  Total(S \cup T) = Total(S) + Total(T)
<1>1. IsFiniteSet(Bytes(S)) /\ IsFiniteSet(Bytes(T)) /\ Total(S) \in Nat /\ Total(T) \in Nat
  BY TotalType
<1>2. Bytes(S \cup T) = Bytes(S) \cup Bytes(T)
  BY DEF Bytes
<1>3. Bytes(S) \cap Bytes(T) = {}
  <2> SUFFICES ASSUME NEW x \in Bytes(S), x \in Bytes(T) PROVE FALSE
    OBVIOUS
  <2>1. PICK s \in S : x \in {s} \X (1..s.bytes)
    BY DEF Bytes
  <2>2. PICK t \in T : x \in {t} \X (1..t.bytes)
    BY DEF Bytes
  <2>3. x[1] = s /\ x[1] = t
    BY <2>1, <2>2
  <2> QED
    BY <2>3
<1>4. Cardinality({}) = 0
  BY FS_EmptySet
<1>5. Cardinality(Bytes(S) \cup Bytes(T))
        = Cardinality(Bytes(S)) + Cardinality(Bytes(T)) - Cardinality(Bytes(S) \cap Bytes(T))
  BY <1>1, FS_Union
<1>6. Cardinality(Bytes(S \cup T)) = Cardinality(Bytes(S)) + Cardinality(Bytes(T)) - 0
  BY <1>2, <1>3, <1>4, <1>5
<1> QED
  BY <1>1, <1>6 DEF Total

\* One row more.
LEMMA TotalAdd ==
  ASSUME NEW S, IsFiniteSet(S), NEW row, row \notin S, row.bytes \in Nat,
         \A other \in S : other.bytes \in Nat
  PROVE  Total(S \cup {row}) = Total(S) + row.bytes
<1>1. IsFiniteSet({row}) /\ S \cap {row} = {} /\ \A other \in S \cup {row} : other.bytes \in Nat
  BY FS_Singleton
<1>2. Bytes({row}) = {row} \X (1..row.bytes)
  BY DEF Bytes
<1>3. Total({row}) = row.bytes
  BY <1>2, RowBytes DEF Total
<1> QED
  BY <1>1, <1>3, TotalApart

\* One row taken out.
LEMMA TotalRemove ==
  ASSUME NEW S, IsFiniteSet(S), NEW row \in S, \A other \in S : other.bytes \in Nat
  PROVE  /\ IsFiniteSet(S \ {row}) /\ Total(S \ {row}) \in Nat /\ Total(S) \in Nat
         /\ Total(S \ {row}) = Total(S) - row.bytes
<1> DEFINE T == S \ {row}
<1>1. IsFiniteSet(T) /\ T \cup {row} = S /\ row \notin T
  BY FS_RemoveElement
<1>2. row.bytes \in Nat /\ \A other \in T : other.bytes \in Nat
  OBVIOUS
<1>3. Total(T) \in Nat /\ Total(S) \in Nat
  BY <1>1, <1>2, TotalType
<1> HIDE DEF T
<1>4. Total(T \cup {row}) = Total(T) + row.bytes
  BY <1>1, <1>2, TotalAdd
<1>5. Total(S) = Total(T) + row.bytes
  BY <1>1, <1>4
<1> QED
  BY <1>1, <1>2, <1>3, <1>5 DEF T

\* A body never takes more than was reserved for it.
LEMMA BodyFits ==
  ASSUME NEW sizes \in [1..Chunks -> ChunkSizes]
  PROVE  /\ IsFiniteSet(Body(sizes)) /\ Body(sizes) \subseteq ChunkType
         /\ Total(Body(sizes)) \in 0..(Chunks * WorstChunk)
<1> DEFINE B == Body(sizes)
           f == [i \in 1..Chunks |-> [seq |-> i, bytes |-> sizes[i]]]
<1>1. Chunks \in Nat /\ WorstChunk \in Nat /\ ChunkSizes \subseteq 1..WorstChunk
  BY SpoolAssumption
<1>2. B \subseteq ChunkType
  BY DEF Body, ChunkType
<1>3. IsFiniteSet(1..Chunks) /\ Cardinality(1..Chunks) = Chunks
  BY <1>1, FS_Interval
<1>4. f \in Surjection(1..Chunks, B)
  BY DEF Surjection, Body
<1>5. IsFiniteSet(B) /\ Cardinality(B) <= Chunks
  BY <1>3, <1>4, FS_Surjection
<1>6. \A row \in B : row.bytes \in 1..WorstChunk
  BY <1>1, <1>2 DEF ChunkType
<1>7. Total(B) \in Nat
  BY <1>5, <1>6, TotalType
<1>8. IsFiniteSet(1..WorstChunk) /\ Cardinality(1..WorstChunk) = WorstChunk
  BY <1>1, FS_Interval
<1> HIDE DEF B, f
<1>9. /\ IsFiniteSet(B \X (1..WorstChunk))
      /\ Cardinality(B \X (1..WorstChunk)) = Cardinality(B) * WorstChunk
  BY <1>5, <1>8, FS_Product
<1>10. Bytes(B) \subseteq B \X (1..WorstChunk)
  BY <1>1, <1>6 DEF Bytes
<1>11. Total(B) <= Cardinality(B) * WorstChunk
  BY <1>9, <1>10, FS_Subset DEF Total
<1>12. Cardinality(B) \in Nat
  BY <1>5, FS_CardinalityType
<1>13. Cardinality(B) * WorstChunk <= Chunks * WorstChunk
  BY <1>1, <1>5, <1>12
<1>14. Total(B) <= Chunks * WorstChunk /\ Chunks * WorstChunk \in Nat
  BY <1>1, <1>7, <1>11, <1>12, <1>13
<1> QED
  BY <1>2, <1>5, <1>7, <1>14 DEF B

\* What the counter needs of one request: its spool is charged with the stored
\* chunks, which are numbered as they were stored; without a spool the row is
\* empty; only bound or given up spools are cleaned, only uploading ones leased.
RowCounted(r) ==
    /\ stored[r] \subseteq ChunkType /\ spool[r].cipher \in Nat
    /\ spool[r].cipher = IF spool[r].state = "none" \/ spool[r].cleaned THEN 0
                         ELSE Overhead + Total(stored[r])
    /\ \A chunk \in stored[r] : chunk.seq <= spool[r].count
    /\ spool[r].state = "none" => spool[r] = NoSpool
    /\ spool[r].cleaned => spool[r].state \in {"bound", "gap"}
    /\ spool[r].owner # Nobody => spool[r].state = "uploading"

WritersOK == writer \in [Requests -> WriterType]

Worst == Overhead + Chunks * WorstChunk
ReservationType == [req : Requests, id : Nat, bytes : Nat, live : BOOLEAN]

\* A reservation belongs to a try that has begun; the one of the current try
\* is whole until it is captured.
HeldRow(row) ==
    /\ row.id <= writer[row.req].tries
    /\ row.id = writer[row.req].tries =>
          writer[row.req].pc \in {"capture", "release", "done"}
    /\ row.id = writer[row.req].tries /\ writer[row.req].pc = "capture" =>
          row.bytes = Worst

\* A reservation is identified by its request and its try.
ReservationsAreHeld ==
    /\ reserved \subseteq ReservationType /\ IsFiniteSet(reserved)
    /\ \A row, other \in reserved :
          row.req = other.req /\ row.id = other.id => row = other
    /\ \A row \in reserved : HeldRow(row)

CounterHolds == budget \in Nat /\ budget = Total(Spools) + Total(reserved)

\* The inductive invariant of the counter.
BInv == /\ IInv /\ \A r \in Requests : RowCounted(r)
        /\ WritersOK /\ ReservationsAreHeld /\ CounterHolds

\* One spool's charge changes the sum by as much.
LEMMA OneSpool ==
  ASSUME NEW r \in Requests, \A q \in Requests : spool[q].cipher \in Nat,
         \A q \in Requests : spool'[q].cipher \in Nat,
         \A q \in Requests \ {r} : spool'[q].cipher = spool[q].cipher
  PROVE  /\ Total(Spools) \in Nat /\ Total(Spools)' \in Nat
         /\ spool[r].cipher <= Total(Spools)
         /\ Total(Spools)' = Total(Spools) - spool[r].cipher + spool'[r].cipher
<1> DEFINE Others == {[req |-> q, bytes |-> spool[q].cipher] : q \in Requests \ {r}}
           f == [q \in Requests \ {r} |-> [req |-> q, bytes |-> spool[q].cipher]]
           old == [req |-> r, bytes |-> spool[r].cipher]
           new == [req |-> r, bytes |-> spool'[r].cipher]
           Spools1 == {[req |-> q, bytes |-> spool'[q].cipher] : q \in Requests}
<1>1. IsFiniteSet(Requests \ {r})
  BY SpoolAssumption, FS_RemoveElement
<1>2. f \in Surjection(Requests \ {r}, Others)
  BY DEF Surjection
<1>3. IsFiniteSet(Others)
  BY <1>1, <1>2, FS_Surjection
<1>4. \A row \in Others : row.bytes \in Nat /\ row.req # r
  OBVIOUS
<1>5. Spools = Others \cup {old}
  BY DEF Spools
<1>6. Spools1 = Others \cup {new}
  OBVIOUS
<1>7. Total(Spools)' = Total(Spools1)
  BY DEF Total, Bytes, Spools
<1>8. /\ old.bytes = spool[r].cipher /\ old.req = r /\ new.bytes = spool'[r].cipher /\ new.req = r
      /\ spool[r].cipher \in Nat /\ spool'[r].cipher \in Nat
  OBVIOUS
<1> HIDE DEF Others, old, new, Spools1
<1>9. old \notin Others /\ new \notin Others
  BY <1>4, <1>8
<1>10. Total(Others) \in Nat
  BY <1>3, <1>4, TotalType
<1>11. Total(Others \cup {old}) = Total(Others) + old.bytes
  BY <1>3, <1>4, <1>8, <1>9, TotalAdd
<1>12. Total(Others \cup {new}) = Total(Others) + new.bytes
  BY <1>3, <1>4, <1>8, <1>9, TotalAdd
<1>13. Total(Spools) = Total(Others) + spool[r].cipher
  BY <1>5, <1>8, <1>11
<1>14. Total(Spools)' = Total(Others) + spool'[r].cipher
  BY <1>6, <1>7, <1>8, <1>12
<1> QED
  BY <1>8, <1>10, <1>13, <1>14

\* The reservations are finitely many numbers.
LEMMA ReservedTotal ==
  ASSUME ReservationsAreHeld
  PROVE  /\ Total(reserved) \in Nat /\ IsFiniteSet(reserved)
         /\ \A row \in reserved : row.bytes \in Nat /\ row \in ReservationType
<1>1. /\ IsFiniteSet(reserved)
      /\ \A row \in reserved : row.bytes \in Nat /\ row \in ReservationType
  BY DEF ReservationsAreHeld, ReservationType
<1> QED
  BY <1>1, TotalType

\* A row that keeps its charge and its chunks stays counted.
LEMMA RowStays ==
  ASSUME NEW r \in Requests, RowCounted(r), spool'[r] = spool[r], stored'[r] = stored[r]
  PROVE  RowCounted(r)'
BY DEF RowCounted, Total, Bytes

\* The counter, the charges and the reservations move together.
LEMMA Balance ==
  ASSUME NEW b \in Nat, NEW b1 \in Int, NEW t \in Nat, NEW t1 \in Nat, NEW c \in Nat,
         NEW c1 \in Nat, NEW s \in Nat, NEW s1 \in Nat,
         b = t + s, t1 = t - c + c1, b1 - s1 = b - s + c1 - c
  PROVE  b1 = t1 + s1 /\ b1 \in Nat
OBVIOUS

\* A step about one request: its row is counted again, and the counter moves
\* as its charge and the reservations do.
LEMMA Counts ==
  ASSUME BInv, IInv', NEW r \in Requests,
         \A q \in Requests \ {r} : spool'[q] = spool[q] /\ stored'[q] = stored[q],
         RowCounted(r)', WritersOK', ReservationsAreHeld', budget' \in Int,
         budget' - Total(reserved)'
           = budget - Total(reserved) + spool'[r].cipher - spool[r].cipher
  PROVE  BInv'
<1>1. \A q \in Requests : RowCounted(q)'
  BY RowStays DEF BInv
<1>2. /\ \A q \in Requests : spool[q].cipher \in Nat /\ spool'[q].cipher \in Nat
      /\ \A q \in Requests \ {r} : spool'[q].cipher = spool[q].cipher
  BY <1>1 DEF BInv, RowCounted
<1> DEFINE T == Total(Spools)
           T1 == Total(Spools)'
           R == Total(reserved)
           R1 == Total(reserved)'
           c == spool[r].cipher
           c1 == spool'[r].cipher
<1>3. T \in Nat /\ T1 \in Nat /\ T1 = T - c + c1 /\ c \in Nat /\ c1 \in Nat
  BY <1>2, OneSpool
<1>4. R \in Nat
  BY ReservedTotal DEF BInv
<1>5. R1 \in Nat
  <2>1. IsFiniteSet(reserved') /\ \A row \in reserved' : row.bytes \in Nat
    BY DEF ReservationsAreHeld, ReservationType
  <2>2. Total(reserved') \in Nat
    BY <2>1, TotalType
  <2> QED
    BY <2>2 DEF Total, Bytes
<1>6. budget = T + R /\ budget \in Nat /\ budget' - R1 = budget - R + c1 - c
  BY DEF BInv, CounterHolds
<1> HIDE DEF T, T1, R, R1, c, c1
<1>7. budget' = T1 + R1 /\ budget' \in Nat
  <2> DEFINE b1 == budget'
  <2>1. b1 \in Int /\ b1 - R1 = budget - R + c1 - c
    BY <1>6
  <2> HIDE DEF b1
  <2>2. b1 = T1 + R1 /\ b1 \in Nat
    BY <1>3, <1>4, <1>5, <1>6, <2>1, Balance
  <2> QED
    BY <2>2 DEF b1
<1>8. CounterHolds'
  BY <1>7 DEF CounterHolds, T1, R1
<1> QED
  BY <1>1, <1>8 DEF BInv

\* A step that charges nothing and moves no chunk.
Quiet(r) ==
    /\ stored'[r] = stored[r] /\ spool'[r].cipher = spool[r].cipher
    /\ spool'[r].count = spool[r].count /\ spool'[r].cleaned = spool[r].cleaned
    /\ \/ spool'[r] = spool[r]
       \/ spool[r].state # "none" /\ spool'[r].state # "none"
    /\ spool'[r].state # spool[r].state => ~spool[r].cleaned
    /\ spool'[r].owner # Nobody => spool'[r].state = "uploading"

\* Such a row stays counted.
LEMMA RowQuiet ==
  ASSUME NEW r \in Requests, RowCounted(r), Quiet(r) PROVE RowCounted(r)'
<1>1. Total(stored'[r]) = Total(stored[r]) /\ Total(stored[r])' = Total(stored'[r])
  BY DEF Quiet, Total, Bytes
<1>2. CASE spool'[r] = spool[r]
  BY <1>2, RowStays DEF Quiet
<1>3. CASE spool[r].state # "none" /\ spool'[r].state # "none"
  <2>1. /\ stored'[r] \subseteq ChunkType /\ spool'[r].cipher \in Nat
        /\ \A chunk \in stored'[r] : chunk.seq <= spool'[r].count
        /\ spool'[r].owner # Nobody => spool'[r].state = "uploading"
    BY DEF Quiet, RowCounted
  <2>2. spool'[r].cipher = IF spool'[r].cleaned THEN 0 ELSE Overhead + Total(stored'[r])
    BY <1>1, <1>3 DEF Quiet, RowCounted
  <2>3. spool'[r].cleaned => spool'[r].state \in {"bound", "gap"}
    BY DEF Quiet, RowCounted
  <2> QED
    BY <1>1, <1>3, <2>1, <2>2, <2>3 DEF RowCounted
<1> QED
  BY <1>2, <1>3 DEF Quiet

\* A step that is quiet about every request.
LEMMA Uncounted ==
  ASSUME BInv, IInv', \A r \in Requests : Quiet(r), WritersOK', ReservationsAreHeld',
         UNCHANGED <<budget, reserved>>
  PROVE  BInv'
<1>1. \A q \in Requests : RowCounted(q)'
  BY RowQuiet DEF BInv
<1>2. \A q \in Requests : spool'[q].cipher = spool[q].cipher
  BY DEF Quiet
<1>3. Spools' = Spools
  BY <1>2 DEF Spools
<1>4. CounterHolds'
  BY <1>3 DEF BInv, CounterHolds, Total, Bytes
<1> QED
  BY <1>1, <1>4 DEF BInv

\* Where a writer may go while its reservation stays.
Goes(r) ==
    /\ writer'[r].tries = writer[r].tries
    /\ \/ writer'[r].pc \in {writer[r].pc, "done"}
       \/ writer[r].pc \notin {"capture", "release", "done"}
       \/ writer[r].pc = "capture" /\ writer'[r].pc = "release"

\* Reservations are held by writers that go on like that.
LEMMA HeldGo ==
  ASSUME BInv, \A r \in Requests : Goes(r) PROVE \A row \in reserved : HeldRow(row)'
<1> SUFFICES ASSUME NEW row \in reserved PROVE HeldRow(row)'
  OBVIOUS
<1>1. HeldRow(row) /\ row.req \in Requests
  BY DEF BInv, ReservationsAreHeld, ReservationType
<1>2. Goes(row.req)
  BY <1>1
<1> QED
  BY <1>1, <1>2 DEF Goes, HeldRow, Worst

\* The same when no reservation comes or goes.
LEMMA HeldStay ==
  ASSUME BInv, UNCHANGED reserved, \A r \in Requests : Goes(r) PROVE ReservationsAreHeld'
<1>1. /\ reserved \subseteq ReservationType /\ IsFiniteSet(reserved)
      /\ \A row, other \in reserved : row.req = other.req /\ row.id = other.id => row = other
  BY DEF BInv, ReservationsAreHeld
<1> QED
  BY <1>1, HeldGo DEF ReservationsAreHeld, ReservationType

\* A row that does not change is quiet.
LEMMA QuietSame ==
  ASSUME NEW r \in Requests, RowCounted(r), spool'[r] = spool[r], stored'[r] = stored[r]
  PROVE  Quiet(r)
BY DEF Quiet, RowCounted

\* A writer goes to another place in its program.
LEMMA WriterGoes ==
  ASSUME BInv, NEW r \in Requests,
         NEW pc \in {"begin", "append", "fence", "check", "reserve", "capture", "release",
                     "done", "collect"},
         WriterTo(r, pc)
  PROVE  /\ WritersOK' /\ writer'[r].pc = pc /\ writer'[r].tries = writer[r].tries
         /\ \A q \in Requests \ {r} : writer'[q] = writer[q]
<1>1. writer \in [Requests -> WriterType]
  BY DEF BInv, WritersOK
<1>2. writer' = [writer EXCEPT ![r].pc = pc]
  BY DEF WriterTo
<1> QED
  BY <1>1, <1>2 DEF WritersOK, WriterType

\* A step of one writer that charges nothing.
LEMMA QuietStep ==
  ASSUME BInv, IInv', NEW r \in Requests, Quiet(r),
         \A q \in Requests \ {r} : spool'[q] = spool[q],
         UNCHANGED <<stored, budget, reserved>>,
         WritersOK', Goes(r), \A q \in Requests \ {r} : writer'[q] = writer[q]
  PROVE  BInv'
<1>1. \A q \in Requests : Quiet(q)
  <2> SUFFICES ASSUME NEW q \in Requests, q # r PROVE Quiet(q)
    OBVIOUS
  <2>1. RowCounted(q) /\ spool'[q] = spool[q] /\ stored'[q] = stored[q]
    BY DEF BInv
  <2> QED
    BY <2>1, QuietSame
<1>2. \A q \in Requests : Goes(q)
  BY DEF Goes
<1>3. ReservationsAreHeld'
  BY <1>2, HeldStay
<1> QED
  BY <1>1, <1>3, Uncounted

\* A step that leaves the writers, the chunks and the reservations alone.
LEMMA QuietSpool ==
  ASSUME BInv, IInv', NEW r \in Requests, Quiet(r),
         \A q \in Requests \ {r} : spool'[q] = spool[q],
         UNCHANGED <<stored, budget, reserved, writer>>
  PROVE  BInv'
<1>1. WritersOK' /\ Goes(r) /\ \A q \in Requests \ {r} : writer'[q] = writer[q]
  BY DEF BInv, WritersOK, Goes
<1> QED
  BY <1>1, QuietStep

\* A step that touches none of what is counted.
LEMMA QuietElsewhere ==
  ASSUME BInv, IInv', UNCHANGED <<spool, stored, budget, reserved>>, WritersOK',
         \A r \in Requests : Goes(r)
  PROVE  BInv'
<1>1. \A q \in Requests : Quiet(q)
  BY QuietSame DEF BInv
<1>2. ReservationsAreHeld'
  BY HeldStay
<1> QED
  BY <1>1, <1>2, Uncounted

\* A row that leaves one state for another, not cleaned, is quiet.
LEMMA QuietMove ==
  ASSUME BInv, NEW r \in Requests, UNCHANGED stored,
         spool'[r].cipher = spool[r].cipher, spool'[r].count = spool[r].count,
         spool'[r].cleaned = spool[r].cleaned,
         spool[r].state \in {"capturing", "pending", "uploading"}, spool'[r].state # "none",
         spool'[r].owner # Nobody => spool'[r].state = "uploading"
  PROVE  Quiet(r)
<1>1. RowCounted(r)
  BY DEF BInv
<1>2. spool[r].cleaned => spool[r].state \in {"bound", "gap"}
  BY <1>1 DEF RowCounted
<1> QED
  BY <1>1, <1>2 DEF Quiet, RowCounted

\* Sealing a spool.
LEMMA BSeal ==
  ASSUME BInv, IInv', NEW r \in Requests, seal_response_archive_spool(r) PROVE BInv'
<1>1. IInv /\ RowCounted(r) /\ UNCHANGED <<stored, budget, reserved>> /\ writer[r].pc = "append"
  BY DEF BInv, seal_response_archive_spool
<1>2. UNCHANGED spool \/ (spool[r].state = "capturing"
                           /\ spool' = [spool EXCEPT ![r].state = "pending"])
  BY DEF seal_response_archive_spool, Commits
<1>3. \E pc \in {"done", "fence"} : WriterTo(r, pc)
  BY Zenon DEF seal_response_archive_spool, Commits
<1>4. WritersOK' /\ Goes(r) /\ \A q \in Requests \ {r} : writer'[q] = writer[q]
  BY <1>1, <1>3, WriterGoes DEF Goes
<1>5. Quiet(r) /\ \A q \in Requests \ {r} : spool'[q] = spool[q]
  <2>1. CASE UNCHANGED spool
    BY <1>1, <2>1, QuietSame
  <2>2. CASE spool[r].state = "capturing" /\ spool' = [spool EXCEPT ![r].state = "pending"]
    <3>1. /\ spool'[r].state = "pending" /\ spool'[r].cipher = spool[r].cipher
          /\ spool'[r].count = spool[r].count /\ spool'[r].cleaned = spool[r].cleaned
          /\ spool'[r].owner = spool[r].owner /\ \A q \in Requests \ {r} : spool'[q] = spool[q]
      BY <1>1, <2>2, RowFacts DEF SpoolRow
    <3>2. spool[r].owner = Nobody
      BY <1>1, <2>2 DEF RowCounted
    <3> QED
      BY <1>1, <2>2, <3>1, <3>2, QuietMove
  <2> QED
    BY <1>2, <2>1, <2>2
<1> QED
  BY <1>1, <1>4, <1>5, QuietStep

\* Giving a capture up.
LEMMA BFence ==
  ASSUME BInv, IInv', NEW r \in Requests, fail_response_archive_spool(r) PROVE BInv'
<1>1. IInv /\ RowCounted(r) /\ UNCHANGED <<stored, budget, reserved>> /\ writer[r].pc = "fence"
  BY DEF BInv, fail_response_archive_spool
<1>2. UNCHANGED spool \/ (spool[r].state = "capturing" /\
         spool' = [spool EXCEPT ![r] = [Unleased(@) EXCEPT !.state = "gap", !.expired = TRUE]])
  BY Zenon DEF fail_response_archive_spool, Commits
<1>3. WriterTo(r, "done")
  BY Zenon DEF fail_response_archive_spool, Commits
<1>4. WritersOK' /\ Goes(r) /\ \A q \in Requests \ {r} : writer'[q] = writer[q]
  BY <1>1, <1>3, WriterGoes DEF Goes
<1>5. Quiet(r) /\ \A q \in Requests \ {r} : spool'[q] = spool[q]
  <2>1. CASE UNCHANGED spool
    BY <1>1, <2>1, QuietSame
  <2>2. CASE spool[r].state = "capturing" /\
          spool' = [spool EXCEPT ![r] = [Unleased(@) EXCEPT !.state = "gap", !.expired = TRUE]]
    <3>1. /\ spool'[r].state = "gap" /\ spool'[r].cipher = spool[r].cipher
          /\ spool'[r].count = spool[r].count /\ spool'[r].cleaned = spool[r].cleaned
          /\ spool'[r].owner = Nobody /\ \A q \in Requests \ {r} : spool'[q] = spool[q]
      BY <1>1, <2>2, RowFacts DEF SpoolRow, Unleased
    <3> QED
      BY <1>1, <2>2, <3>1, QuietMove
  <2> QED
    BY <1>2, <2>1, <2>2
<1> QED
  BY <1>1, <1>4, <1>5, QuietStep

\* The steps of a writer that touch nothing but itself.
LEMMA BWriter ==
  ASSUME BInv, IInv', NEW r \in Requests,
         WriterInterrupted(r) \/ deferred_archive_is_captured(r) \/ seal(r) \/ abandon(r)
  PROVE  BInv'
<1>1. UNCHANGED <<spool, stored, budget, reserved>>
  BY DEF WriterInterrupted, deferred_archive_is_captured, seal, abandon
<1>2. WritersOK' /\ Goes(r) /\ \A q \in Requests \ {r} : writer'[q] = writer[q]
  <2>1. CASE WriterInterrupted(r)
    BY <2>1, WriterGoes DEF WriterInterrupted, Goes
  <2>2. CASE deferred_archive_is_captured(r)
    BY <2>2, WriterGoes DEF deferred_archive_is_captured, Goes
  <2>3. CASE seal(r) \/ abandon(r)
    <3>1. writer \in [Requests -> WriterType]
      BY DEF BInv, WritersOK
    <3>2. \E h \in {"yes", "gone"} : writer' = [writer EXCEPT ![r].handed = h]
      BY <2>3 DEF seal, abandon
    <3> QED
      BY <3>1, <3>2 DEF WritersOK, WriterType, Goes
  <2> QED
    BY <2>1, <2>2, <2>3
<1>3. \A q \in Requests : Goes(q)
  BY <1>2 DEF Goes
<1> QED
  BY <1>1, <1>2, <1>3, QuietElsewhere

\* The request ends, the gateway or a worker dies, a chunk is read.
LEMMA BElsewhere ==
  ASSUME BInv, IInv',
         \/ \E r \in Requests : FinishRequest(r)
         \/ \E w \in Workers : WorkerDies(w) \/ load_response_archive_spool_batch(w)
         \/ GatewayDies \/ UNCHANGED vars
  PROVE  BInv'
<1>1. UNCHANGED <<spool, stored, budget, reserved>>
  BY DEF FinishRequest, WorkerDies, load_response_archive_spool_batch, GatewayDies, vars
<1>2. WritersOK' /\ \A r \in Requests : Goes(r)
  <2>1. writer \in [Requests -> WriterType]
    BY DEF BInv, WritersOK
  <2>2. CASE GatewayDies
    <3>1. writer' = [r \in Requests |-> [writer[r] EXCEPT !.pc = "done", !.handed = "gone"]]
      BY <2>2 DEF GatewayDies
    <3>2. \A r \in Requests : /\ writer'[r] \in WriterType /\ writer'[r].pc = "done"
                              /\ writer'[r].tries = writer[r].tries
      BY <2>1, <3>1 DEF WriterType
    <3>3. writer' = [r \in Requests |-> writer'[r]]
      BY <3>1
    <3> QED
      BY <3>2, <3>3 DEF WritersOK, Goes
  <2>3. CASE UNCHANGED writer
    BY <2>1, <2>3 DEF WritersOK, Goes
  <2> QED
    BY <2>2, <2>3 DEF FinishRequest, WorkerDies, load_response_archive_spool_batch, vars
<1> QED
  BY <1>1, <1>2, QuietElsewhere

\* A claim.
LEMMA BClaim == ASSUME BInv, IInv', NEW w \in Workers, claim_archive_spool_if(w) PROVE BInv'
<1>1. PICK r \in Requests :
        /\ Claimable(r)
        /\ spool' = [spool EXCEPT ![r].state = "uploading", ![r].owner = w,
                                  ![r].live = TRUE, ![r].token = spool[r].token + 1]
  BY DEF claim_archive_spool_if
<1>2. IInv /\ RowCounted(r) /\ UNCHANGED <<stored, budget, reserved, writer>>
  BY DEF BInv, claim_archive_spool_if
<1>3. /\ spool'[r].state = "uploading" /\ spool'[r].cipher = spool[r].cipher
      /\ spool'[r].count = spool[r].count /\ spool'[r].cleaned = spool[r].cleaned
      /\ \A q \in Requests \ {r} : spool'[q] = spool[q]
  BY <1>1, <1>2, RowFacts DEF SpoolRow
<1>4. spool[r].state \in {"pending", "uploading"}
  BY <1>1 DEF Claimable
<1>5. Quiet(r)
  BY <1>2, <1>3, <1>4, QuietMove
<1> QED
  BY <1>2, <1>3, <1>5, QuietSpool

\* A bind.
LEMMA BComplete ==
  ASSUME BInv, IInv', NEW task \in TaskType, Complete(task) \/ UNCHANGED <<record, spool>>,
         UNCHANGED <<stored, budget, reserved, writer>>
  PROVE  BInv'
<1> DEFINE r == task.req
<1>1. r \in Requests
  BY DEF TaskType
<1>2. IInv /\ RowCounted(r)
  BY <1>1 DEF BInv
<1>3. CASE UNCHANGED spool
  BY <1>1, <1>2, <1>3, QuietSame, QuietSpool
<1>4. CASE ~UNCHANGED spool
  <2>1. /\ spool[r].state = "uploading"
        /\ spool' = [spool EXCEPT ![r] = [Unleased(@) EXCEPT !.state = "bound"]]
    BY <1>4 DEF Complete, Completes, TaskLive
  <2> HIDE DEF r
  <2>2. /\ spool'[r].state = "bound" /\ spool'[r].cipher = spool[r].cipher
        /\ spool'[r].count = spool[r].count /\ spool'[r].cleaned = spool[r].cleaned
        /\ spool'[r].owner = Nobody /\ \A q \in Requests \ {r} : spool'[q] = spool[q]
    BY <1>1, <1>2, <2>1, RowFacts DEF SpoolRow, Unleased
  <2>3. Quiet(r)
    BY <1>1, <2>1, <2>2, QuietMove
  <2> QED
    BY <1>1, <2>2, <2>3, QuietSpool
<1> QED
  BY <1>3, <1>4

\* A worker finishes, is delayed or hands its task back.
LEMMA BWorker ==
  ASSUME BInv, IInv', NEW w \in Workers, WorkerStep(w) PROVE BInv'
<1>1. worker[w].pc # "idle" => worker[w].task \in TaskType
  BY DEF BInv, IInv, WorkersOK
<1>2. CASE complete_response_archive_spool(w)
  <2>1. UNCHANGED <<stored, budget, reserved, writer>> /\ worker[w].pc = "binding"
    BY <1>2 DEF complete_response_archive_spool
  <2>2. Complete(worker[w].task) \/ UNCHANGED <<record, spool>>
    BY <1>2, Zenon DEF complete_response_archive_spool, Commits
  <2> QED
    BY <1>1, <2>1, <2>2, BComplete
<1>3. CASE retry_response_archive_spool(w)
  <2> DEFINE r == worker[w].task.req
  <2>1. r \in Requests /\ UNCHANGED <<stored, budget, reserved, writer>>
    BY <1>1, <1>3 DEF retry_response_archive_spool, TaskType
  <2>2. IInv /\ RowCounted(r)
    BY <2>1 DEF BInv
  <2>3. \/ UNCHANGED spool
        \/ /\ spool[r].state = "uploading"
           /\ spool' = [spool EXCEPT ![r] = [Unleased(@) EXCEPT
                            !.state = "pending", !.waiting = TRUE]]
    BY <1>3, Zenon DEF retry_response_archive_spool, Commits, TaskLive
  <2>4. CASE UNCHANGED spool
    BY <2>1, <2>2, <2>4, QuietSame, QuietSpool
  <2>5. CASE /\ spool[r].state = "uploading"
             /\ spool' = [spool EXCEPT ![r] = [Unleased(@) EXCEPT
                              !.state = "pending", !.waiting = TRUE]]
    <3> HIDE DEF r
    <3>1. /\ spool'[r].state = "pending" /\ spool'[r].cipher = spool[r].cipher
          /\ spool'[r].count = spool[r].count /\ spool'[r].cleaned = spool[r].cleaned
          /\ spool'[r].owner = Nobody /\ \A q \in Requests \ {r} : spool'[q] = spool[q]
      BY <2>1, <2>2, <2>5, RowFacts DEF SpoolRow, Unleased
    <3>2. Quiet(r)
      BY <2>1, <2>5, <3>1, QuietMove
    <3> QED
      BY <2>1, <3>1, <3>2, QuietSpool
  <2> QED
    BY <2>3, <2>4, <2>5
<1> QED
  BY <1>2, <1>3, BClaim, BElsewhere DEF WorkerStep

\* The time of a spool, a lease or a retry comes.
LEMMA BClocks ==
  ASSUME BInv, IInv', NEW r \in Requests, SpoolExpires(r) \/ LeaseExpires(r) \/ RetryDue(r)
  PROVE  BInv'
<1>1. \/ spool[r].state # "none" /\ spool' = [spool EXCEPT ![r].expired = TRUE]
      \/ spool[r].live /\ spool' = [spool EXCEPT ![r].live = FALSE]
      \/ spool[r].waiting /\ spool' = [spool EXCEPT ![r].waiting = FALSE]
  BY DEF SpoolExpires, LeaseExpires, RetryDue
<1>2. UNCHANGED <<stored, budget, reserved, writer>> /\ IInv /\ RowCounted(r)
  BY DEF SpoolExpires, LeaseExpires, RetryDue, BInv
<1>3. spool[r].state # "none"
  BY <1>1, <1>2 DEF RowCounted, NoSpool
<1>4. /\ spool'[r].state = spool[r].state /\ spool'[r].cipher = spool[r].cipher
      /\ spool'[r].count = spool[r].count /\ spool'[r].cleaned = spool[r].cleaned
      /\ spool'[r].owner = spool[r].owner /\ \A q \in Requests \ {r} : spool'[q] = spool[q]
  BY <1>1, <1>2, RowFacts DEF SpoolRow
<1>5. Quiet(r)
  BY <1>2, <1>3, <1>4 DEF Quiet, RowCounted
<1> QED
  BY <1>2, <1>4, <1>5, QuietSpool

\* No rows, no bytes.
LEMMA TotalNone == Total({}) = 0
<1>1. Bytes({}) = {}
  BY DEF Bytes
<1> QED
  BY <1>1, FS_EmptySet DEF Total

\* The chunks of a request are finitely many.
LEMMA StoredTotal ==
  ASSUME NEW S, S \subseteq ChunkType
  PROVE  IsFiniteSet(S) /\ Total(S) \in Nat /\ \A row \in S : row.bytes \in Nat
<1>1. Chunks \in Nat /\ WorstChunk \in Nat /\ ChunkSizes \subseteq 1..WorstChunk
  BY SpoolAssumption
<1> DEFINE places == (1..Chunks) \X (1..WorstChunk)
           f == [p \in places |-> [seq |-> p[1], bytes |-> p[2]]]
           all == {f[p] : p \in places}
<1>2. IsFiniteSet(places)
  <2>1. IsFiniteSet(1..Chunks) /\ IsFiniteSet(1..WorstChunk)
    BY <1>1, FS_Interval
  <2> QED
    BY <2>1, FS_Product
<1>3. f \in Surjection(places, all)
  BY DEF Surjection
<1>4. IsFiniteSet(all)
  BY <1>2, <1>3, FS_Surjection
<1>5. S \subseteq all
  <2> SUFFICES ASSUME NEW row \in S PROVE row \in all
    OBVIOUS
  <2>1. /\ row.seq \in 1..Chunks /\ row.bytes \in 1..WorstChunk
        /\ row = [seq |-> row.seq, bytes |-> row.bytes]
    BY <1>1 DEF ChunkType
  <2>2. <<row.seq, row.bytes>> \in places /\ f[<<row.seq, row.bytes>>] = row
    BY <2>1
  <2> QED
    BY <2>2
<1> HIDE DEF all
<1>6. IsFiniteSet(S)
  <2>1. S \in SUBSET all
    BY <1>5
  <2> HIDE DEF f, places
  <2> QED
    BY <1>4, <2>1, FS_Subset
<1>7. \A row \in S : row.bytes \in Nat
  <2> HIDE DEF f, places
  <2>1. \A row \in S : row.bytes \in ChunkSizes
    BY DEF ChunkType
  <2>2. \A n \in ChunkSizes : n \in Nat
    BY <1>1
  <2> QED
    BY <2>1, <2>2
<1> QED
  BY <1>6, <1>7, TotalType

\* A row written anew is counted.
LEMMA Recounted ==
  ASSUME NEW r \in Requests, spool'[r].state # "none", stored'[r] \subseteq ChunkType,
         spool'[r].cipher = IF spool'[r].cleaned THEN 0 ELSE Overhead + Total(stored'[r]),
         spool'[r].cipher \in Nat,
         \A chunk \in stored'[r] : chunk.seq <= spool'[r].count,
         spool'[r].cleaned => spool'[r].state \in {"bound", "gap"},
         spool'[r].owner # Nobody => spool'[r].state = "uploading"
  PROVE  RowCounted(r)'
<1>1. Total(stored[r])' = Total(stored'[r])
  BY DEF Total, Bytes
<1> QED
  BY <1>1 DEF RowCounted

\* A step of one writer that charges its spool and the counter alike.
LEMMA Charges ==
  ASSUME BInv, IInv', NEW r \in Requests, NEW n \in Nat,
         \A q \in Requests \ {r} : spool'[q] = spool[q] /\ stored'[q] = stored[q],
         RowCounted(r)', spool'[r].cipher = spool[r].cipher + n, budget' = budget + n,
         UNCHANGED reserved, WritersOK', Goes(r),
         \A q \in Requests \ {r} : writer'[q] = writer[q]
  PROVE  BInv'
<1>1. \A q \in Requests : Goes(q)
  BY DEF Goes
<1>2. ReservationsAreHeld'
  BY <1>1, HeldStay
<1>3. Total(reserved)' = Total(reserved)
  BY DEF Total, Bytes
<1>4. Total(reserved) \in Nat /\ budget \in Nat /\ spool[r].cipher \in Nat
  BY ReservedTotal DEF BInv, CounterHolds, RowCounted
<1>5. budget' \in Int
  BY <1>4
<1>6. budget' - Total(reserved)' = budget - Total(reserved) + spool'[r].cipher - spool[r].cipher
  <2> DEFINE R == Total(reserved)
             c == spool[r].cipher
             c1 == spool'[r].cipher
             b1 == budget'
  <2>1. R \in Nat /\ c \in Nat /\ c1 = c + n /\ b1 = budget + n /\ budget \in Nat
    BY <1>4
  <2> HIDE DEF R, c, c1, b1
  <2>2. b1 - R = budget - R + c1 - c
    BY <2>1
  <2> QED
    BY <1>3, <2>2 DEF R, c, c1, b1
<1> QED
  BY <1>2, <1>5, <1>6, Counts

\* The start of a spool.
LEMMA BBegin ==
  ASSUME BInv, IInv', NEW r \in Requests, begin_response_archive_spool(r) PROVE BInv'
<1>1. IInv /\ RowCounted(r) /\ UNCHANGED <<stored, reserved>> /\ writer[r].pc = "begin"
  BY DEF BInv, begin_response_archive_spool
<1>2. \E pc \in {"append", "begin", "fence"} : WriterTo(r, pc)
  BY Zenon DEF begin_response_archive_spool, Commits
<1>3. WritersOK' /\ Goes(r) /\ \A q \in Requests \ {r} : writer'[q] = writer[q]
  BY <1>1, <1>2, WriterGoes DEF Goes
<1>4. \/ UNCHANGED <<spool, budget>>
      \/ /\ spool[r].state = "none" /\ budget' = budget + Overhead
         /\ spool' = [spool EXCEPT ![r] = [NoSpool EXCEPT
                                       !.state = "capturing", !.cipher = Overhead]]
  BY Zenon DEF begin_response_archive_spool, Commits
<1>5. CASE UNCHANGED <<spool, budget>>
  BY <1>1, <1>3, <1>5, QuietSame, QuietStep
<1>6. CASE /\ spool[r].state = "none" /\ budget' = budget + Overhead
           /\ spool' = [spool EXCEPT ![r] = [NoSpool EXCEPT
                                         !.state = "capturing", !.cipher = Overhead]]
  <2>1. /\ spool'[r].state = "capturing" /\ spool'[r].cipher = Overhead
        /\ spool'[r].count = 0 /\ ~spool'[r].cleaned /\ spool'[r].owner = Nobody
        /\ \A q \in Requests \ {r} : spool'[q] = spool[q]
    BY <1>1, <1>6, RowFacts DEF NoSpool
  <2>2. spool[r].cipher = 0 /\ spool[r].count = 0
    BY <1>1, <1>6 DEF RowCounted, NoSpool
  <2>3. stored[r] = {}
    <3> SUFFICES ASSUME NEW chunk \in stored[r] PROVE FALSE
      OBVIOUS
    <3>1. chunk.seq <= 0 /\ chunk.seq \in 1..Chunks
      BY <1>1, <2>2 DEF RowCounted, ChunkType
    <3> QED
      BY <3>1, SpoolAssumption
  <2>4. stored'[r] = {} /\ Total(stored'[r]) = 0
    BY <1>1, <2>3, TotalNone
  <2>5. RowCounted(r)'
    <3>1. /\ spool'[r].state # "none" /\ stored'[r] \subseteq ChunkType /\ spool'[r].cipher \in Nat
          /\ spool'[r].cipher = IF spool'[r].cleaned THEN 0 ELSE Overhead + Total(stored'[r])
          /\ \A chunk \in stored'[r] : chunk.seq <= spool'[r].count
      BY <2>1, <2>4 DEF Overhead
    <3> QED
      BY <2>1, <3>1, Recounted
  <2> QED
    BY <1>1, <1>3, <1>6, <2>1, <2>2, <2>5, Charges DEF Overhead
<1> QED
  BY <1>4, <1>5, <1>6

\* An append.
LEMMA BAppend ==
  ASSUME BInv, IInv', NEW r \in Requests, append_response_archive_spool_batch_with(r)
  PROVE  BInv'
<1>1. /\ IInv /\ RowCounted(r) /\ UNCHANGED reserved /\ writer[r].pc = "append"
      /\ writer \in [Requests -> WriterType]
  BY DEF BInv, WritersOK, append_response_archive_spool_batch_with
<1>2. WriterTo(r, "fence") \/ writer' = [writer EXCEPT ![r].seq = @ + 1]
  BY Zenon DEF append_response_archive_spool_batch_with, Commits
<1>3. /\ writer[r].seq < Chunks
      /\ \/ UNCHANGED <<spool, stored, budget>> /\ WriterTo(r, "fence")
         \/ spool[r].state = "capturing" /\ writer[r].seq = spool[r].count
  <2>1. Chunks \in Nat /\ writer[r].seq \in Nat
    BY <1>1, SpoolAssumption DEF WriterType
  <2>2. writer[r].seq < Chunks
    BY <2>1 DEF append_response_archive_spool_batch_with
  <2>3. \/ UNCHANGED <<spool, stored, budget>> /\ WriterTo(r, "fence")
        \/ spool[r].state = "capturing" /\ writer[r].seq = spool[r].count
    BY Zenon DEF append_response_archive_spool_batch_with, Commits
  <2> QED
    BY <2>2, <2>3
<1>4. WritersOK' /\ Goes(r) /\ \A q \in Requests \ {r} : writer'[q] = writer[q]
  <2>1. CASE WriterTo(r, "fence")
    BY <1>1, <2>1, WriterGoes DEF Goes
  <2>2. CASE writer' = [writer EXCEPT ![r].seq = @ + 1]
    <3>1. writer[r].seq + 1 \in 0..Chunks
      BY <1>1, <1>3, SpoolAssumption DEF WriterType
    <3> QED
      BY <1>1, <2>2, <3>1 DEF WritersOK, WriterType, Goes
  <2> QED
    BY <1>2, <2>1, <2>2
<1>5. CASE UNCHANGED <<spool, stored, budget>>
  BY <1>1, <1>4, <1>5, QuietSame, QuietStep
<1>6. CASE ~UNCHANGED <<spool, stored, budget>>
  <2>1. PICK n \in ChunkSizes :
          /\ spool' = [spool EXCEPT ![r].count = @ + 1, ![r].cipher = @ + n]
          /\ stored' = [stored EXCEPT ![r] =
                          @ \cup {[seq |-> spool[r].count + 1, bytes |-> n]}]
          /\ budget' = budget + n
    BY <1>6, Zenon DEF append_response_archive_spool_batch_with, Commits
  <2> DEFINE count == spool[r].count
             chunk == [seq |-> count + 1, bytes |-> n]
             rows == stored[r]
  <2>2. /\ spool[r].state = "capturing" /\ writer[r].seq = count /\ writer[r].seq < Chunks
        /\ count \in Nat /\ n \in Nat /\ Chunks \in Nat
    <3>1. \A k \in ChunkSizes : k \in Nat
      BY SpoolAssumption
    <3>2. spool[r].count \in 0..Chunks /\ Chunks \in Nat
      BY <1>1, RowFacts, SpoolAssumption DEF SpoolRow
    <3> QED
      BY <1>3, <1>6, <3>1, <3>2
  <2>3. /\ spool'[r].state = "capturing" /\ spool'[r].cipher = spool[r].cipher + n
        /\ spool'[r].count = count + 1 /\ spool'[r].cleaned = spool[r].cleaned
        /\ spool'[r].owner = spool[r].owner
        /\ \A q \in Requests \ {r} : spool'[q] = spool[q]
    BY <1>1, <2>1, <2>2, RowFacts DEF SpoolRow
  <2>4. stored'[r] = rows \cup {chunk} /\ \A q \in Requests \ {r} : stored'[q] = stored[q]
    BY <1>1, <2>1, RowFacts
  <2>5. chunk \in ChunkType /\ chunk.bytes = n /\ chunk.seq = count + 1
    BY <2>2 DEF ChunkType
  <2>6. /\ rows \subseteq ChunkType /\ \A other \in rows : other.seq <= count
        /\ spool[r].cipher = Overhead + Total(rows) /\ spool[r].cipher \in Nat
        /\ ~spool[r].cleaned /\ spool[r].owner = Nobody
    BY <1>1, <2>2 DEF RowCounted
  <2> HIDE DEF count, chunk, rows
  <2>7. chunk \notin rows
    BY <2>2, <2>5, <2>6
  <2>8. IsFiniteSet(rows) /\ Total(rows) \in Nat /\ \A row \in rows : row.bytes \in Nat
    BY <2>6, StoredTotal
  <2>9. Total(rows \cup {chunk}) = Total(rows) + n
    BY <2>2, <2>5, <2>7, <2>8, TotalAdd
  <2>10. spool'[r].cipher = Overhead + Total(stored'[r]) /\ spool'[r].cipher \in Nat
    <3> DEFINE T == Total(rows)
    <3>1. T \in Nat /\ Total(stored'[r]) = T + n /\ spool'[r].cipher = Overhead + T + n
      BY <2>3, <2>4, <2>6, <2>8, <2>9
    <3> HIDE DEF T
    <3> QED
      BY <2>2, <3>1 DEF Overhead
  <2>11. stored'[r] \subseteq ChunkType /\ \A other \in stored'[r] : other.seq <= spool'[r].count
    <3>1. \A other \in rows : other.seq \in Nat
      BY <2>6, SpoolAssumption DEF ChunkType
    <3>2. \A other \in rows : other.seq <= count + 1
      BY <2>2, <2>6, <3>1
    <3>3. chunk.seq <= count + 1
      BY <2>2, <2>5
    <3> QED
      BY <2>3, <2>4, <2>5, <2>6, <3>2, <3>3
  <2>12. RowCounted(r)'
    BY <2>3, <2>6, <2>10, <2>11, Recounted
  <2> QED
    BY <1>1, <1>4, <2>1, <2>2, <2>3, <2>4, <2>12, Charges
<1> QED
  BY <1>5, <1>6

\* A step that changes the reservations and no row.
LEMMA Rebooks ==
  ASSUME BInv, IInv', UNCHANGED <<spool, stored>>, WritersOK', ReservationsAreHeld',
         budget' \in Int, Requests # {},
         budget' - Total(reserved)' = budget - Total(reserved)
  PROVE  BInv'
<1>1. PICK r \in Requests : TRUE
  OBVIOUS
<1>2. RowCounted(r) /\ spool[r].cipher \in Nat /\ Total(reserved) \in Nat /\ budget \in Nat
  BY ReservedTotal DEF BInv, RowCounted, CounterHolds
<1>3. RowCounted(r)'
  BY <1>2, RowStays
<1>4. budget' - Total(reserved)' = budget - Total(reserved) + spool'[r].cipher - spool[r].cipher
  <2> DEFINE R == Total(reserved)
             c == spool[r].cipher
             d == budget' - Total(reserved)'
  <2>1. R \in Nat /\ c \in Nat /\ d = budget - R /\ budget \in Nat
    BY <1>2
  <2> HIDE DEF R, c, d
  <2>2. d = budget - R + c - c
    BY <2>1
  <2> QED
    BY <2>2 DEF R, c, d
<1> QED
  BY <1>3, <1>4, Counts

\* A refund leaves the others where they are.
LEMMA Refunds ==
  ASSUME BInv, IInv', UNCHANGED <<spool, stored>>, WritersOK', NEW row \in reserved,
         Refund(row), \A other \in reserved : HeldRow(other)'
  PROVE  BInv'
<1>1. reserved' = reserved \ {row} /\ budget' = budget - row.bytes
  BY DEF Refund
<1>2. /\ Total(reserved) \in Nat /\ IsFiniteSet(reserved) /\ budget \in Nat
      /\ \A other \in reserved : other.bytes \in Nat /\ other \in ReservationType
  BY ReservedTotal DEF BInv, CounterHolds
<1>3. /\ IsFiniteSet(reserved \ {row}) /\ Total(reserved \ {row}) \in Nat
      /\ Total(reserved \ {row}) = Total(reserved) - row.bytes
  BY <1>2, TotalRemove
<1>4. Total(reserved)' = Total(reserved \ {row})
  BY <1>1 DEF Total, Bytes
<1>5. ReservationsAreHeld'
  <2>1. \A one, other \in reserved : one.req = other.req /\ one.id = other.id => one = other
    BY DEF BInv, ReservationsAreHeld
  <2> QED
    BY <1>1, <1>2, <1>3, <2>1 DEF ReservationsAreHeld, ReservationType
<1>6. budget' \in Int /\ budget' - Total(reserved)' = budget - Total(reserved)
  <2> DEFINE R == Total(reserved)
             R1 == Total(reserved)'
             n == row.bytes
             b1 == budget'
  <2>1. R \in Nat /\ n \in Nat /\ R1 = R - n /\ b1 = budget - n /\ budget \in Nat
    BY <1>1, <1>2, <1>3, <1>4
  <2> HIDE DEF R, R1, n, b1
  <2>2. b1 \in Int /\ b1 - R1 = budget - R
    BY <2>1
  <2> QED
    BY <2>2 DEF R, R1, b1
<1>7. row.req \in Requests
  BY <1>2 DEF ReservationType
<1> QED
  BY <1>5, <1>6, <1>7, Rebooks

\* A reservation is written again with another amount or flag.
LEMMA Rewritten ==
  ASSUME BInv, NEW row \in reserved, NEW new \in ReservationType,
         new.req = row.req, new.id = row.id, reserved' = (reserved \ {row}) \cup {new},
         HeldRow(new)', \A other \in reserved \ {row} : HeldRow(other)'
  PROVE  /\ ReservationsAreHeld' /\ row.bytes \in Nat /\ new.bytes \in Nat
         /\ Total(reserved) \in Nat
         /\ Total(reserved)' = Total(reserved) - row.bytes + new.bytes
<1> DEFINE rest == reserved \ {row}
<1>1. /\ Total(reserved) \in Nat /\ IsFiniteSet(reserved)
      /\ \A other \in reserved : other.bytes \in Nat /\ other \in ReservationType
  BY ReservedTotal DEF BInv
<1>2. IsFiniteSet(rest) /\ Total(rest) \in Nat /\ Total(rest) = Total(reserved) - row.bytes
  BY <1>1, TotalRemove
<1>3. \A one, other \in reserved : one.req = other.req /\ one.id = other.id => one = other
  BY DEF BInv, ReservationsAreHeld
<1>4. new \notin rest /\ new.bytes \in Nat /\ \A other \in rest : other.bytes \in Nat
  BY <1>1, <1>3 DEF ReservationType
<1>5. Total(rest \cup {new}) = Total(rest) + new.bytes
  <2> HIDE DEF rest
  <2> QED
    BY <1>2, <1>4, TotalAdd
<1>6. Total(reserved)' = Total(rest \cup {new})
  BY DEF Total, Bytes
<1>7. IsFiniteSet(rest \cup {new})
  BY <1>2, FS_AddElement
<1>8. ReservationsAreHeld'
  <2>1. /\ reserved' \subseteq ReservationType /\ IsFiniteSet(reserved')
        /\ \A other \in reserved' : HeldRow(other)'
    BY <1>1, <1>7
  <2>2. ASSUME NEW one \in reserved', NEW other \in reserved', one.req = other.req,
               one.id = other.id
        PROVE  one = other
    BY <1>3, <2>2
  <2> QED
    BY <2>1, <2>2 DEF ReservationsAreHeld, ReservationType
<1> QED
  BY <1>1, <1>2, <1>4, <1>5, <1>6, <1>8

\* A writer that begins another try holds nothing yet.
LEMMA NextTry ==
  ASSUME BInv, NEW r \in Requests, TryLater(r)
  PROVE  WritersOK' /\ \A row \in reserved : HeldRow(row)'
<1>1. writer \in [Requests -> WriterType]
  BY DEF BInv, WritersOK
<1>2. writer' \in [Requests -> WriterType] /\ \A q \in Requests \ {r} : writer'[q] = writer[q]
  BY <1>1 DEF WriterType, TryLater
<1>3. writer[r].tries \in Nat /\ writer'[r].tries = writer[r].tries + 1
  BY <1>1 DEF WriterType, TryLater
<1>4. ASSUME NEW row \in reserved PROVE HeldRow(row)'
  <2>1. row.req \in Requests /\ row.id \in Nat /\ HeldRow(row)
    BY DEF BInv, ReservationsAreHeld, ReservationType
  <2>2. CASE row.req = r
    <3>1. row.id <= writer[r].tries
      BY <2>1, <2>2 DEF HeldRow
    <3>2. row.id <= writer'[r].tries /\ row.id # writer'[r].tries
      BY <1>3, <2>1, <3>1
    <3> QED
      BY <2>2, <3>2 DEF HeldRow
  <2>3. CASE row.req # r
    BY <1>2, <2>1, <2>3 DEF HeldRow, Worst
  <2> QED
    BY <2>2, <2>3
<1> QED
  BY <1>2, <1>4 DEF WritersOK

\* A release, or the end of a try without one.
LEMMA BRelease ==
  ASSUME BInv, IInv', NEW r \in Requests, release_archive_budget_reservation(r) PROVE BInv'
<1>1. TryLater(r)
  BY Zenon DEF release_archive_budget_reservation, Commits
<1>2. WritersOK' /\ \A row \in reserved : HeldRow(row)'
  BY <1>1, NextTry
<1>3. UNCHANGED <<spool, stored>>
  BY DEF release_archive_budget_reservation
<1>4. UNCHANGED <<budget, reserved>> \/ \E row \in Held(r) : Refund(row)
  BY Zenon DEF release_archive_budget_reservation, Commits
<1>5. CASE \E row \in Held(r) : Refund(row)
  <2>1. PICK row \in reserved : Refund(row)
    BY <1>5 DEF Held
  <2> QED
    BY <1>2, <1>3, <2>1, Refunds
<1>6. CASE UNCHANGED <<budget, reserved>>
  <2>1. ReservationsAreHeld'
    BY <1>2, <1>6 DEF BInv, ReservationsAreHeld, ReservationType
  <2>2. \A q \in Requests : Quiet(q)
    BY <1>3, QuietSame DEF BInv
  <2> QED
    BY <1>2, <1>6, <2>1, <2>2, Uncounted
<1> QED
  BY <1>4, <1>5, <1>6

\* The collection of at most one expired reservation before the next is taken.
LEMMA BLapsed ==
  ASSUME BInv, IInv', NEW r \in Requests, CollectsLapsed(r) PROVE BInv'
<1>1. UNCHANGED <<spool, stored>> /\ writer[r].pc = "collect"
  BY DEF CollectsLapsed
<1>2. /\ WriterTo(r, "reserve") \/ TryLater(r)
      /\ UNCHANGED <<budget, reserved>> \/ \E row \in Lapsed : Refund(row)
  BY Zenon DEF CollectsLapsed, Commits
<1>3. WritersOK' /\ \A row \in reserved : HeldRow(row)'
  <2>1. CASE WriterTo(r, "reserve")
    <3>1. WritersOK' /\ \A q \in Requests : Goes(q)
      BY <1>1, <2>1, WriterGoes DEF Goes
    <3> QED
      BY <3>1, HeldGo
  <2> QED
    BY <1>2, <2>1, NextTry
<1>4. CASE \E row \in Lapsed : Refund(row)
  <2>1. PICK row \in reserved : Refund(row)
    BY <1>4 DEF Lapsed
  <2> QED
    BY <1>1, <1>3, <2>1, Refunds
<1>5. CASE UNCHANGED <<budget, reserved>>
  <2>1. ReservationsAreHeld'
    BY <1>3, <1>5 DEF BInv, ReservationsAreHeld, ReservationType
  <2>2. \A q \in Requests : Quiet(q)
    BY <1>1, QuietSame DEF BInv
  <2> QED
    BY <1>1, <1>3, <1>5, <2>1, <2>2, Uncounted
<1> QED
  BY <1>2, <1>4, <1>5

\* The collection of an expired reservation.
LEMMA BExpiredGo == ASSUME BInv, IInv', cleanup_expired_archive_budget_reservation PROVE BInv'
<1>1. PICK row \in reserved : Refund(row)
  BY DEF cleanup_expired_archive_budget_reservation, Lapsed
<1>2. UNCHANGED <<spool, stored, writer>>
  BY DEF cleanup_expired_archive_budget_reservation
<1>3. WritersOK' /\ \A other \in reserved : HeldRow(other)'
  BY <1>2 DEF BInv, WritersOK, ReservationsAreHeld, HeldRow, Worst
<1> QED
  BY <1>1, <1>2, <1>3, Refunds

\* A reservation expires.
LEMMA BExpires == ASSUME BInv, IInv', ReservationExpires PROVE BInv'
<1>1. PICK row \in reserved : reserved' = (reserved \ {row}) \cup {[row EXCEPT !.live = FALSE]}
  BY DEF ReservationExpires
<1>2. UNCHANGED <<spool, stored, budget, writer>>
  BY DEF ReservationExpires
<1> DEFINE new == [row EXCEPT !.live = FALSE]
<1>3. row \in ReservationType
  BY DEF BInv, ReservationsAreHeld
<1>4. new \in ReservationType /\ new.req = row.req /\ new.id = row.id /\ new.bytes = row.bytes
  BY <1>3 DEF ReservationType
<1>5. WritersOK' /\ \A other \in reserved : HeldRow(other)'
  BY <1>2 DEF BInv, WritersOK, ReservationsAreHeld, HeldRow, Worst
<1>6. HeldRow(new)'
  <2>1. HeldRow(row)'
    BY <1>5
  <2> HIDE DEF new
  <2> QED
    BY <1>4, <2>1 DEF HeldRow
<1>7. reserved' = (reserved \ {row}) \cup {new}
  BY <1>1
<1> HIDE DEF new
<1>8. /\ ReservationsAreHeld' /\ row.bytes \in Nat /\ Total(reserved) \in Nat
      /\ Total(reserved)' = Total(reserved) - row.bytes + new.bytes
  BY <1>4, <1>5, <1>6, <1>7, Rewritten
<1>9. Total(reserved)' = Total(reserved)
  BY <1>4, <1>8
<1>10. budget \in Nat /\ Requests # {}
  BY <1>3 DEF BInv, CounterHolds, ReservationType
<1> QED
  BY <1>2, <1>5, <1>8, <1>9, <1>10, Rebooks

\* A reservation is taken.
LEMMA BReserve ==
  ASSUME BInv, IInv', NEW r \in Requests, reserve_buffered_archive_capacity(r) PROVE BInv'
<1>0. PICK new : new = [req |-> r, id |-> writer[r].tries, bytes |-> Worst, live |-> TRUE]
  OBVIOUS
<1>1. UNCHANGED <<spool, stored>> /\ writer[r].pc = "reserve" /\ writer \in [Requests -> WriterType]
  BY DEF BInv, WritersOK, reserve_buffered_archive_capacity
<1>2. \/ UNCHANGED <<budget, reserved>> /\ TryLater(r)
      \/ /\ budget' = budget + Worst /\ reserved' = reserved \cup {new}
         /\ WriterTo(r, "capture") \/ TryLater(r)
  BY <1>0, Zenon DEF reserve_buffered_archive_capacity, Commits, Worst
<1>3. CASE UNCHANGED <<budget, reserved>> /\ TryLater(r)
  <2>1. WritersOK' /\ \A row \in reserved : HeldRow(row)'
    BY <1>3, NextTry
  <2>2. ReservationsAreHeld'
    BY <1>3, <2>1 DEF BInv, ReservationsAreHeld, ReservationType
  <2>3. \A q \in Requests : Quiet(q)
    BY <1>1, QuietSame DEF BInv
  <2> QED
    BY <1>3, <2>1, <2>2, <2>3, Uncounted
<1>4. CASE /\ budget' = budget + Worst /\ reserved' = reserved \cup {new}
           /\ WriterTo(r, "capture") \/ TryLater(r)
  <2>1. writer[r].tries \in Nat /\ Worst \in Nat
    <3>1. Chunks \in Nat /\ WorstChunk \in Nat
      BY SpoolAssumption
    <3>2. Chunks * WorstChunk \in Nat
      BY <3>1
    <3> QED
      BY <1>1, <3>2 DEF WriterType, Worst, Overhead
  <2>2. new \in ReservationType /\ new.bytes = Worst /\ new.req = r /\ new.id = writer[r].tries
    BY <1>0, <2>1 DEF ReservationType
  <2>3. /\ Total(reserved) \in Nat /\ IsFiniteSet(reserved) /\ budget \in Nat
        /\ \A row \in reserved : row.bytes \in Nat /\ row \in ReservationType /\ HeldRow(row)
        /\ \A one, other \in reserved : one.req = other.req /\ one.id = other.id => one = other
    BY ReservedTotal DEF BInv, CounterHolds, ReservationsAreHeld
  <2>4. \A row \in reserved : row.req = r => row.id # writer[r].tries
    BY <1>1, <2>3 DEF HeldRow
  <2>5. new \notin reserved
    BY <2>2, <2>4
  <2>6. Total(reserved \cup {new}) = Total(reserved) + Worst
    BY <2>1, <2>2, <2>3, <2>5, TotalAdd
  <2>7. Total(reserved)' = Total(reserved \cup {new})
    BY <1>4 DEF Total, Bytes
  <2>8. WritersOK' /\ HeldRow(new)' /\ \A row \in reserved : HeldRow(row)'
    <3>1. CASE WriterTo(r, "capture")
      <4>1. /\ WritersOK' /\ writer'[r].pc = "capture" /\ writer'[r].tries = writer[r].tries
            /\ \A q \in Requests \ {r} : writer'[q] = writer[q]
        BY <3>1, WriterGoes
      <4>2. \A q \in Requests : Goes(q)
        BY <1>1, <4>1 DEF Goes
      <4>3. HeldRow(new)'
        BY <2>1, <2>2, <4>1 DEF HeldRow, Worst
      <4> QED
        BY <4>1, <4>2, <4>3, HeldGo
    <3>2. CASE TryLater(r)
      <4>1. writer'[r].tries = writer[r].tries + 1
        BY <1>1, <3>2 DEF WriterType, TryLater
      <4>2. HeldRow(new)'
        BY <2>1, <2>2, <4>1 DEF HeldRow
      <4> QED
        BY <3>2, <4>2, NextTry
    <3> QED
      BY <1>4, <3>1, <3>2
  <2>9. IsFiniteSet(reserved')
    BY <1>4, <2>3, FS_AddElement
  <2>10. ReservationsAreHeld'
    <3>1. \A one, other \in reserved' : one.req = other.req /\ one.id = other.id => one = other
      BY <1>4, <2>2, <2>3, <2>4
    <3>2. reserved' \subseteq ReservationType /\ \A row \in reserved' : HeldRow(row)'
      BY <1>4, <2>2, <2>3, <2>8
    <3> QED
      BY <2>9, <3>1, <3>2 DEF ReservationsAreHeld, ReservationType
  <2>11. budget' \in Int /\ budget' - Total(reserved)' = budget - Total(reserved)
    <3> DEFINE R == Total(reserved)
               R1 == Total(reserved)'
               b1 == budget'
    <3>1. R \in Nat /\ R1 = R + Worst /\ b1 = budget + Worst /\ budget \in Nat
      BY <1>4, <2>3, <2>6, <2>7
    <3> HIDE DEF R, R1, b1
    <3>2. b1 \in Int /\ b1 - R1 = budget - R
      BY <2>1, <3>1
    <3> QED
      BY <3>2 DEF R, R1, b1
  <2> QED
    BY <1>1, <2>8, <2>10, <2>11, Rebooks
<1> QED
  BY <1>2, <1>3, <1>4

\* A capture draws its spool on the reservation.
LEMMA BCapture ==
  ASSUME BInv, IInv', NEW r \in Requests, capture_deferred_archive(r) PROVE BInv'
<1>1. IInv /\ RowCounted(r) /\ UNCHANGED budget /\ writer[r].pc = "capture"
  BY DEF BInv, capture_deferred_archive
<1>2. WriterTo(r, "release")
  BY Zenon DEF capture_deferred_archive, Commits
<1>3. /\ WritersOK' /\ writer'[r].pc = "release" /\ writer'[r].tries = writer[r].tries
      /\ \A q \in Requests \ {r} : writer'[q] = writer[q]
  BY <1>2, WriterGoes
<1>4. \A q \in Requests : Goes(q)
  BY <1>1, <1>3 DEF Goes
<1>5. CASE UNCHANGED <<spool, stored, reserved>>
  BY <1>1, <1>3, <1>4, <1>5, QuietElsewhere
<1>6. CASE ~UNCHANGED <<spool, stored, reserved>>
  <2>1. PICK sizes \in [1..Chunks -> ChunkSizes], row \in Held(r) :
          /\ spool' = [spool EXCEPT ![r] = [NoSpool EXCEPT !.state = "pending",
                          !.count = Chunks, !.cipher = Overhead + Total(Body(sizes))]]
          /\ stored' = [stored EXCEPT ![r] = Body(sizes)]
          /\ reserved' = (reserved \ {row})
                 \cup {[row EXCEPT !.bytes = @ - (Overhead + Total(Body(sizes)))]}
    BY <1>6, Zenon DEF capture_deferred_archive, Commits, Body
  <2>2. spool[r].state = "none"
    BY <1>6, Zenon DEF capture_deferred_archive
  <2> DEFINE chunks == Body(sizes)
             actual == Overhead + Total(chunks)
             new == [row EXCEPT !.bytes = @ - actual]
  <2>3. chunks \subseteq ChunkType /\ Total(chunks) \in 0..(Chunks * WorstChunk)
    BY BodyFits
  <2>4. actual \in Nat /\ Worst - actual \in Nat /\ Worst \in Nat
    <3> DEFINE T == Total(chunks)
               W == Chunks * WorstChunk
    <3>1. W \in Nat
      BY SpoolAssumption
    <3>2. T \in 0..W /\ actual = Overhead + T /\ Worst = Overhead + W
      BY <2>3 DEF Worst
    <3> HIDE DEF T, W, actual
    <3> QED
      BY <3>1, <3>2 DEF Overhead
  <2>5. /\ row \in reserved /\ row.req = r /\ row.id = writer[r].tries
        /\ row \in ReservationType /\ row.bytes = Worst
    <3>1. row \in reserved /\ row.req = r /\ row.id = writer[r].tries
      BY DEF Held
    <3>2. row \in ReservationType /\ HeldRow(row)
      BY <3>1 DEF BInv, ReservationsAreHeld
    <3> QED
      BY <1>1, <3>1, <3>2 DEF HeldRow
  <2>6. /\ spool'[r].state = "pending" /\ spool'[r].cipher = actual /\ spool'[r].count = Chunks
        /\ ~spool'[r].cleaned /\ spool'[r].owner = Nobody
        /\ \A q \in Requests \ {r} : spool'[q] = spool[q]
    BY <1>1, <2>1, RowFacts DEF NoSpool
  <2>7. stored'[r] = chunks /\ \A q \in Requests \ {r} : stored'[q] = stored[q]
    BY <1>1, <2>1, RowFacts
  <2>8. reserved' = (reserved \ {row}) \cup {new}
    BY <2>1
  <2>9. actual = Overhead + Total(chunks)
    OBVIOUS
  <2> HIDE DEF chunks, actual
  <2>10. new \in ReservationType /\ new.req = r /\ new.id = row.id /\ new.bytes = Worst - actual
    BY <2>4, <2>5 DEF ReservationType
  <2> HIDE DEF new
  <2>11. HeldRow(new)'
    <3>1. writer[r].tries \in Nat
      BY DEF BInv, WritersOK, WriterType
    <3> QED
      BY <1>3, <2>5, <2>10, <3>1 DEF HeldRow
  <2>12. \A other \in reserved \ {row} : HeldRow(other)'
    BY <1>4, HeldGo
  <2>13. /\ ReservationsAreHeld' /\ Total(reserved) \in Nat
         /\ Total(reserved)' = Total(reserved) - row.bytes + new.bytes
    BY <2>5, <2>8, <2>10, <2>11, <2>12, Rewritten
  <2>14. spool[r].cipher = 0 /\ budget \in Nat
    BY <1>1, <2>2 DEF RowCounted, BInv, CounterHolds
  <2>15. budget' - Total(reserved)'
           = budget - Total(reserved) + spool'[r].cipher - spool[r].cipher
    <3> DEFINE R == Total(reserved)
               R1 == Total(reserved)'
    <3>1. R \in Nat /\ R1 = R - Worst + (Worst - actual) /\ budget' = budget
      BY <1>1, <2>5, <2>10, <2>13
    <3> HIDE DEF R, R1
    <3>2. budget - R1 = budget - R + actual - 0
      BY <2>4, <2>14, <3>1
    <3> QED
      BY <2>6, <2>14, <3>1, <3>2 DEF R, R1
  <2>16. RowCounted(r)'
    <3>1. \A chunk \in chunks : chunk.seq <= Chunks
      BY <2>3, SpoolAssumption DEF ChunkType
    <3> QED
      BY <2>3, <2>4, <2>6, <2>7, <2>9, <3>1, Recounted
  <2>17. \A q \in Requests \ {r} : spool'[q] = spool[q] /\ stored'[q] = stored[q]
    BY <2>6, <2>7
  <2>18. budget' \in Int
    BY <1>1, <2>14
  <2> QED
    BY <1>3, <2>13, <2>15, <2>16, <2>17, <2>18, Counts
<1> QED
  BY <1>5, <1>6

\* What a batch takes and what it leaves make up what was stored.
LEMMA BatchAndRest ==
  ASSUME BInv, NEW r \in Requests, NEW batch, batch \subseteq stored[r]
  PROVE  /\ Total(batch) \in Nat /\ Total(stored[r] \ batch) \in Nat
         /\ Total(stored[r]) = Total(batch) + Total(stored[r] \ batch)
<1> DEFINE rows == stored[r]
           rest == rows \ batch
<1>1. rows \subseteq ChunkType
  BY DEF BInv, RowCounted
<1>2. batch \subseteq ChunkType /\ rest \subseteq ChunkType /\ batch \cap rest = {}
      /\ batch \cup rest = rows
  BY <1>1
<1> HIDE DEF rows, rest
<1>3. /\ IsFiniteSet(batch) /\ Total(batch) \in Nat /\ \A row \in batch : row.bytes \in Nat
      /\ IsFiniteSet(rest) /\ Total(rest) \in Nat /\ \A row \in rest : row.bytes \in Nat
  BY <1>2, StoredTotal
<1>4. Total(batch \cup rest) = Total(batch) + Total(rest)
  BY <1>2, <1>3, TotalApart
<1> QED
  BY <1>2, <1>3, <1>4 DEF rows, rest

\* What a batch releases is what the charge of its spool goes down by.
LEMMA ReleasedIsCharged ==
  ASSUME BInv, NEW r \in Requests, NEW batch, batch \subseteq stored[r],
         spool[r].state # "none", ~spool[r].cleaned
  PROVE  /\ Released(r, batch) \in Nat /\ Released(r, batch) <= spool[r].cipher
         /\ spool[r].cipher - Released(r, batch) =
              IF batch = stored[r] THEN 0 ELSE Overhead + Total(stored[r] \ batch)
<1>1. spool[r].cipher = Overhead + Total(stored[r])
  BY DEF BInv, RowCounted
<1>2. /\ Total(batch) \in Nat /\ Total(stored[r] \ batch) \in Nat
      /\ Total(stored[r]) = Total(batch) + Total(stored[r] \ batch)
  BY BatchAndRest
<1> DEFINE b == Total(batch)
           t == Total(stored[r] \ batch)
           n == Released(r, batch)
           c == spool[r].cipher
<1>3. b \in Nat /\ t \in Nat /\ c = Overhead + (b + t)
  BY <1>1, <1>2
<1>4. CASE batch = stored[r]
  <2>1. n = b + Overhead
    BY <1>4 DEF Released
  <2>2. stored[r] \ batch = {}
    BY <1>4
  <2>3. t = 0
    BY <2>2, TotalNone
  <2> HIDE DEF b, t, n, c
  <2>4. n \in Nat /\ n <= c /\ c - n = 0
    BY <1>3, <2>1, <2>3 DEF Overhead
  <2> QED
    BY <1>4, <2>4 DEF n, c
<1>5. CASE batch # stored[r]
  <2>1. n = b
    <3>1. n = b + 0
      BY <1>5 DEF Released
    <3> QED
      BY <1>3, <3>1
  <2> HIDE DEF b, t, n, c
  <2>2. n \in Nat /\ n <= c /\ c - n = Overhead + t
    BY <1>3, <2>1 DEF Overhead
  <2> QED
    BY <1>5, <2>2 DEF n, c, t
<1> QED
  BY <1>4, <1>5

\* One batch of the collector.
LEMMA BCollect ==
  ASSUME BInv, IInv', NEW r \in Requests, cleanup_archive_spool_batch(r) PROVE BInv'
<1>1. /\ IInv /\ RowCounted(r) /\ UNCHANGED <<reserved, writer>>
      /\ spool[r].state # "none" /\ ~spool[r].cleaned
  BY DEF BInv, cleanup_archive_spool_batch
<1>2. PICK batch : batch \subseteq stored[r] /\
        LET released == Released(r, batch) IN
        /\ stored' = [stored EXCEPT ![r] = @ \ batch]
        /\ spool' = [spool EXCEPT ![r] = [Unleased(spool[r]) EXCEPT
                        !.state = IF spool[r].state = "bound" THEN "bound" ELSE "gap",
                        !.cleaned = batch = stored[r], !.cipher = @ - released]]
        /\ budget' = budget - released
  <2>1. PICK last \in 1..Chunks :
          LET batch == {chunk \in stored[r] : chunk.seq <= last}
              released == Released(r, batch)
          IN /\ stored' = [stored EXCEPT ![r] = @ \ batch]
             /\ spool' = [spool EXCEPT ![r] = [Unleased(spool[r]) EXCEPT
                             !.state = IF spool[r].state = "bound" THEN "bound" ELSE "gap",
                             !.cleaned = batch = stored[r], !.cipher = @ - released]]
             /\ budget' = budget - released
    BY DEF cleanup_archive_spool_batch
  <2> QED
    BY <2>1
<1>3. PICK n : n = Released(r, batch)
  OBVIOUS
<1>4. /\ n \in Nat
      /\ spool[r].cipher - n = IF batch = stored[r] THEN 0 ELSE Overhead + Total(stored[r] \ batch)
  BY <1>1, <1>2, <1>3, ReleasedIsCharged
<1>5. /\ spool'[r].state \in {"bound", "gap"} /\ spool'[r].cipher = spool[r].cipher - n
      /\ spool'[r].count = spool[r].count /\ spool'[r].cleaned = (batch = stored[r])
      /\ spool'[r].owner = Nobody /\ \A q \in Requests \ {r} : spool'[q] = spool[q]
  <2>1. spool' = [spool EXCEPT ![r] = [Unleased(spool[r]) EXCEPT
                     !.state = IF spool[r].state = "bound" THEN "bound" ELSE "gap",
                     !.cleaned = batch = stored[r], !.cipher = @ - n]]
    BY <1>2, <1>3
  <2> QED
    BY <1>1, <2>1, RowFacts DEF SpoolRow, Unleased
<1>6. /\ stored'[r] = stored[r] \ batch /\ budget' = budget - n
      /\ \A q \in Requests \ {r} : stored'[q] = stored[q]
  BY <1>1, <1>2, <1>3, RowFacts
<1>7. spool'[r].cipher = IF spool'[r].cleaned THEN 0 ELSE Overhead + Total(stored'[r])
  BY <1>4, <1>5, <1>6
<1>8. /\ Total(stored[r] \ batch) \in Nat /\ Total(reserved) \in Nat
      /\ budget \in Nat /\ spool[r].cipher \in Nat
  BY <1>1, <1>2, BatchAndRest, ReservedTotal DEF BInv, RowCounted, CounterHolds
<1>9. RowCounted(r)'
  <2>1. spool'[r].cipher \in Nat
    BY <1>6, <1>7, <1>8 DEF Overhead
  <2>2. stored'[r] \subseteq ChunkType /\ \A chunk \in stored'[r] : chunk.seq <= spool'[r].count
    BY <1>1, <1>5, <1>6 DEF RowCounted
  <2> QED
    BY <1>5, <1>7, <2>1, <2>2, Recounted
<1>10. WritersOK' /\ ReservationsAreHeld'
  <2>1. \A q \in Requests : Goes(q)
    BY <1>1 DEF Goes
  <2> QED
    BY <1>1, <2>1, HeldStay DEF BInv, WritersOK
<1>11. budget' - Total(reserved)'
         = budget - Total(reserved) + spool'[r].cipher - spool[r].cipher
  <2> DEFINE R == Total(reserved)
             c == spool[r].cipher
             c1 == spool'[r].cipher
             b1 == budget'
  <2>1. Total(reserved)' = R
    BY <1>1 DEF Total, Bytes
  <2>2. R \in Nat /\ c \in Nat /\ c1 = c - n /\ b1 = budget - n /\ budget \in Nat
    BY <1>5, <1>6, <1>8
  <2> HIDE DEF R, c, c1, b1
  <2>3. b1 - R = budget - R + c1 - c
    BY <1>4, <2>2
  <2> QED
    BY <2>1, <2>3 DEF R, c, c1, b1
<1>12. /\ \A q \in Requests \ {r} : spool'[q] = spool[q] /\ stored'[q] = stored[q]
       /\ budget' \in Int
  BY <1>4, <1>5, <1>6, <1>8
<1> QED
  BY <1>9, <1>10, <1>11, <1>12, Counts

\* The counter is right at first.
LEMMA BInit == Init => BInv
<1> SUFFICES ASSUME Init PROVE BInv
  OBVIOUS
<1>1. /\ \A r \in Requests : spool[r] = NoSpool /\ stored[r] = {}
      /\ budget = 0 /\ reserved = {}
  BY DEF Init
<1>2. ASSUME NEW r \in Requests PROVE RowCounted(r)
  <2>1. /\ NoSpool.state = "none" /\ NoSpool.cipher = 0 /\ ~NoSpool.cleaned
        /\ NoSpool.owner = Nobody
    BY DEF NoSpool
  <2> QED
    BY <1>1, <2>1 DEF RowCounted
<1>3. WritersOK
  <2>1. PICK streamed \in [Requests -> BOOLEAN] : writer = [r \in Requests |->
          [streamed |-> streamed[r], pc |-> IF streamed[r] THEN "begin" ELSE "check",
           handed |-> "no", seq |-> 0, tries |-> 0]]
    BY DEF Init
  <2> QED
    BY <2>1, SpoolAssumption DEF WritersOK, WriterType
<1>4. ReservationsAreHeld
  BY <1>1, FS_EmptySet DEF ReservationsAreHeld
<1>5. Total(Spools) = 0
  <2>1. Bytes(Spools) = {}
    <3> SUFFICES ASSUME NEW row \in Spools PROVE {row} \X (1..row.bytes) = {}
      BY DEF Bytes
    <3>1. row.bytes = 0
      BY <1>1 DEF Spools, NoSpool
    <3> QED
      BY <3>1
  <2> QED
    BY <2>1, FS_EmptySet DEF Total
<1>6. CounterHolds
  BY <1>1, <1>5, TotalNone DEF CounterHolds
<1> QED
  BY <1>2, <1>3, <1>4, <1>6, IInit DEF BInv

\* Every step keeps the counter right.
LEMMA BNext == BInv /\ [Next]_vars => BInv'
<1> SUFFICES ASSUME BInv, [Next]_vars PROVE BInv'
  OBVIOUS
<1>1. IInv'
  BY INext DEF BInv
<1>2. ASSUME NEW r \in Requests, WriterStep(r) PROVE BInv'
  BY <1>1, <1>2, BBegin, BAppend, BSeal, BWriter, BFence, BLapsed, BReserve, BCapture,
     BRelease
     DEF WriterStep
<1>3. ASSUME NEW r \in Requests,
             \/ seal(r) \/ abandon(r) \/ FinishRequest(r) \/ cleanup_archive_spool_batch(r)
             \/ SpoolExpires(r) \/ LeaseExpires(r) \/ RetryDue(r)
      PROVE  BInv'
  BY <1>1, <1>3, BWriter, BElsewhere, BCollect, BClocks
<1>4. ASSUME NEW w \in Workers, WorkerStep(w) \/ WorkerDies(w) PROVE BInv'
  BY <1>1, <1>4, BWorker, BElsewhere
<1>5. CASE LateBind
  <2>1. PICK task \in late : Complete(task)
    BY <1>5 DEF LateBind
  <2>2. task \in TaskType /\ UNCHANGED <<stored, budget, reserved, writer>>
    BY <1>5 DEF LateBind, BInv, IInv, WorkersOK
  <2> QED
    BY <1>1, <2>1, <2>2, BComplete
<1>6. CASE GatewayDies \/ UNCHANGED vars
  BY <1>1, <1>6, BElsewhere
<1>7. CASE cleanup_expired_archive_budget_reservation \/ ReservationExpires
  BY <1>1, <1>7, BExpiredGo, BExpires
<1> QED
  BY <1>2, <1>3, <1>4, <1>5, <1>6, <1>7 DEF Next

\* The counter response_archive_spool_budget.cipher_bytes is at every moment
\* what the spools store plus what is reserved, and a spool is charged with
\* its chunks and its overhead until it is cleaned: no append, capture, refund
\* or partial collection, failed or unacknowledged, loses or doubles a byte,
\* for any number of requests, workers and chunks.  Every row keeps its shape.
THEOREM BudgetExact == Spec => []BudgetIsExact
<1>1. BInv => BudgetIsExact
  <2> SUFFICES ASSUME BInv PROVE BudgetIsExact
    OBVIOUS
  <2>1. spool \in [Requests -> SpoolType]
    <3>1. \A r \in Requests : spool[r] \in SpoolRow(spool[r].cipher) /\ spool[r].cipher \in Nat
      BY DEF BInv, IInv, RowsOK, RowCounted
    <3>2. \A r \in Requests : spool[r] \in SpoolType
      BY <3>1 DEF SpoolRow, SpoolType
    <3>3. spool = [r \in Requests |-> spool[r]]
      BY DEF BInv, IInv, RowsOK
    <3> QED
      BY <3>2, <3>3
  <2>2. stored \in [Requests -> SUBSET ChunkType]
    <3>1. \A r \in Requests : stored[r] \subseteq ChunkType
      BY DEF BInv, RowCounted
    <3>2. stored = [r \in Requests |-> stored[r]]
      BY DEF BInv, IInv, RowsOK
    <3> QED
      BY <3>1, <3>2
  <2>3. \A r \in Requests : spool[r].owner # Nobody => spool[r].state = "uploading"
    BY DEF BInv, RowCounted
  <2>4. TypeOK
    BY <2>1, <2>2, <2>3 DEF TypeOK, BInv, IInv, RowsOK, WorkersOK, WritersOK, CounterHolds,
                            ReservationsAreHeld, ReservationType
  <2> QED
    BY <2>4 DEF BudgetIsExact, BInv, CounterHolds, RowCounted
<1> QED
  BY <1>1, BInit, BNext, PTL DEF Spec

\* One spool's charge is part of the sum.
LEMMA SpoolIsPart ==
  ASSUME BInv, NEW r \in Requests PROVE spool[r].cipher <= Total(Spools) /\ Total(Spools) \in Nat
<1> DEFINE f == [q \in Requests |-> [req |-> q, bytes |-> spool[q].cipher]]
           row == [req |-> r, bytes |-> spool[r].cipher]
<1>1. \A q \in Requests : spool[q].cipher \in Nat
  BY DEF BInv, RowCounted
<1>2. f \in Surjection(Requests, Spools)
  BY DEF Surjection, Spools
<1>3. IsFiniteSet(Spools)
  BY <1>2, SpoolAssumption, FS_Surjection
<1>4. row \in Spools /\ row.bytes = spool[r].cipher /\ \A other \in Spools : other.bytes \in Nat
  BY <1>1 DEF Spools
<1> HIDE DEF f, row
<1>5. /\ Total(Spools \ {row}) \in Nat /\ Total(Spools) \in Nat
      /\ Total(Spools \ {row}) = Total(Spools) - row.bytes
  BY <1>3, <1>4, TotalRemove
<1> QED
  BY <1>1, <1>4, <1>5

\* The checks of the accounting, refund_reserved_capacity's and those of
\* cleanup_archive_spool_batch, are never what stops a release: the counter
\* covers every reservation, and whatever first chunks a batch takes, it
\* releases no more than its spool is charged with and the counter holds, and
\* the whole charge with the last chunk.
ReleasesAreCovered ==
    /\ \A row \in reserved : row.bytes <= budget
    /\ \A r \in Requests : spool[r].state # "none" /\ ~spool[r].cleaned =>
          \A batch \in SUBSET stored[r] :
             /\ Released(r, batch) <= spool[r].cipher /\ Released(r, batch) <= budget
             /\ batch = stored[r] => Released(r, batch) = spool[r].cipher

\* So no rejected refund keeps an expired reservation or a finished spool in
\* the budget: once one is due, its collection passes every accounting check.
THEOREM ReleasesNeverRefused == Spec => []ReleasesAreCovered
<1>1. BInv => ReleasesAreCovered
  <2> SUFFICES ASSUME BInv PROVE ReleasesAreCovered
    OBVIOUS
  <2>1. /\ Total(reserved) \in Nat /\ IsFiniteSet(reserved) /\ budget \in Nat
        /\ \A row \in reserved : row.bytes \in Nat
        /\ budget = Total(Spools) + Total(reserved)
    BY ReservedTotal DEF BInv, CounterHolds
  <2>2. Total(Spools) \in Nat
    <3>1. CASE Requests = {}
      <4>1. Spools = {}
        BY <3>1 DEF Spools
      <4> QED
        BY <4>1, TotalNone
    <3>2. CASE Requests # {}
      BY <3>2, SpoolIsPart
    <3> QED
      BY <3>1, <3>2
  <2>3. ASSUME NEW row \in reserved PROVE row.bytes <= budget
    <3>1. /\ Total(reserved \ {row}) \in Nat
          /\ Total(reserved \ {row}) = Total(reserved) - row.bytes
      BY <2>1, TotalRemove
    <3>2. row.bytes <= Total(reserved)
      BY <2>1, <3>1
    <3> QED
      BY <2>1, <2>2, <3>2
  <2>4. ASSUME NEW r \in Requests, spool[r].state # "none", ~spool[r].cleaned,
               NEW batch \in SUBSET stored[r]
        PROVE  /\ Released(r, batch) <= spool[r].cipher /\ Released(r, batch) <= budget
               /\ batch = stored[r] => Released(r, batch) = spool[r].cipher
    <3> DEFINE n == Released(r, batch)
               c == spool[r].cipher
               t == Total(Spools)
    <3>1. n \in Nat /\ n <= c /\ (batch = stored[r] => c - n = 0)
      BY <2>4, ReleasedIsCharged
    <3>2. c \in Nat /\ c <= t /\ t \in Nat
      BY SpoolIsPart DEF BInv, RowCounted
    <3> HIDE DEF n, c
    <3>3. c <= budget
      <4> HIDE DEF t
      <4>1. t <= budget
        BY <2>1, <2>2 DEF t
      <4> QED
        BY <2>1, <3>2, <4>1
    <3>4. n <= budget /\ (batch = stored[r] => n = c)
      BY <2>1, <3>1, <3>2, <3>3
    <3> QED
      BY <3>1, <3>4 DEF n, c
  <2> QED
    BY <2>3, <2>4 DEF ReleasesAreCovered
<1> QED
  BY <1>1, BInit, BNext, PTL DEF Spec

=============================================================================
