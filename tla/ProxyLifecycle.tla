--------------------------- MODULE ProxyLifecycle ---------------------------
(***************************************************************************)
(* The life of one proxied request, from admission to its terminal facts: *)
(* the request row with its owner lease, the row that registers financial *)
(* responsibility before anything is sent upstream                        *)
(* (pending_proxy_settlements), the operational observation, the terminal *)
(* projection outbox, the gateway that owns the request, its journal of   *)
(* terminal receipts, the orphan reaper and the closer of expired owners. *)
(*                                                                         *)
(* Requests share only the balances and windows of UsageSettlement, so    *)
(* one request is modelled.  Every database transaction starts by         *)
(* updating the request row, so each is one action; what a worker reads   *)
(* before that transaction is kept in a variable of its own.  A           *)
(* "candidate" stands for everything the contract digest covers: route,   *)
(* upstream account and model, price, ceilings and reserved amount.       *)
(***************************************************************************)
EXTENDS Integers

CONSTANTS Candidates,     \* contracts the request can be moved to
          First,          \* the contract it is admitted with
          Ceiling,        \* reserved_tokens of each contract
          LeaseLen,       \* REQUEST_OWNER_LEASE_MILLIS
          OrphanAge,      \* the reaper's 30 minute cutoff
          MaxSwitches,    \* bound: selections after the first
          MaxTime,        \* bound: the clock's horizon
          Faults          \* failures that happen: see FaultKinds

FaultKinds == {"gateway_crash", "unmarked_close"}

ASSUME ContractAssumption ==
    /\ First \in Candidates
    /\ Ceiling \in [Candidates -> Nat]
    /\ Faults \subseteq FaultKinds
ASSUME HorizonAssumption ==
    /\ LeaseLen \in Nat \ {0} /\ OrphanAge \in Nat
    /\ MaxSwitches \in Nat /\ MaxTime \in Nat

VARIABLES
    now,
    request,      \* request_records with its usage_reservations row
    pending,      \* pending_proxy_settlements
    observed,     \* proxy_operational_terminals
    outbox,       \* terminal_projection_outbox: what its row is based on
    gateway,      \* the handler's own state
    claim,        \* the journal's in-memory claim of the request
    receipt,      \* the journal's terminal receipt
    legacy,       \* a claimless finish running in the background
    attempt,      \* the upstream attempt on the wire
    executed,     \* TRUE once the provider executed some attempt
    reaper,       \* the row release_orphaned_reservations selected
    closer        \* the row close_expired_proxy_owners selected

dbVars == <<request, pending, observed, outbox>>
gatewayVars == <<gateway, claim, receipt, legacy>>
upstreamVars == <<attempt, executed>>
workerVars == <<reaper, closer>>
vars == <<now, dbVars, gatewayVars, upstreamVars, workerVars>>

-----------------------------------------------------------------------------
(* Rows and records.  Zero stands for NULL in expires and for "no row" in  *)
(* a fence.                                                                *)

Statuses == {"none", "open", "free", "charged"}
Phases == {"new", "armed", "selecting", "sending", "failed", "refused",
           "delivering", "returned", "dead"}
Evidences == {"provider", "notExecuted", "unknown"}

RequestType == [status : Statuses, candidate : Candidates, owned : BOOLEAN,
                expires : Nat, created : Nat]
PendingType == [state : {"none", "pending", "applied"}, fence : Nat,
                contract : Candidates, unknown : BOOLEAN]
ObservedType == [by : {"none", "gateway", "closer"}, fence : Nat]
OutboxRows == {"none", "unknown", "final"}
GatewayType == [phase : Phases, local : Candidates, switches : Nat,
                undelivered : BOOLEAN]
ClaimType == [fence : Nat, contract : Candidates, undelivered : BOOLEAN,
              unknown : BOOLEAN]
ReceiptType == [fence : Nat, contract : Candidates, local : Candidates,
                evidence : Evidences, memory : BOOLEAN, durable : BOOLEAN,
                publishing : BOOLEAN, observed : BOOLEAN, applied : BOOLEAN,
                reconcile : BOOLEAN, recovered : BOOLEAN, retired : BOOLEAN]

NoClaim == [fence |-> 0, contract |-> First, undelivered |-> FALSE,
            unknown |-> FALSE]
NoReceipt == [fence |-> 0, contract |-> First, local |-> First,
              evidence |-> "unknown", memory |-> FALSE, durable |-> FALSE,
              publishing |-> FALSE, observed |-> FALSE, applied |-> FALSE,
              reconcile |-> FALSE, recovered |-> FALSE, retired |-> FALSE]
Idle == [fence |-> 0, contract |-> First, step |-> "idle"]

Open == request.status = "open"
Done == request.status \in {"free", "charged"}

Init ==
    /\ now = 0
    /\ request = [status |-> "none", candidate |-> First, owned |-> FALSE,
                  expires |-> 0, created |-> 0]
    /\ pending = [state |-> "none", fence |-> 0, contract |-> First,
                  unknown |-> FALSE]
    /\ observed = [by |-> "none", fence |-> 0]
    /\ outbox = "none"
    /\ gateway = [phase |-> "new", local |-> First, switches |-> 0,
                  undelivered |-> TRUE]
    /\ claim = NoClaim
    /\ receipt = NoReceipt
    /\ legacy = "none"
    /\ attempt = "idle"
    /\ executed = FALSE
    /\ reaper = Idle
    /\ closer = Idle

-----------------------------------------------------------------------------
(* Admission and the owner lease.                                          *)

\* One commit reserves usage and inserts the request; only a positively
\* observed commit lets the handler go on.
Admit(acknowledged) ==
    /\ gateway.phase = "new" /\ now + OrphanAge < MaxTime
    /\ request' = [request EXCEPT !.status = "open", !.created = now]
    /\ gateway' = [gateway EXCEPT !.phase = IF acknowledged THEN "armed"
                                                            ELSE "returned"]
    /\ UNCHANGED <<now, pending, observed, outbox, claim, receipt, legacy,
                   upstreamVars, workerVars>>

\* write_proxy_request_owner: only the same token, or none, may be written.
Lease == [request EXCEPT !.owned = TRUE, !.expires = now + LeaseLen]

AcquireOwner ==
    /\ gateway.phase = "armed" /\ Open /\ now + LeaseLen <= MaxTime
    /\ request' = Lease
    /\ gateway' = [gateway EXCEPT !.phase = "selecting"]
    /\ UNCHANGED <<now, pending, observed, outbox, claim, receipt, legacy,
                   upstreamVars, workerVars>>

\* A refused, failed or unacknowledged acquisition ends the handler; the
\* guard is disarmed without a claim and nothing renews the lease.
AcquireFails ==
    /\ gateway.phase = "armed"
    /\ request' \in {request} \cup
                    (IF Open /\ now + LeaseLen <= MaxTime THEN {Lease} ELSE {})
    /\ gateway' = [gateway EXCEPT !.phase = "returned"]
    /\ UNCHANGED <<now, pending, observed, outbox, claim, receipt, legacy,
                   upstreamVars, workerVars>>

\* The heartbeat runs while the handler, its background finish or an
\* unresolved receipt keeps the lifecycle activity; a renewal may also fail
\* or come late, so it is never assumed to happen.  A recovered receipt
\* holds none.
HoldsActivity ==
    \/ gateway.phase \in {"selecting", "sending", "failed", "refused",
                          "delivering"}
    \/ legacy # "none"
    \/ /\ receipt.memory /\ ~receipt.recovered
       /\ ~receipt.applied /\ ~receipt.reconcile

RenewOwner ==
    /\ HoldsActivity /\ Open /\ request.owned /\ now + LeaseLen <= MaxTime
    /\ request' = Lease
    /\ UNCHANGED <<now, pending, observed, outbox, gatewayVars, upstreamVars,
                   workerVars>>

-----------------------------------------------------------------------------
(* Candidate selection, registration and dispatch.                         *)

\* switch_pending_proxy_candidate: a CAS on the assignment that resizes the
\* reservation in the same transaction.  Unacknowledged, the handler keeps
\* the old contract in memory and fails the selection.
SwitchCandidate(c, acknowledged) ==
    /\ gateway.phase \in {"selecting", "failed"}
    /\ gateway.switches < MaxSwitches
    /\ Open /\ request.candidate = gateway.local /\ c # gateway.local
    /\ request' = [request EXCEPT !.candidate = c]
    /\ gateway' = [gateway EXCEPT
                     !.phase = IF acknowledged THEN "selecting" ELSE "failed",
                     !.local = IF acknowledged THEN c ELSE @,
                     !.switches = IF acknowledged THEN @ + 1 ELSE MaxSwitches]
    /\ UNCHANGED <<now, pending, observed, outbox, claim, receipt, legacy,
                   upstreamVars, workerVars>>

\* The next candidate may carry the assignment and ceilings the request
\* already has: nothing is written.
KeepAssignment ==
    /\ gateway.phase = "failed" /\ gateway.switches < MaxSwitches
    /\ gateway' = [gateway EXCEPT !.phase = "selecting", !.switches = @ + 1]
    /\ UNCHANGED <<now, dbVars, claim, receipt, legacy, upstreamVars,
                   workerVars>>

\* claim_pending_proxy_settlement.
Registrable ==
    /\ Open /\ request.owned /\ request.expires > now
    /\ Ceiling[gateway.local] = Ceiling[request.candidate]
    /\ pending.state # "applied"

Registered ==
    [pending EXCEPT
       !.state = "pending",
       !.fence = IF pending.state = "pending"
                     /\ pending.contract = request.candidate
                 THEN @ ELSE @ + 1,
       !.contract = request.candidate]

\* prepare_dispatch: the claim is registered in the journal, starting
\* without delivery evidence, and the upstream send begins.
PrepareDispatch ==
    /\ gateway.phase = "selecting" /\ Registrable
    /\ pending' = Registered
    /\ claim' = [fence |-> pending'.fence, contract |-> pending'.contract,
                 undelivered |-> FALSE, unknown |-> FALSE]
    /\ gateway' = [gateway EXCEPT !.phase = "sending"]
    /\ attempt' = "inflight"
    /\ UNCHANGED <<now, request, observed, outbox, receipt, legacy, executed,
                   workerVars>>

\* The registration failed, or committed without its acknowledgement.
DispatchRefused ==
    /\ gateway.phase = "selecting"
    /\ pending' \in {pending} \cup (IF Registrable THEN {Registered} ELSE {})
    /\ gateway' = [gateway EXCEPT !.phase = "refused"]
    /\ UNCHANGED <<now, request, observed, outbox, claim, receipt, legacy,
                   upstreamVars, workerVars>>

\* External: the provider executes the attempt on the wire, even after the
\* handler that sent it is gone.
UpstreamExecutes ==
    /\ attempt = "inflight"
    /\ attempt' = "executed" /\ executed' = TRUE
    /\ UNCHANGED <<now, dbVars, gatewayVars, workerVars>>

\* MUTANT of AllUndelivered: the last attempt speaks for all of them.
LastUndelivered(undelivered) == undelivered

\* Uncertainty from any earlier candidate is kept.
AllUndelivered(undelivered) == gateway.undelivered /\ undelivered

RecordTransport(undelivered, phase) ==
    /\ gateway' = [gateway EXCEPT !.phase = phase,
                                  !.undelivered = AllUndelivered(undelivered)]
    /\ claim' = [claim EXCEPT !.undelivered = AllUndelivered(undelivered)]

\* A send that the transport classifies as never delivered.
SendUndelivered ==
    /\ gateway.phase = "sending" /\ attempt = "inflight"
    /\ RecordTransport(TRUE, "failed")
    /\ attempt' = "idle"
    /\ UNCHANGED <<now, dbVars, receipt, legacy, executed, workerVars>>

\* A rejection or an ambiguous transport failure: the provider may have
\* executed the attempt.
SendAmbiguous ==
    /\ gateway.phase = "sending"
    /\ RecordTransport(FALSE, "failed")
    /\ attempt' = "idle"
    /\ executed' \in {executed, TRUE}
    /\ UNCHANGED <<now, dbVars, receipt, legacy, workerVars>>

ResponseHeaders ==
    /\ gateway.phase = "sending" /\ attempt = "executed"
    /\ RecordTransport(FALSE, "delivering")
    /\ UNCHANGED <<now, dbVars, receipt, legacy, upstreamVars, workerVars>>

-----------------------------------------------------------------------------
(* Terminal receipts.  submit_with_preparation moves the claim out of the  *)
(* journal's map into the receipt.                                         *)

\* confirmed_not_executed: only provider-reported usage or a transport that
\* delivered no attempt is financial evidence.
Evidence(reported) ==
    IF reported THEN "provider"
    ELSE IF claim.fence # 0 /\ claim.undelivered THEN "notExecuted"
    ELSE "unknown"

Capture(reported, local) ==
    /\ receipt' = [NoReceipt EXCEPT !.fence = claim.fence,
                     !.contract = claim.contract, !.local = local,
                     !.evidence = Evidence(reported), !.memory = TRUE]
    /\ claim' = NoClaim
    /\ gateway' = [gateway EXCEPT !.phase = "returned"]

\* The handler's own terminal: a response with or without valid usage, or a
\* local failure while no attempt is on the wire.
SubmitTerminal(reported) ==
    /\ gateway.phase \in {"selecting", "failed", "delivering"}
    /\ reported => gateway.phase = "delivering"
    /\ Capture(reported, gateway.local)
    /\ UNCHANGED <<now, dbVars, legacy, upstreamVars, workerVars>>

\* Dropping the guard (client gone, lifecycle deadline) or failing to
\* register: with a claim the journal receives an unobserved receipt.
AbandonClaimed ==
    /\ gateway.phase \in {"selecting", "sending", "failed", "refused",
                          "delivering"}
    /\ claim.fence # 0
    /\ Capture(FALSE, claim.contract)
    /\ UNCHANGED <<now, dbVars, legacy, upstreamVars, workerVars>>

\* Without one, cancellation finishes the request in the background.
CancelClaimless ==
    /\ gateway.phase \in {"armed", "selecting", "failed", "refused"}
    /\ claim.fence = 0
    /\ legacy' = "cancelled"
    /\ gateway' = [gateway EXCEPT !.phase = "returned"]
    /\ UNCHANGED <<now, dbVars, claim, receipt, upstreamVars, workerVars>>

\* A refused first dispatch, or an error before it, has no claim to submit:
\* the handler returns and the owner lease is left to expire.
ReturnRefused ==
    /\ gateway.phase \in {"selecting", "failed", "refused"} /\ claim.fence = 0
    /\ gateway' = [gateway EXCEPT !.phase = "returned"]
    /\ UNCHANGED <<now, dbVars, claim, receipt, legacy, upstreamVars,
                   workerVars>>

\* An error of the handler that no terminal was submitted for, between
\* registration and send, during a later selection or over the response:
\* disarm marks the claim unknown.
DisarmUnknown ==
    /\ claim.fence # 0
    /\ \/ gateway.phase = "sending" /\ attempt = "inflight" /\ attempt' = "idle"
       \/ gateway.phase \in {"selecting", "failed", "delivering"} /\ UNCHANGED attempt
    /\ claim' = [claim EXCEPT !.unknown = TRUE]
    /\ gateway' = [gateway EXCEPT !.phase = "returned"]
    /\ UNCHANGED <<now, dbVars, receipt, legacy, executed, workerVars>>

\* The lifecycle deadline after the terminal was submitted no longer finds
\* the claim in the map and takes the claimless path.
DeadlineAfterSubmit ==
    /\ gateway.phase = "returned" /\ receipt.memory /\ legacy = "none"
    /\ Open
    /\ legacy' = "deadline"
    /\ UNCHANGED <<now, dbVars, gateway, claim, receipt, upstreamVars,
                   workerVars>>

-----------------------------------------------------------------------------
(* Finishing.  finish_proxy_request_inner settles the reservation, writes  *)
(* the terminal facts and enqueues their projection in one transaction.    *)

Finish(status) ==
    /\ request' = [request EXCEPT !.status = status]
    /\ outbox' = "final"

\* MUTANT of UnregisteredFinish: the registration is not rechecked.
UnregisteredFinishUnchecked(ceiling) ==
    Open /\ Ceiling[request.candidate] = ceiling

\* The guard for a finish that carries no receipt: nobody registered.
UnregisteredFinish(ceiling) ==
    Open /\ pending.state = "none" /\ Ceiling[request.candidate] = ceiling

\* The guard for a receipt: same fence and contract as the registered row,
\* and the contract recomputed from the rows as they are now.
Authority(fence, contract) ==
    /\ pending.state # "none"
    /\ pending.fence = fence /\ pending.contract = contract

CurrentContract(contract) == request.candidate = contract

ReceiptFinish ==
    /\ Authority(receipt.fence, receipt.contract)
    /\ pending.state = "pending" /\ Open
    /\ Ceiling[receipt.local] = Ceiling[receipt.contract]
    /\ CurrentContract(receipt.contract)

\* enqueue_unknown_terminal_projection_in_transaction, given the rows the
\* transaction leaves behind.
WithUnknownRow(row, observation) ==
    IF /\ row.state = "pending" /\ row.unknown /\ Open
       /\ observation.by # "none" /\ observation.fence = row.fence
       /\ outbox = "none"
    THEN "unknown"
    ELSE outbox

\* mark_pending_proxy_settlement_unknown.
MarkUnknown(fence, contract) ==
    /\ Authority(fence, contract) /\ pending.state = "pending"
    /\ pending' = [pending EXCEPT !.unknown = TRUE]
    /\ outbox' = WithUnknownRow(pending', observed)
    /\ UNCHANGED <<request, observed>>

\* MUTANT of Observe: only the annotation enqueues the provisional row.
ObserveWithoutRow(by, fence, contract) ==
    /\ Authority(fence, contract)
    /\ observed.by \in {"none", by}
    /\ observed' = IF observed.by = "none" THEN [by |-> by, fence |-> fence]
                                           ELSE observed
    /\ UNCHANGED <<request, pending, outbox>>

\* record_pending_proxy_operational_terminal by the gateway or the closer.
Observe(by, fence, contract) ==
    /\ Authority(fence, contract)
    /\ observed.by \in {"none", by}
    /\ observed' = IF observed.by = "none" THEN [by |-> by, fence |-> fence]
                                           ELSE observed
    /\ outbox' = WithUnknownRow(pending, observed')
    /\ UNCHANGED <<request, pending>>

\* finish_cancelled_proxy_request reads the reservation, the deadline keeps
\* the handler's copy; either gives up on a conflict or a failure.
LegacyFinish ==
    /\ legacy # "none"
    /\ UnregisteredFinish(IF legacy = "cancelled"
                          THEN Ceiling[request.candidate]
                          ELSE Ceiling[gateway.local])
    /\ Finish("free")
    /\ legacy' = "none"
    /\ UNCHANGED <<now, pending, observed, gateway, claim, receipt,
                   upstreamVars, workerVars>>

LegacyGivesUp ==
    /\ legacy # "none"
    /\ legacy' = "none"
    /\ UNCHANGED <<now, dbVars, gateway, claim, receipt, upstreamVars,
                   workerVars>>

-----------------------------------------------------------------------------
(* The journal's workers.                                                  *)

ObserveReceipt ==
    /\ receipt.memory /\ receipt.fence # 0 /\ ~receipt.observed
    /\ Observe("gateway", receipt.fence, receipt.contract)
    /\ receipt' = [receipt EXCEPT !.observed = TRUE]
    /\ UNCHANGED <<now, gateway, claim, legacy, upstreamVars, workerVars>>

\* attempt: settlement by evidence.  The acknowledgement may be lost; the
\* retry then finds its own receipt applied.
SettleReceipt(acknowledged) ==
    /\ receipt.memory /\ ~receipt.applied /\ receipt.fence # 0
    /\ receipt.evidence # "unknown" /\ ReceiptFinish
    /\ Finish(IF receipt.evidence = "provider" THEN "charged" ELSE "free")
    /\ pending' = [pending EXCEPT !.state = "applied"]
    /\ receipt' = [receipt EXCEPT !.applied = acknowledged,
                                  !.reconcile = FALSE]
    /\ UNCHANGED <<now, observed, gateway, claim, legacy, upstreamVars,
                   workerVars>>

ReplayReceipt ==
    /\ receipt.memory /\ ~receipt.applied /\ receipt.fence # 0
    /\ receipt.evidence # "unknown"
    /\ Authority(receipt.fence, receipt.contract)
    /\ pending.state = "applied"
    /\ receipt' = [receipt EXCEPT !.applied = TRUE, !.reconcile = FALSE]
    /\ UNCHANGED <<now, dbVars, gateway, claim, legacy, upstreamVars,
                   workerVars>>

\* MUTANT of AnnotateReceipt: parks the receipt without annotating the row.
AnnotateReceiptLocally ==
    /\ receipt.memory /\ receipt.fence # 0 /\ receipt.evidence = "unknown"
    /\ ~receipt.reconcile
    /\ receipt' = [receipt EXCEPT !.reconcile = TRUE]
    /\ UNCHANGED <<now, dbVars, gateway, claim, legacy, upstreamVars,
                   workerVars>>

\* Without evidence the attempt only annotates the registered row.
AnnotateReceipt ==
    /\ receipt.memory /\ receipt.fence # 0 /\ receipt.evidence = "unknown"
    /\ ~receipt.reconcile
    /\ MarkUnknown(receipt.fence, receipt.contract)
    /\ receipt' = [receipt EXCEPT !.reconcile = TRUE]
    /\ UNCHANGED <<now, gateway, claim, legacy, upstreamVars, workerVars>>

\* A receipt without a claim finishes as the legacy path does; it has no
\* acknowledgement to replay.
SettleClaimless(acknowledged) ==
    /\ receipt.memory /\ ~receipt.applied /\ receipt.fence = 0
    /\ UnregisteredFinish(Ceiling[receipt.local])
    /\ Finish("free")
    /\ receipt' = [receipt EXCEPT !.applied = acknowledged]
    /\ UNCHANGED <<now, pending, observed, gateway, claim, legacy,
                   upstreamVars, workerVars>>

\* Every other outcome of attempt is a conflict or an earlier finish: the
\* receipt is retained for arbitration and its activity is dropped.
Refused ==
    IF receipt.fence = 0 THEN ~UnregisteredFinish(Ceiling[receipt.local])
    ELSE IF receipt.evidence = "unknown"
    THEN ~(Authority(receipt.fence, receipt.contract)
           /\ pending.state = "pending")
    ELSE /\ ~ReceiptFinish
         /\ ~(Authority(receipt.fence, receipt.contract)
              /\ pending.state = "applied")

ReconcileReceipt ==
    /\ receipt.memory /\ ~receipt.applied /\ ~receipt.reconcile
    /\ Refused
    /\ receipt' = [receipt EXCEPT !.reconcile = TRUE]
    /\ UNCHANGED <<now, dbVars, gateway, claim, legacy, upstreamVars,
                   workerVars>>

\* start_unknown: a disarmed claim is annotated and then forgotten.
AnnotateClaim ==
    /\ claim.unknown
    /\ MarkUnknown(claim.fence, claim.contract)
    /\ claim' = NoClaim
    /\ UNCHANGED <<now, gateway, receipt, legacy, upstreamVars, workerVars>>

\* The receipt is published again whenever its content changed, which the
\* conversation's preparation may cause at any time.
StartPublication ==
    /\ receipt.memory /\ ~receipt.recovered /\ ~receipt.publishing
    /\ receipt' = [receipt EXCEPT !.publishing = TRUE]
    /\ UNCHANGED <<now, dbVars, gateway, claim, legacy, upstreamVars,
                   workerVars>>

EndPublication(stored) ==
    /\ receipt.publishing
    /\ receipt' = [receipt EXCEPT !.publishing = FALSE,
                                  !.durable = @ \/ stored]
    /\ UNCHANGED <<now, dbVars, gateway, claim, legacy, upstreamVars,
                   workerVars>>

\* MUTANT of Retirable: does not wait for a publication that is running.
RetirableWhilePublishing ==
    /\ receipt.applied
    /\ receipt.fence # 0 => receipt.observed

Retirable ==
    /\ receipt.applied /\ ~receipt.publishing
    /\ receipt.fence # 0 => receipt.observed

\* Deletes the stored receipt and forgets it; the local copy's removal may
\* fail, and recovery then publishes it again.
RetireReceipt(removed) ==
    /\ receipt.memory /\ Retirable
    /\ receipt' = [receipt EXCEPT !.memory = FALSE, !.retired = TRUE,
                                  !.durable = @ /\ ~removed]
    /\ UNCHANGED <<now, dbVars, gateway, claim, legacy, upstreamVars,
                   workerVars>>

\* A stored receipt leaves memory once it awaits reconciliation or only its
\* conversation; a recovered one leaves after its attempt, whatever came of
\* it.
EvictReceipt ==
    /\ receipt.memory /\ receipt.durable /\ ~receipt.publishing
    /\ ~receipt.recovered => /\ receipt.reconcile \/ receipt.applied
                             /\ receipt.fence # 0 => receipt.observed
    /\ receipt' = [receipt EXCEPT !.memory = FALSE]
    /\ UNCHANGED <<now, dbVars, gateway, claim, legacy, upstreamVars,
                   workerVars>>

\* recover_one: a stored receipt is loaded again, by this process or by its
\* successor, without what memory knew about it.
RecoverReceipt ==
    /\ receipt.durable /\ ~receipt.memory /\ ~receipt.publishing
    /\ receipt' = [receipt EXCEPT !.memory = TRUE, !.observed = FALSE,
                                  !.applied = FALSE, !.reconcile = FALSE,
                                  !.recovered = TRUE]
    /\ UNCHANGED <<now, dbVars, gateway, claim, legacy, upstreamVars,
                   workerVars>>

\* The process dies: the handler, the claim map, the background finish and
\* every receipt that is only in memory are gone.  A write in flight has
\* reached the store or never will.
Crash ==
    /\ "gateway_crash" \in Faults
    /\ gateway.phase \notin {"new", "dead"}
    /\ gateway' = [gateway EXCEPT !.phase = "dead"]
    /\ claim' = NoClaim
    /\ legacy' = "none"
    /\ \E stored \in BOOLEAN :
          receipt' = [receipt EXCEPT !.memory = FALSE, !.publishing = FALSE,
                        !.durable = @ \/ (receipt.publishing /\ stored)]
    /\ UNCHANGED <<now, dbVars, upstreamVars, workerVars>>

-----------------------------------------------------------------------------
(* The periodic workers.  Each selects first and acts in a later           *)
(* transaction.                                                            *)

\* MUTANT of ReaperSelect: forgets requests that never had an owner.
ReaperSelectOwned ==
    /\ reaper = Idle
    /\ Open /\ request.created + OrphanAge < now
    /\ request.expires # 0 /\ request.expires <= now
    /\ pending.state # "pending"
    /\ reaper' = [Idle EXCEPT !.contract = request.candidate,
                              !.step = "selected"]
    /\ UNCHANGED <<now, dbVars, gatewayVars, upstreamVars, closer>>

\* release_orphaned_reservations.
ReaperSelect ==
    /\ reaper = Idle
    /\ Open /\ request.created + OrphanAge < now
    /\ request.expires <= now
    /\ pending.state # "pending"
    /\ reaper' = [Idle EXCEPT !.contract = request.candidate,
                              !.step = "selected"]
    /\ UNCHANGED <<now, dbVars, gatewayVars, upstreamVars, closer>>

\* finish_orphaned_proxy_request rechecks the owner under the row lock.
ReaperFinish ==
    /\ reaper # Idle
    /\ UnregisteredFinish(Ceiling[reaper.contract])
    /\ request.expires <= now
    /\ Finish("free")
    /\ reaper' = Idle
    /\ UNCHANGED <<now, pending, observed, gatewayVars, upstreamVars, closer>>

\* A conflict, an earlier finish or the worker's death drops the row.
ReaperSkip ==
    /\ reaper # Idle
    /\ reaper' = Idle
    /\ UNCHANGED <<now, dbVars, gatewayVars, upstreamVars, closer>>

\* close_expired_proxy_owners.
CloserSelect ==
    /\ closer = Idle
    /\ Open /\ pending.state = "pending" /\ observed.by = "none"
    /\ request.expires # 0 /\ request.expires <= now
    /\ closer' = [fence |-> pending.fence, contract |-> pending.contract,
                  step |-> "selected"]
    /\ UNCHANGED <<now, dbVars, gatewayVars, upstreamVars, reaper>>

CloserObserve ==
    /\ closer.step = "selected" /\ observed.by = "none"
    /\ Observe("closer", closer.fence, closer.contract)
    /\ closer' = [closer EXCEPT !.step = "observed"]
    /\ UNCHANGED <<now, gatewayVars, upstreamVars, reaper>>

CloserMark ==
    /\ closer.step = "observed"
    /\ MarkUnknown(closer.fence, closer.contract)
    /\ closer' = Idle
    /\ UNCHANGED <<now, gatewayVars, upstreamVars, reaper>>

\* A conflict ends the closing; so may a failure, and after the first of
\* the two transactions it is only logged.
CloserStops ==
    /\ closer # Idle
    /\ closer.step = "selected" =>
          \/ ~Authority(closer.fence, closer.contract)
          \/ observed.by # "none"
    /\ closer.step = "observed" =>
          \/ ~Authority(closer.fence, closer.contract)
          \/ pending.state = "applied"
          \/ "unmarked_close" \in Faults
    /\ closer' = Idle
    /\ UNCHANGED <<now, dbVars, gatewayVars, upstreamVars, reaper>>

Tick ==
    /\ now < MaxTime
    /\ now' = now + 1
    /\ UNCHANGED <<dbVars, gatewayVars, upstreamVars, workerVars>>

-----------------------------------------------------------------------------
Arrival == \E a \in BOOLEAN : Admit(a)

HandlerStep ==
    \/ AcquireOwner \/ AcquireFails
    \/ \E c \in Candidates, a \in BOOLEAN : SwitchCandidate(c, a)
    \/ KeepAssignment \/ PrepareDispatch \/ DispatchRefused
    \/ SendUndelivered \/ SendAmbiguous \/ ResponseHeaders
    \/ \E r \in BOOLEAN : SubmitTerminal(r)
    \/ AbandonClaimed \/ CancelClaimless \/ ReturnRefused \/ DisarmUnknown

LegacyStep == LegacyFinish \/ LegacyGivesUp

SettlementStep ==
    \/ \E a \in BOOLEAN : SettleReceipt(a)
    \/ \E a \in BOOLEAN : SettleClaimless(a)
    \/ ReplayReceipt \/ AnnotateReceipt \/ ReconcileReceipt \/ AnnotateClaim

StorageStep ==
    \/ StartPublication \/ \E s \in BOOLEAN : EndPublication(s)
    \/ \E r \in BOOLEAN : RetireReceipt(r)
    \/ EvictReceipt

ReaperStep == ReaperSelect \/ ReaperFinish \/ ReaperSkip
CloserStep == CloserSelect \/ CloserObserve \/ CloserMark \/ CloserStops

LifecycleNext ==
    \/ Arrival \/ HandlerStep \/ LegacyStep \/ SettlementStep \/ StorageStep
    \/ ObserveReceipt \/ RecoverReceipt \/ DeadlineAfterSubmit \/ RenewOwner
    \/ UpstreamExecutes \/ Crash
    \/ ReaperStep \/ CloserStep \/ Tick

Spec == Init /\ [][LifecycleNext]_vars

\* A handler is bounded by the lifecycle deadline, the journal retries every
\* second, the periodic workers run for as long as the service does.  What a
\* worker may drop and start over needs strong fairness: it is not dropped
\* every time.  No fairness makes a renewal, a publication or an admission
\* happen.
Fairness ==
    /\ WF_vars(Tick) /\ WF_vars(HandlerStep) /\ WF_vars(LegacyStep)
    /\ SF_vars(SettlementStep) /\ SF_vars(ObserveReceipt)
    /\ WF_vars(RecoverReceipt)
    /\ WF_vars(ReaperStep) /\ SF_vars(ReaperFinish)
    /\ WF_vars(CloserStep)

FairSpec == Spec /\ Fairness

-----------------------------------------------------------------------------
(* Properties.                                                             *)

\* Every row, receipt and worker record keeps its shape, and fences only
\* name registrations that happened.
TypeOK ==
    /\ now \in 0..MaxTime
    /\ request \in RequestType /\ pending \in PendingType
    /\ observed \in ObservedType /\ outbox \in OutboxRows
    /\ gateway \in GatewayType /\ claim \in ClaimType
    /\ receipt \in ReceiptType
    /\ legacy \in {"none", "cancelled", "deadline"}
    /\ attempt \in {"idle", "inflight", "executed"}
    /\ executed \in BOOLEAN
    /\ {reaper, closer} \subseteq
          [fence : Nat, contract : Candidates,
           step : {"idle", "selected", "observed"}]
    /\ {claim.fence, receipt.fence, observed.fence, closer.fence}
          \subseteq 0..pending.fence

\* The path implements what RequestOutcome promises, with the status of the
\* request row as the outcome: whatever crashes, is lost, repeated or races,
\* a request ends once, free only if nothing was executed, charged only if
\* something was (finish_proxy_request_inner and its callers).
Outcome == INSTANCE RequestOutcome WITH outcome <- request.status
ImplementsOutcome == Outcome!OutcomeSpec

\* Once responsibility is registered, only a receipt with financial evidence
\* finishes the request, and it finishes it under the contract that was
\* registered for the candidate the request ended with: a reaper or a
\* background cancellation selected before the registration must lose, a
\* receipt of an earlier candidate is fenced off (guard in
\* pending_settlement.rs).
OnlyReceiptsFinishRegistered ==
    (Done /\ pending.state # "none") =>
        /\ pending.state = "applied"
        /\ pending.contract = request.candidate
        /\ receipt.fence = pending.fence /\ receipt.contract = pending.contract
        /\ receipt.evidence # "unknown"
        /\ (request.status = "charged") = (receipt.evidence = "provider")

\* A receipt is retired only when everything it proves is in the database
\* and no writer can bring it back: "so no late writer can recreate a
\* receipt after deletion" (attempt in pending_terminal.rs).
RetiredReceiptsAreSpent ==
    receipt.retired =>
        /\ Done /\ ~receipt.publishing
        /\ receipt.fence # 0 => /\ pending.state = "applied"
                                /\ observed.by = "gateway"

\* A terminal projection row says what the database knows: final exactly
\* for a finished request; provisional only for an annotated registration
\* whose end was observed, and always then, whichever of the two was written
\* first (so recover_unknown_terminal_projections finds nothing to repair).
\* Every row has its shape.
ProjectionRowMatchesFacts ==
    /\ TypeOK
    /\ (outbox = "final") = Done
    /\ outbox = "unknown" =>
          pending.state = "pending" /\ pending.unknown /\ observed.fence # 0
    /\ (/\ Open /\ pending.state = "pending" /\ pending.unknown
        /\ observed.by # "none" /\ observed.fence = pending.fence)
          => outbox = "unknown"

\* Every admitted request is eventually finished or recorded as ended,
\* whichever process dies: "so the list does not keep showing the request as
\* still running" (close_expired_proxy_owners).
EventuallyClosed == Open ~> (Done \/ observed.by # "none")

\* Every admitted request eventually has a known outcome or is annotated as
\* unknown for reconciliation, whatever leases and acknowledgements are lost,
\* unless its gateway dies, a closer steps in for it, or it ends between a
\* candidate switch and its registration (see UndeliveredIsReleased).
EventuallyResolved ==
    Open ~> \/ Done \/ (pending.state = "pending" /\ pending.unknown)
            \/ gateway.phase = "dead" \/ observed.by = "closer"
            \/ pending.state = "pending" /\ pending.contract # request.candidate

\* A receipt that proves that nothing was delivered upstream eventually
\* settles at zero cost (confirmed_not_executed in pending_terminal.rs).
UndeliveredIsReleased ==
    (receipt.memory /\ receipt.evidence = "notExecuted") ~> Done

\* The registered row of a gateway that died is eventually settled from its
\* stored receipt or annotated as unknown (close_expired_proxy_owners).
LostOwnerIsAnnotated ==
    (gateway.phase = "dead" /\ Open /\ pending.state = "pending")
        ~> (Done \/ pending.unknown)
=============================================================================
