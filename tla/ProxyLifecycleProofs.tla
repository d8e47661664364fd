------------------------ MODULE ProxyLifecycleProofs ------------------------
(***************************************************************************)
(* Theorems about ProxyLifecycle, for every choice of its constants: the   *)
(* life of a request implements RequestOutcome, and its safety invariants. *)
(***************************************************************************)
EXTENDS ProxyLifecycle, TLAPS

WorkerType == [fence : Nat, contract : Candidates,
               step : {"idle", "selected", "observed"}]
Fences == {claim.fence, receipt.fence, observed.fence, closer.fence}

\* Assembling TypeOK in the next state from its parts.
LEMMA TypeParts ==
  /\ TypeOK <=>
       /\ now \in 0..MaxTime
       /\ request \in RequestType /\ pending \in PendingType
       /\ observed \in ObservedType /\ outbox \in OutboxRows
       /\ gateway \in GatewayType /\ claim \in ClaimType
       /\ receipt \in ReceiptType
       /\ legacy \in {"none", "cancelled", "deadline"}
       /\ attempt \in {"idle", "inflight", "executed"}
       /\ executed \in BOOLEAN
       /\ reaper \in WorkerType /\ closer \in WorkerType
       /\ Fences \subseteq 0..pending.fence
BY DEF TypeOK, WorkerType, Fences

\* The empty claim, receipt and worker are well-typed.
LEMMA TypeNulls ==
  NoClaim \in ClaimType /\ NoReceipt \in ReceiptType /\ Idle \in WorkerType
BY ContractAssumption
   DEF NoClaim, ClaimType, NoReceipt, ReceiptType, Evidences, Idle, WorkerType

\* Every record starts with its shape.
LEMMA TypeInit == Init => TypeOK
<1> SUFFICES ASSUME Init PROVE TypeOK
  OBVIOUS
<1>1. now \in 0..MaxTime
  BY HorizonAssumption DEF Init
<1>2. request \in RequestType /\ pending \in PendingType
  BY ContractAssumption DEF Init, RequestType, PendingType, Statuses
<1>3. observed \in ObservedType /\ outbox \in OutboxRows
  BY DEF Init, ObservedType, OutboxRows
<1>4. gateway \in GatewayType
  BY ContractAssumption DEF Init, GatewayType, Phases
<1>5. claim \in ClaimType /\ receipt \in ReceiptType
  BY TypeNulls DEF Init
<1>6. Fences \subseteq 0..pending.fence
  BY DEF Init, Fences, NoClaim, NoReceipt, Idle
<1>7. reaper \in WorkerType /\ closer \in WorkerType
  BY TypeNulls DEF Init
<1> QED BY <1>1, <1>2, <1>3, <1>4, <1>5, <1>6, <1>7, TypeParts DEF Init

\* Admission and the owner lease keep the records' shapes.
LEMMA TypeOwner ==
  ASSUME TypeOK,
         Arrival \/ AcquireOwner \/ AcquireFails \/ RenewOwner
  PROVE  TypeOK'
<1>1. /\ now \in Nat /\ request \in RequestType /\ gateway \in GatewayType
  BY TypeParts, HorizonAssumption
<1>2. Lease \in RequestType
  <2> DEFINE e == now + LeaseLen
  <2>1. e \in Nat
    BY <1>1, HorizonAssumption
  <2> HIDE DEF e
  <2>2. [request EXCEPT !.owned = TRUE, !.expires = e] \in RequestType
    BY <1>1, <2>1 DEF RequestType
  <2> QED BY <2>2 DEF Lease, e
<1>3. request' \in RequestType
  <2>1. [request EXCEPT !.status = "open", !.created = now] \in RequestType
    BY <1>1 DEF RequestType, Statuses
  <2> QED BY <1>1, <1>2, <2>1
          DEF Arrival, Admit, AcquireOwner, AcquireFails, RenewOwner
<1>4. gateway' \in GatewayType
  <2>1. \A p \in Phases : [gateway EXCEPT !.phase = p] \in GatewayType
    BY <1>1 DEF GatewayType
  <2> QED BY <1>1, <2>1 DEF Arrival, Admit, AcquireOwner, AcquireFails, RenewOwner,
                            gatewayVars, Phases
<1>5. UNCHANGED <<now, pending, observed, outbox, claim, receipt, legacy,
                  upstreamVars, workerVars>>
  BY DEF Arrival, Admit, AcquireOwner, AcquireFails, RenewOwner, gatewayVars
<1> QED BY <1>3, <1>4, <1>5, TypeParts DEF TypeOK, upstreamVars, workerVars

\* Selection, registration, sending and its results.
LEMMA TypeDispatch ==
  ASSUME TypeOK,
         \/ \E c \in Candidates, a \in BOOLEAN : SwitchCandidate(c, a)
         \/ KeepAssignment \/ PrepareDispatch \/ DispatchRefused
         \/ UpstreamExecutes \/ SendUndelivered \/ SendAmbiguous \/ ResponseHeaders
  PROVE  TypeOK'
<1> USE DEF dbVars, gatewayVars, upstreamVars, workerVars
<1>1. /\ request \in RequestType /\ gateway \in GatewayType
      /\ pending \in PendingType /\ claim \in ClaimType
      /\ Fences \subseteq 0..pending.fence /\ pending.fence \in Nat
  BY TypeParts DEF PendingType
<1>2. ASSUME NEW p \in Phases, NEW b \in BOOLEAN
      PROVE  /\ [gateway EXCEPT !.phase = p] \in GatewayType
             /\ [gateway EXCEPT !.phase = p, !.undelivered = b] \in GatewayType
  BY <1>1 DEF GatewayType
<1>3. Registered \in PendingType /\ Registered.fence >= pending.fence
  <2> DEFINE f == IF pending.state = "pending" /\ pending.contract = request.candidate
                  THEN pending.fence ELSE pending.fence + 1
  <2>1. f \in Nat /\ f >= pending.fence
    BY <1>1
  <2> HIDE DEF f
  <2>2. request.candidate \in Candidates
    BY <1>1 DEF RequestType
  <2>3. [pending EXCEPT !.state = "pending", !.fence = f,
                        !.contract = request.candidate] \in PendingType
    BY <1>1, <2>1, <2>2 DEF PendingType
  <2>4. [pending EXCEPT !.state = "pending", !.fence = f,
                        !.contract = request.candidate].fence = f
    BY <1>1 DEF PendingType
  <2> QED BY <2>1, <2>3, <2>4 DEF Registered, f
<1>4. CASE \E c \in Candidates, a \in BOOLEAN : SwitchCandidate(c, a)
  <2>1. PICK c \in Candidates, a \in BOOLEAN : SwitchCandidate(c, a)
    BY <1>4
  <2>2. request' \in RequestType
    BY <1>1, <2>1 DEF SwitchCandidate, RequestType
  <2>3. gateway' \in GatewayType
    <3> DEFINE n == IF a THEN gateway.switches + 1 ELSE MaxSwitches
               p == IF a THEN "selecting" ELSE "failed"
               l == IF a THEN c ELSE gateway.local
    <3>1. n \in Nat /\ p \in Phases /\ l \in Candidates
      BY <1>1, HorizonAssumption DEF GatewayType, Phases
    <3>2. gateway' = [gateway EXCEPT !.phase = p, !.local = l, !.switches = n]
      BY <2>1 DEF SwitchCandidate
    <3> HIDE DEF n, p, l
    <3> QED BY <1>1, <3>1, <3>2 DEF GatewayType
  <2> QED BY <2>1, <2>2, <2>3 DEF SwitchCandidate, TypeOK
<1>5. CASE KeepAssignment
  <2> DEFINE n == gateway.switches + 1
  <2>1. n \in Nat
    BY <1>1 DEF GatewayType
  <2>2. gateway' = [gateway EXCEPT !.phase = "selecting", !.switches = n]
    BY <1>5 DEF KeepAssignment
  <2> HIDE DEF n
  <2>3. gateway' \in GatewayType
    BY <1>1, <2>1, <2>2 DEF GatewayType, Phases
  <2> QED BY <1>5, <2>3 DEF KeepAssignment, TypeOK
<1>6. CASE PrepareDispatch
  <2>1. gateway' \in GatewayType
    BY <1>2, <1>6 DEF PrepareDispatch, Phases
  <2>2. pending' = Registered
    BY <1>6 DEF PrepareDispatch
  <2>3. claim' \in ClaimType /\ claim'.fence = pending'.fence
    BY <1>3, <1>6, <2>2 DEF PrepareDispatch, ClaimType, PendingType
  <2>4. pending'.fence \in Nat /\ pending'.fence >= pending.fence
    BY <1>3, <2>2 DEF PendingType
  <2>5. Fences' \subseteq 0..pending'.fence
    BY <1>1, <1>6, <2>3, <2>4 DEF PrepareDispatch, Fences
  <2> QED BY <1>3, <1>6, <2>1, <2>2, <2>3, <2>5 DEF PrepareDispatch, TypeOK, Fences
<1>7. CASE DispatchRefused
  <2>1. gateway' \in GatewayType
    BY <1>2, <1>7 DEF DispatchRefused, Phases
  <2>2. pending' \in PendingType /\ pending'.fence >= pending.fence /\ pending'.fence \in Nat
    BY <1>1, <1>3, <1>7 DEF DispatchRefused, PendingType
  <2>3. Fences' \subseteq 0..pending'.fence
    BY <1>1, <1>7, <2>2 DEF DispatchRefused, Fences
  <2> QED BY <1>7, <2>1, <2>2, <2>3 DEF DispatchRefused, TypeOK, Fences
<1>8. CASE UpstreamExecutes
  BY <1>8 DEF UpstreamExecutes, TypeOK
<1>9. ASSUME NEW u \in BOOLEAN, NEW p \in Phases, RecordTransport(u, p)
      PROVE  gateway' \in GatewayType /\ claim' \in ClaimType /\ claim'.fence = claim.fence
  <2> DEFINE b == AllUndelivered(u)
  <2>1. b \in BOOLEAN
    BY <1>1 DEF AllUndelivered, GatewayType
  <2>2. /\ gateway' = [gateway EXCEPT !.phase = p, !.undelivered = b]
        /\ claim' = [claim EXCEPT !.undelivered = b]
    BY <1>9 DEF RecordTransport
  <2> HIDE DEF b
  <2> QED BY <1>1, <1>2, <2>1, <2>2 DEF ClaimType
<1>10. CASE SendUndelivered
  BY <1>9, <1>10 DEF SendUndelivered, TypeOK, Phases
<1>11. CASE SendAmbiguous
  BY <1>9, <1>11 DEF SendAmbiguous, TypeOK, Phases
<1>12. CASE ResponseHeaders
  BY <1>9, <1>12 DEF ResponseHeaders, TypeOK, Phases
<1> QED BY <1>4, <1>5, <1>6, <1>7, <1>8, <1>10, <1>11, <1>12

\* What ends the handler: a receipt, a background finish or nothing.
LEMMA TypeHandlerEnds ==
  ASSUME TypeOK,
         \/ \E r \in BOOLEAN : SubmitTerminal(r)
         \/ AbandonClaimed \/ CancelClaimless \/ ReturnRefused \/ DisarmUnknown
         \/ DeadlineAfterSubmit \/ Crash
  PROVE  TypeOK'
<1> USE DEF dbVars, gatewayVars, upstreamVars, workerVars
<1>1. /\ gateway \in GatewayType /\ claim \in ClaimType /\ receipt \in ReceiptType
      /\ pending.fence \in Nat
  BY TypeParts DEF PendingType
<1>2. [gateway EXCEPT !.phase = "returned"] \in GatewayType
  BY <1>1 DEF GatewayType, Phases
<1>3. NoClaim.fence = 0
  BY DEF NoClaim
<1>4. ASSUME NEW r \in BOOLEAN, NEW l \in Candidates, Capture(r, l)
      PROVE  /\ receipt' \in ReceiptType /\ receipt'.fence = claim.fence
             /\ claim' = NoClaim /\ gateway' \in GatewayType
  <2>1. Evidence(r) \in Evidences
    BY DEF Evidence, Evidences
  <2>2. claim.fence \in Nat /\ claim.contract \in Candidates
    BY <1>1 DEF ClaimType
  <2>3. receipt' \in ReceiptType /\ receipt'.fence = claim.fence
    BY <1>4, <2>1, <2>2, TypeNulls DEF Capture, ReceiptType
  <2> QED BY <1>2, <1>4, <2>3 DEF Capture
<1>5. CASE \E r \in BOOLEAN : SubmitTerminal(r)
  <2>1. PICK r \in BOOLEAN : SubmitTerminal(r)
    BY <1>5
  <2>2. gateway.local \in Candidates
    BY <1>1 DEF GatewayType
  <2>3. /\ receipt' \in ReceiptType /\ receipt'.fence = claim.fence
        /\ claim' = NoClaim /\ gateway' \in GatewayType
    BY <1>4, <2>1, <2>2 DEF SubmitTerminal
  <2> QED BY <1>1, <1>3, <2>1, <2>3, TypeNulls DEF SubmitTerminal, TypeOK
<1>6. CASE AbandonClaimed
  <2>1. claim.contract \in Candidates
    BY <1>1 DEF ClaimType
  <2>2. /\ receipt' \in ReceiptType /\ receipt'.fence = claim.fence
        /\ claim' = NoClaim /\ gateway' \in GatewayType
    BY <1>4, <1>6, <2>1 DEF AbandonClaimed
  <2> QED BY <1>1, <1>3, <1>6, <2>2, TypeNulls DEF AbandonClaimed, TypeOK
<1>7. CASE CancelClaimless
  BY <1>2, <1>7 DEF CancelClaimless, TypeOK
<1>8. CASE ReturnRefused
  BY <1>2, <1>8 DEF ReturnRefused, TypeOK
<1>9. CASE DisarmUnknown
  <2>1. claim' \in ClaimType /\ claim'.fence = claim.fence
    BY <1>1, <1>9 DEF DisarmUnknown, ClaimType
  <2> QED BY <1>2, <1>9, <2>1 DEF DisarmUnknown, TypeOK
<1>10. CASE DeadlineAfterSubmit
  BY <1>10 DEF DeadlineAfterSubmit, TypeOK
<1>11. CASE Crash
  <2>1. PICK stored \in BOOLEAN :
          receipt' = [receipt EXCEPT !.memory = FALSE, !.publishing = FALSE,
                        !.durable = @ \/ (receipt.publishing /\ stored)]
    BY <1>11 DEF Crash
  <2>2. receipt' \in ReceiptType /\ receipt'.fence = receipt.fence
    BY <1>1, <2>1 DEF ReceiptType
  <2>3. gateway' \in GatewayType
    BY <1>1, <1>11 DEF Crash, GatewayType, Phases
  <2>4. claim' = NoClaim /\ legacy' = "none"
    BY <1>11 DEF Crash
  <2>5. UNCHANGED <<now, dbVars, upstreamVars, workerVars>>
    BY <1>11 DEF Crash
  <2> QED BY <1>1, <1>3, <2>2, <2>3, <2>4, <2>5, TypeNulls DEF TypeOK
<1> QED BY <1>5, <1>6, <1>7, <1>8, <1>9, <1>10, <1>11

\* What the transactions on the terminal facts write.
LEMMA TypeFacts ==
  ASSUME TypeOK
  PROVE  /\ \A s \in {"free", "charged"} : Finish(s) =>
              request' \in RequestType /\ outbox' \in OutboxRows
         /\ \A f, c : MarkUnknown(f, c) =>
              /\ pending' \in PendingType /\ pending'.fence = pending.fence
              /\ outbox' \in OutboxRows /\ UNCHANGED <<request, observed>>
         /\ \A f, c : \A by \in {"gateway", "closer"} : Observe(by, f, c) =>
              /\ observed' \in ObservedType /\ observed'.fence \in 0..pending.fence
              /\ outbox' \in OutboxRows /\ UNCHANGED <<request, pending>>
<1>1. /\ request \in RequestType /\ pending \in PendingType /\ observed \in ObservedType
      /\ observed.fence \in 0..pending.fence /\ outbox \in OutboxRows
      /\ pending.fence \in Nat
  BY DEF TypeOK, PendingType
<1>2. ASSUME NEW s \in {"free", "charged"}, Finish(s)
      PROVE  request' \in RequestType /\ outbox' \in OutboxRows
  BY <1>1, <1>2 DEF Finish, RequestType, Statuses, OutboxRows
<1>3. ASSUME NEW f, NEW c, MarkUnknown(f, c)
      PROVE  /\ pending' \in PendingType /\ pending'.fence = pending.fence
             /\ outbox' \in OutboxRows /\ UNCHANGED <<request, observed>>
  <2>1. pending' \in PendingType /\ pending'.fence = pending.fence
    BY <1>1, <1>3 DEF MarkUnknown, PendingType
  <2>2. outbox' \in {"unknown", outbox}
    BY <1>3 DEF MarkUnknown, WithUnknownRow
  <2> QED BY <1>1, <1>3, <2>1, <2>2 DEF MarkUnknown, OutboxRows
<1>4. ASSUME NEW f, NEW c, NEW by \in {"gateway", "closer"}, Observe(by, f, c)
      PROVE  /\ observed' \in ObservedType /\ observed'.fence \in 0..pending.fence
             /\ outbox' \in OutboxRows /\ UNCHANGED <<request, pending>>
  <2>1. observed' = observed \/ observed' = [by |-> by, fence |-> pending.fence]
    BY <1>4 DEF Observe, Authority
  <2>2. outbox' \in {"unknown", outbox}
    BY <1>4 DEF Observe, WithUnknownRow
  <2> QED BY <1>1, <1>4, <2>1, <2>2 DEF Observe, OutboxRows, ObservedType
<1> QED BY <1>2, <1>3, <1>4

\* The journal's workers and the background finish.
LEMMA TypeJournal ==
  ASSUME TypeOK,
         LegacyStep \/ SettlementStep \/ StorageStep \/ ObserveReceipt \/ RecoverReceipt
  PROVE  TypeOK'
<1> USE DEF dbVars, gatewayVars, upstreamVars, workerVars
<1>1. receipt \in ReceiptType /\ pending \in PendingType /\ pending.fence \in Nat
  BY TypeParts DEF PendingType
<1>2. CASE LegacyFinish
  BY <1>2, TypeFacts DEF LegacyFinish, TypeOK
<1>3. CASE LegacyGivesUp
  BY <1>3 DEF LegacyGivesUp, TypeOK
<1>4. CASE ObserveReceipt
  <2>1. receipt' \in ReceiptType /\ receipt'.fence = receipt.fence
    BY <1>1, <1>4 DEF ObserveReceipt, ReceiptType
  <2>2. /\ observed' \in ObservedType /\ observed'.fence \in 0..pending.fence
        /\ outbox' \in OutboxRows /\ UNCHANGED <<request, pending>>
    BY <1>4, TypeFacts DEF ObserveReceipt
  <2> QED BY <1>4, <2>1, <2>2 DEF ObserveReceipt, TypeOK
<1>5. ASSUME NEW a \in BOOLEAN, SettleReceipt(a)
      PROVE  TypeOK'
  <2>1. receipt' \in ReceiptType /\ receipt'.fence = receipt.fence
    BY <1>1, <1>5 DEF SettleReceipt, ReceiptType
  <2>2. request' \in RequestType /\ outbox' \in OutboxRows
    BY <1>5, TypeFacts DEF SettleReceipt
  <2>3. pending' \in PendingType /\ pending'.fence = pending.fence
    BY <1>1, <1>5 DEF SettleReceipt, PendingType
  <2> QED BY <1>5, <2>1, <2>2, <2>3 DEF SettleReceipt, TypeOK
<1>6. ASSUME NEW a \in BOOLEAN, SettleClaimless(a)
      PROVE  TypeOK'
  <2>1. receipt' \in ReceiptType /\ receipt'.fence = receipt.fence
    BY <1>1, <1>6 DEF SettleClaimless, ReceiptType
  <2>2. request' \in RequestType /\ outbox' \in OutboxRows
    BY <1>6, TypeFacts DEF SettleClaimless
  <2> QED BY <1>6, <2>1, <2>2 DEF SettleClaimless, TypeOK
<1>7. CASE AnnotateReceipt
  <2>1. receipt' \in ReceiptType /\ receipt'.fence = receipt.fence
    BY <1>1, <1>7 DEF AnnotateReceipt, ReceiptType
  <2>2. /\ pending' \in PendingType /\ pending'.fence = pending.fence
        /\ outbox' \in OutboxRows /\ UNCHANGED <<request, observed>>
    BY <1>7, TypeFacts DEF AnnotateReceipt
  <2> QED BY <1>7, <2>1, <2>2 DEF AnnotateReceipt, TypeOK
<1>8. CASE AnnotateClaim
  <2>1. claim' \in ClaimType /\ claim'.fence \in 0..pending.fence
    BY <1>1, <1>8, TypeNulls DEF AnnotateClaim, NoClaim
  <2>2. /\ pending' \in PendingType /\ pending'.fence = pending.fence
        /\ outbox' \in OutboxRows /\ UNCHANGED <<request, observed>>
    BY <1>8, TypeFacts DEF AnnotateClaim
  <2> QED BY <1>8, <2>1, <2>2 DEF AnnotateClaim, TypeOK
<1>9. ASSUME \/ ReplayReceipt \/ ReconcileReceipt \/ StorageStep \/ RecoverReceipt
      PROVE  TypeOK'
  <2>1. receipt' \in ReceiptType /\ receipt'.fence = receipt.fence
    <3>1. CASE ReplayReceipt \/ ReconcileReceipt
      BY <1>1, <3>1 DEF ReplayReceipt, ReconcileReceipt, ReceiptType
    <3>2. CASE StartPublication \/ EvictReceipt \/ RecoverReceipt
      BY <1>1, <3>2 DEF StartPublication, EvictReceipt, RecoverReceipt, ReceiptType
    <3>3. ASSUME NEW b \in BOOLEAN, EndPublication(b) \/ RetireReceipt(b)
          PROVE  receipt' \in ReceiptType /\ receipt'.fence = receipt.fence
      BY <1>1, <3>3 DEF EndPublication, RetireReceipt, ReceiptType
    <3> QED BY <1>9, <3>1, <3>2, <3>3 DEF StorageStep
  <2>2. UNCHANGED <<now, dbVars, gateway, claim, legacy, upstreamVars, workerVars>>
    BY <1>9 DEF ReplayReceipt, ReconcileReceipt, StorageStep, StartPublication,
           EndPublication, RetireReceipt, EvictReceipt, RecoverReceipt
  <2> QED BY <2>1, <2>2 DEF TypeOK
<1> QED BY <1>2, <1>3, <1>4, <1>5, <1>6, <1>7, <1>8, <1>9 DEF LegacyStep, SettlementStep

\* The reaper, the closer and the clock.
LEMMA TypeWorkers ==
  ASSUME TypeOK, ReaperStep \/ CloserStep \/ Tick
  PROVE  TypeOK'
<1> USE DEF dbVars, gatewayVars, upstreamVars, workerVars
<1>1. /\ request.candidate \in Candidates /\ pending.contract \in Candidates
      /\ pending.fence \in Nat /\ reaper \in WorkerType /\ closer \in WorkerType
      /\ closer.fence \in 0..pending.fence
  BY DEF TypeOK, RequestType, PendingType, WorkerType
<1>2. CASE ReaperSelect
  <2>1. reaper' \in WorkerType
    BY <1>1, <1>2 DEF ReaperSelect, Idle, WorkerType
  <2> QED BY <1>2, <2>1 DEF ReaperSelect, TypeOK, WorkerType
<1>3. CASE ReaperFinish
  <2>1. request' \in RequestType /\ outbox' \in OutboxRows
    BY <1>3, TypeFacts DEF ReaperFinish
  <2> QED BY <1>3, <2>1, TypeNulls DEF ReaperFinish, TypeOK, WorkerType
<1>4. CASE ReaperSkip
  BY <1>4, TypeNulls DEF ReaperSkip, TypeOK, WorkerType
<1>5. CASE CloserSelect
  <2>1. closer' \in WorkerType /\ closer'.fence \in 0..pending.fence
    BY <1>1, <1>5 DEF CloserSelect, WorkerType
  <2> QED BY <1>5, <2>1 DEF CloserSelect, TypeOK, WorkerType
<1>6. CASE CloserObserve
  <2>1. closer' \in WorkerType /\ closer'.fence = closer.fence
    BY <1>1, <1>6 DEF CloserObserve, WorkerType
  <2>2. /\ observed' \in ObservedType /\ observed'.fence \in 0..pending.fence
        /\ outbox' \in OutboxRows /\ UNCHANGED <<request, pending>>
    BY <1>6, TypeFacts DEF CloserObserve
  <2> QED BY <1>6, <2>1, <2>2 DEF CloserObserve, TypeOK, WorkerType
<1>7. CASE CloserMark
  <2>1. /\ pending' \in PendingType /\ pending'.fence = pending.fence
        /\ outbox' \in OutboxRows /\ UNCHANGED <<request, observed>>
    BY <1>7, TypeFacts DEF CloserMark
  <2>2. Idle.fence \in 0..pending.fence
    BY <1>1 DEF Idle
  <2> QED BY <1>7, <2>1, <2>2, TypeNulls DEF CloserMark, TypeOK, WorkerType
<1>8. CASE CloserStops
  <2>1. Idle.fence \in 0..pending.fence
    BY <1>1 DEF Idle
  <2> QED BY <1>8, <2>1, TypeNulls DEF CloserStops, TypeOK, WorkerType
<1>9. CASE Tick
  BY <1>9, HorizonAssumption DEF Tick, TypeOK
<1> QED BY <1>2, <1>3, <1>4, <1>5, <1>6, <1>7, <1>8, <1>9 DEF ReaperStep, CloserStep

\* Every step keeps the tables well-typed.
LEMMA TypeNext == TypeOK /\ [LifecycleNext]_vars => TypeOK'
<1> SUFFICES ASSUME TypeOK, [LifecycleNext]_vars PROVE TypeOK'
  OBVIOUS
<1>1. CASE LifecycleNext
  BY <1>1, TypeOwner, TypeDispatch, TypeHandlerEnds, TypeJournal, TypeWorkers
     DEF LifecycleNext, HandlerStep
<1>2. CASE UNCHANGED vars
  BY <1>2 DEF vars, dbVars, gatewayVars, upstreamVars, workerVars, TypeOK
<1> QED BY <1>1, <1>2

\* Every row, receipt and worker record keeps its shape and no fence names a
\* registration that did not happen (pending_settlement.rs).
THEOREM TypeCorrect == Spec => []TypeOK
BY TypeInit, TypeNext, PTL DEF Spec

-----------------------------------------------------------------------------
(* The inductive invariant.                                                *)

\* The handler has not ended: no terminal was submitted.
Handling == gateway.phase \notin {"returned", "dead"}

\* The request row, the registered row and the observation agree.
RowsAgree ==
    /\ (gateway.phase = "new") = (request.status = "none")
    /\ request.status = "none" => pending.state = "none"
    /\ (pending.state = "none") = (pending.fence = 0)
    /\ pending.state = "none" => ~pending.unknown
    /\ pending.state = "pending" => Open
    /\ pending.state = "applied" => Done /\ ~Handling
    /\ (observed.by = "none") = (observed.fence = 0)

\* What the handler and its receipt may believe about the attempts.
EvidenceHolds ==
    /\ executed \/ attempt # "idle" => pending.state # "none"
    /\ Handling => receipt = NoReceipt
    /\ gateway.phase = "sending" => pending.state = "pending" /\ attempt # "idle"
    /\ attempt = "inflight" =>
          /\ pending.state = "pending" /\ receipt.evidence = "unknown"
          /\ gateway.phase = "sending" \/ ~Handling
    /\ attempt = "executed" \/ gateway.phase = "delivering" => executed
    /\ claim.undelivered => attempt = "idle" /\ ~executed
    /\ gateway.undelivered /\ executed =>
          (gateway.phase = "sending" /\ attempt = "executed") \/ ~Handling
    /\ receipt.evidence = "notExecuted" => attempt = "idle" /\ ~executed
    /\ receipt.evidence = "provider" => executed

\* What the journal knows of its receipt is in the database.
ReceiptHolds ==
    /\ receipt.applied => Done /\ (receipt.fence # 0 => pending.state = "applied")
    /\ receipt.observed => observed.by = "gateway"
    /\ receipt.retired /\ receipt.memory => receipt.recovered

IInv ==
    /\ ProjectionRowMatchesFacts
    /\ RowsAgree /\ EvidenceHolds /\ ReceiptHolds
    /\ OnlyReceiptsFinishRegistered /\ RetiredReceiptsAreSpent

\* The invariant holds at first.
LEMMA IInit == Init => IInv
BY TypeInit
   DEF Init, IInv, ProjectionRowMatchesFacts, RowsAgree, EvidenceHolds, ReceiptHolds,
       OnlyReceiptsFinishRegistered, RetiredReceiptsAreSpent, Open, Done, Handling,
       NoReceipt, NoClaim

\* From here on a step is followed through every part of the invariant.
USE DEF IInv, TypeOK, ProjectionRowMatchesFacts, RowsAgree, EvidenceHolds,
        ReceiptHolds, OnlyReceiptsFinishRegistered, RetiredReceiptsAreSpent,
        Open, Done, Handling, NoReceipt, NoClaim, RequestType, PendingType,
        ObservedType, GatewayType, ClaimType, ReceiptType, dbVars, gatewayVars,
        upstreamVars, workerVars

\* Admission creates an open row that nobody has registered; lease writes touch
\* neither the status nor the candidate.
LEMMA IOwner ==
  ASSUME IInv, TypeOK', Arrival \/ AcquireOwner \/ AcquireFails \/ RenewOwner
  PROVE  IInv'
<1>1. CASE Arrival
  BY <1>1 DEF Arrival, Admit
<1>2. CASE AcquireOwner
  BY <1>2 DEF AcquireOwner, Lease
<1>3. CASE AcquireFails
  <2>1. request' = request \/ request' = Lease
    BY <1>3 DEF AcquireFails
  <2>2. request'.status = request.status /\ request'.candidate = request.candidate
    BY <2>1 DEF Lease
  <2> QED BY <1>3, <2>2 DEF AcquireFails
<1>4. CASE RenewOwner
  BY <1>4 DEF RenewOwner, Lease
<1> QED BY <1>1, <1>2, <1>3, <1>4

\* A new registration has a fence above every fence in use, so no earlier
\* receipt or observation speaks for it; an attempt is on the wire only while
\* its registration is pending.
LEMMA IDispatch ==
  ASSUME IInv, TypeOK',
         \/ \E c \in Candidates, a \in BOOLEAN : SwitchCandidate(c, a)
         \/ KeepAssignment \/ PrepareDispatch \/ DispatchRefused
         \/ UpstreamExecutes \/ SendUndelivered \/ SendAmbiguous \/ ResponseHeaders
  PROVE  IInv'
<1>1. CASE \E c \in Candidates, a \in BOOLEAN : SwitchCandidate(c, a)
  <2>1. PICK c \in Candidates, a \in BOOLEAN : SwitchCandidate(c, a)
    BY <1>1
  <2>2. Open /\ request'.status = request.status
    BY <2>1 DEF SwitchCandidate
  <2>3. /\ gateway.phase \in {"selecting", "failed"}
        /\ gateway'.phase \in {"selecting", "failed"}
        /\ gateway'.undelivered = gateway.undelivered
    BY <2>1 DEF SwitchCandidate
  <2>4. UNCHANGED <<now, pending, observed, outbox, claim, receipt, legacy,
                    upstreamVars, workerVars>>
    BY <2>1 DEF SwitchCandidate
  <2> QED BY <2>2, <2>3, <2>4
<1>2. CASE KeepAssignment
  BY <1>2 DEF KeepAssignment
<1>3. CASE PrepareDispatch
  BY <1>3 DEF PrepareDispatch, Registrable, Registered
<1>4. CASE DispatchRefused
  <2>1. CASE pending' = pending
    BY <1>4, <2>1 DEF DispatchRefused
  <2>2. CASE Registrable /\ pending' = Registered
    BY <1>4, <2>2 DEF DispatchRefused, Registrable, Registered
  <2> QED BY <1>4, <2>1, <2>2 DEF DispatchRefused
<1>5. CASE UpstreamExecutes
  BY <1>5 DEF UpstreamExecutes
<1>6. CASE SendUndelivered
  BY <1>6 DEF SendUndelivered, RecordTransport, AllUndelivered
<1>7. CASE SendAmbiguous
  BY <1>7 DEF SendAmbiguous, RecordTransport, AllUndelivered
<1>8. CASE ResponseHeaders
  BY <1>8 DEF ResponseHeaders, RecordTransport, AllUndelivered
<1> QED BY <1>1, <1>2, <1>3, <1>4, <1>5, <1>6, <1>7, <1>8

\* A receipt takes over what the claim proves about the attempts.
LEMMA IHandlerEnds ==
  ASSUME IInv, TypeOK',
         \/ \E r \in BOOLEAN : SubmitTerminal(r)
         \/ AbandonClaimed \/ CancelClaimless \/ ReturnRefused \/ DisarmUnknown
         \/ DeadlineAfterSubmit \/ Crash
  PROVE  IInv'
<1>1. CASE \E r \in BOOLEAN : SubmitTerminal(r)
  <2>1. PICK r \in BOOLEAN : SubmitTerminal(r)
    BY <1>1
  <2>2. /\ receipt'.fence = claim.fence /\ receipt'.contract = claim.contract
        /\ receipt'.evidence = Evidence(r)
        /\ ~receipt'.applied /\ ~receipt'.observed /\ ~receipt'.retired
    BY <2>1 DEF SubmitTerminal, Capture
  <2>3. ~claim'.undelivered /\ gateway'.phase = "returned"
    BY <2>1 DEF SubmitTerminal, Capture
  <2>4. UNCHANGED <<now, dbVars, legacy, upstreamVars, workerVars>>
    BY <2>1 DEF SubmitTerminal
  <2>5. r => gateway.phase = "delivering"
    BY <2>1 DEF SubmitTerminal
  <2>6. Handling /\ gateway.phase \notin {"new", "sending"}
    BY <2>1 DEF SubmitTerminal
  <2> QED BY <2>2, <2>3, <2>4, <2>5, <2>6 DEF Evidence
<1>2. CASE AbandonClaimed
  BY <1>2 DEF AbandonClaimed, Capture, Evidence
<1>3. CASE CancelClaimless
  BY <1>3 DEF CancelClaimless
<1>4. CASE ReturnRefused
  BY <1>4 DEF ReturnRefused
<1>5. CASE DisarmUnknown
  BY <1>5 DEF DisarmUnknown
<1>6. CASE DeadlineAfterSubmit
  BY <1>6 DEF DeadlineAfterSubmit
<1>7. CASE Crash
  <2>1. PICK stored \in BOOLEAN :
          receipt' = [receipt EXCEPT !.memory = FALSE, !.publishing = FALSE,
                        !.durable = @ \/ (receipt.publishing /\ stored)]
    BY <1>7 DEF Crash
  <2>2. /\ gateway'.phase = "dead" /\ gateway.phase # "new" /\ ~claim'.undelivered
        /\ UNCHANGED <<now, dbVars, upstreamVars, workerVars>>
    BY <1>7 DEF Crash
  <2> QED BY <2>1, <2>2
<1> QED BY <1>1, <1>2, <1>3, <1>4, <1>5, <1>6, <1>7

\* An annotation and an observation, by whoever writes them: whichever comes
\* second adds the provisional row.
LEMMA FactsAgree ==
  ASSUME IInv, TypeOK', NEW f, NEW c, NEW by \in {"gateway", "closer"},
         \/ MarkUnknown(f, c)
         \/ Observe(by, f, c) /\ (by = "closer" => observed.by = "none")
  PROVE  /\ ProjectionRowMatchesFacts'
         /\ request' = request
         /\ pending'.state = pending.state /\ pending'.fence = pending.fence
         /\ pending'.contract = pending.contract
         /\ pending.state # "none" /\ pending'.unknown \in BOOLEAN
         /\ (observed'.by = "none") = (observed'.fence = 0)
         /\ observed.by = "gateway" => observed'.by = "gateway"
         /\ Observe("gateway", f, c) => observed'.by = "gateway"
<1>1. CASE MarkUnknown(f, c)
  <2>1. /\ pending'.state = "pending" /\ pending'.fence = pending.fence
        /\ pending'.contract = pending.contract /\ pending'.unknown
        /\ pending.state = "pending"
    BY <1>1 DEF MarkUnknown, Authority
  <2>2. request' = request /\ observed' = observed
    BY <1>1 DEF MarkUnknown
  <2>3. outbox' = WithUnknownRow(pending', observed)
    BY <1>1 DEF MarkUnknown
  <2>4. ProjectionRowMatchesFacts'
    <3>1. CASE /\ observed.by # "none" /\ observed.fence = pending.fence
               /\ outbox = "none"
      BY <2>1, <2>2, <2>3, <3>1 DEF WithUnknownRow
    <3>2. CASE ~(/\ observed.by # "none" /\ observed.fence = pending.fence
                 /\ outbox = "none")
      <4>1. outbox' = outbox
        BY <2>1, <2>2, <2>3, <3>2 DEF WithUnknownRow
      <4>2. (outbox' = "final") = Done'
        BY <2>1, <2>2, <4>1
      <4>3. outbox' = "unknown" =>
              pending'.state = "pending" /\ pending'.unknown /\ observed'.fence # 0
        BY <2>1, <2>2, <4>1
      <4>4. (/\ Open' /\ pending'.state = "pending" /\ pending'.unknown
             /\ observed'.by # "none" /\ observed'.fence = pending'.fence)
               => outbox' = "unknown"
        BY <2>1, <2>2, <3>2, <4>1 DEF OutboxRows
      <4> QED BY <4>2, <4>3, <4>4
    <3> QED BY <3>1, <3>2
  <2>5. Observe("gateway", f, c) => observed'.by = "gateway"
    BY <2>2 DEF Observe
  <2> QED BY <2>1, <2>2, <2>4, <2>5
<1>2. CASE Observe(by, f, c) /\ (by = "closer" => observed.by = "none")
  <2>1. /\ pending.state # "none" /\ pending' = pending /\ request' = request
        /\ pending.fence # 0
    BY <1>2 DEF Observe, Authority
  <2>2. \/ observed.by # "none" /\ observed' = observed
        \/ observed.by = "none" /\ observed' = [by |-> by, fence |-> pending.fence]
    BY <1>2 DEF Observe, Authority
  <2>3. outbox' = WithUnknownRow(pending, observed')
    BY <1>2 DEF Observe
  <2>4. ProjectionRowMatchesFacts'
    <3>1. CASE pending.state = "pending" /\ pending.unknown /\ outbox = "none"
      BY <2>1, <2>2, <2>3, <3>1 DEF WithUnknownRow
    <3>2. CASE ~(pending.state = "pending" /\ pending.unknown /\ outbox = "none")
      <4>1. outbox' = outbox
        BY <2>1, <2>2, <2>3, <3>2 DEF WithUnknownRow
      <4>2. (outbox' = "final") = Done'
        BY <2>1, <2>2, <4>1
      <4>3. outbox' = "unknown" =>
              pending'.state = "pending" /\ pending'.unknown /\ observed'.fence # 0
        BY <2>1, <2>2, <4>1
      <4>4. (/\ Open' /\ pending'.state = "pending" /\ pending'.unknown
             /\ observed'.by # "none" /\ observed'.fence = pending'.fence)
               => outbox' = "unknown"
        BY <2>1, <2>2, <3>2, <4>1 DEF OutboxRows
      <4> QED BY <4>2, <4>3, <4>4
    <3> QED BY <3>1, <3>2
  <2>5. Observe("gateway", f, c) => observed'.by = "gateway"
    BY DEF Observe
  <2> QED BY <2>1, <2>2, <2>4, <2>5
<1> QED BY <1>1, <1>2

\* Only the settlement of a receipt that is still in authority ends a
\* registered request, and it stores what the receipt proves.
LEMMA IJournal ==
  ASSUME IInv, TypeOK',
         LegacyStep \/ SettlementStep \/ StorageStep \/ ObserveReceipt \/ RecoverReceipt
  PROVE  IInv'
<1>1. CASE LegacyFinish
  BY <1>1 DEF LegacyFinish, UnregisteredFinish, Finish
<1>2. CASE LegacyGivesUp
  BY <1>2 DEF LegacyGivesUp
<1>3. CASE \E a \in BOOLEAN : SettleReceipt(a)
  BY <1>3 DEF SettleReceipt, ReceiptFinish, Authority, CurrentContract, Finish
<1>4. CASE \E a \in BOOLEAN : SettleClaimless(a)
  BY <1>4 DEF SettleClaimless, UnregisteredFinish, Finish
<1>5. CASE ReplayReceipt
  BY <1>5 DEF ReplayReceipt, Authority
<1>6. CASE AnnotateReceipt
  BY <1>6, FactsAgree DEF AnnotateReceipt
<1>7. CASE ReconcileReceipt
  BY <1>7 DEF ReconcileReceipt
<1>8. CASE AnnotateClaim
  BY <1>8, FactsAgree DEF AnnotateClaim
<1>9. CASE ObserveReceipt
  BY <1>9, FactsAgree DEF ObserveReceipt
<1>10. CASE StartPublication
  BY <1>10 DEF StartPublication
<1>11. CASE \E s \in BOOLEAN : EndPublication(s)
  BY <1>11 DEF EndPublication
<1>12. CASE \E r \in BOOLEAN : RetireReceipt(r)
  BY <1>12 DEF RetireReceipt, Retirable
<1>13. CASE EvictReceipt
  BY <1>13 DEF EvictReceipt
<1>14. CASE RecoverReceipt
  BY <1>14 DEF RecoverReceipt
<1> QED BY <1>1, <1>2, <1>3, <1>4, <1>5, <1>6, <1>7, <1>8, <1>9, <1>10, <1>11, <1>12,
           <1>13, <1>14 DEF LegacyStep, SettlementStep, StorageStep

\* The reaper loses against a registration made after it selected the row.
LEMMA IWorkers ==
  ASSUME IInv, TypeOK', ReaperStep \/ CloserStep \/ Tick
  PROVE  IInv'
<1>1. CASE ReaperSelect \/ ReaperSkip
  BY <1>1 DEF ReaperSelect, ReaperSkip
<1>2. CASE ReaperFinish
  BY <1>2 DEF ReaperFinish, UnregisteredFinish, Finish
<1>3. CASE CloserSelect \/ CloserStops
  BY <1>3 DEF CloserSelect, CloserStops
<1>4. CASE CloserObserve
  BY <1>4, FactsAgree DEF CloserObserve
<1>5. CASE CloserMark
  BY <1>5, FactsAgree DEF CloserMark
<1>6. CASE Tick
  BY <1>6 DEF Tick
<1> QED BY <1>1, <1>2, <1>3, <1>4, <1>5, <1>6 DEF ReaperStep, CloserStep

\* Every step keeps the invariant.
LEMMA INext == IInv /\ [LifecycleNext]_vars => IInv'
<1> SUFFICES ASSUME IInv, [LifecycleNext]_vars PROVE IInv'
  OBVIOUS
<1>1. TypeOK'
  BY TypeNext DEF TypeOK
<1>2. CASE LifecycleNext
  BY <1>1, <1>2, IOwner, IDispatch, IHandlerEnds, IJournal, IWorkers
     DEF LifecycleNext, HandlerStep
<1>3. CASE UNCHANGED vars
  BY <1>3 DEF vars
<1> QED BY <1>2, <1>3

\* Steps of the lifecycle as seen by the abstract specification: the status
\* changes only as RequestOutcome allows, and so does the provider's execution.
LEMMA OutcomeStep ==
  ASSUME IInv, TypeOK', LifecycleNext
  PROVE  [Outcome!OutcomeNext]_(Outcome!outcomeVars)
<1> USE DEF Outcome!OutcomeNext, Outcome!outcomeVars, Outcome!Begin, Outcome!Execute,
            Outcome!Release, Outcome!Charge
<1>1. CASE Arrival
  BY <1>1 DEF Arrival, Admit
<1>2. CASE UpstreamExecutes
  BY <1>2 DEF UpstreamExecutes
<1>3. CASE SendAmbiguous
  BY <1>3 DEF SendAmbiguous
<1>4. CASE LegacyFinish
  BY <1>4 DEF LegacyFinish, UnregisteredFinish, Finish
<1>5. CASE ReaperFinish
  BY <1>5 DEF ReaperFinish, UnregisteredFinish, Finish
<1>6. CASE \E a \in BOOLEAN : SettleClaimless(a)
  BY <1>6 DEF SettleClaimless, UnregisteredFinish, Finish
<1>7. CASE \E a \in BOOLEAN : SettleReceipt(a)
  BY <1>7 DEF SettleReceipt, ReceiptFinish, Finish, Evidences
<1>8. CASE AcquireOwner \/ AcquireFails \/ RenewOwner
  BY <1>8 DEF AcquireOwner, AcquireFails, RenewOwner, Lease
<1>9. CASE \E c \in Candidates, a \in BOOLEAN : SwitchCandidate(c, a)
  BY <1>9 DEF SwitchCandidate
<1>10. CASE \/ KeepAssignment \/ PrepareDispatch \/ DispatchRefused
            \/ SendUndelivered \/ ResponseHeaders
            \/ \E r \in BOOLEAN : SubmitTerminal(r)
            \/ AbandonClaimed \/ CancelClaimless \/ ReturnRefused \/ DisarmUnknown
            \/ DeadlineAfterSubmit \/ Crash
  BY <1>10 DEF KeepAssignment, PrepareDispatch, DispatchRefused, SendUndelivered,
               ResponseHeaders, SubmitTerminal, AbandonClaimed, CancelClaimless,
               ReturnRefused, DisarmUnknown, DeadlineAfterSubmit, Crash
<1>11. CASE \/ LegacyGivesUp \/ ReplayReceipt \/ AnnotateReceipt \/ ReconcileReceipt
            \/ AnnotateClaim \/ ObserveReceipt \/ StorageStep \/ RecoverReceipt
  BY <1>11 DEF LegacyGivesUp, ReplayReceipt, AnnotateReceipt, ReconcileReceipt,
               AnnotateClaim, ObserveReceipt, MarkUnknown, Observe, StorageStep,
               StartPublication, EndPublication, RetireReceipt, EvictReceipt,
               RecoverReceipt
<1>12. CASE ReaperSelect \/ ReaperSkip \/ CloserStep \/ Tick
  BY <1>12 DEF ReaperSelect, ReaperSkip, CloserStep, CloserSelect, CloserObserve,
               CloserMark, CloserStops, MarkUnknown, Observe, Tick
<1> QED BY <1>1, <1>2, <1>3, <1>4, <1>5, <1>6, <1>7, <1>8, <1>9, <1>10, <1>11, <1>12
        DEF LifecycleNext, HandlerStep, LegacyStep, SettlementStep, ReaperStep

HIDE DEF IInv, TypeOK, ProjectionRowMatchesFacts, RowsAgree, EvidenceHolds,
         ReceiptHolds, OnlyReceiptsFinishRegistered, RetiredReceiptsAreSpent,
         Open, Done, Handling, NoReceipt, NoClaim, RequestType, PendingType,
         ObservedType, GatewayType, ClaimType, ReceiptType, dbVars, gatewayVars,
         upstreamVars, workerVars

\* The invariant always holds.
LEMMA Invariance == Spec => []IInv
BY IInit, INext, PTL DEF Spec

-----------------------------------------------------------------------------
(* The theorems.                                                           *)

\* Once responsibility is registered only a receipt with financial evidence,
\* under the registered contract of the request's last candidate, ends the
\* request (guard in pending_settlement.rs).
THEOREM RegisteredNeedsReceipt == Spec => []OnlyReceiptsFinishRegistered
<1>1. IInv => OnlyReceiptsFinishRegistered
  BY DEF IInv
<1> QED BY <1>1, Invariance, PTL

\* A receipt is deleted only when all it proves is in the database and no
\* publication can bring it back (attempt in pending_terminal.rs).
THEOREM RetiredAreSpent == Spec => []RetiredReceiptsAreSpent
<1>1. IInv => RetiredReceiptsAreSpent
  BY DEF IInv
<1> QED BY <1>1, Invariance, PTL

\* The projection row says what the database knows, in whatever order the
\* annotation, the observation and the finish are written
\* (enqueue_unknown_terminal_projection_in_transaction).
THEOREM ProjectionAgrees == Spec => []ProjectionRowMatchesFacts
<1>1. IInv => ProjectionRowMatchesFacts
  BY DEF IInv
<1> QED BY <1>1, Invariance, PTL

\* The whole path implements RequestOutcome: a request ends once, free only
\* if nothing was executed and charged only if something was, for any number
\* of candidates and under every interleaving of its gateway, the journal, the
\* reaper and the closer (finish_proxy_request_inner and its callers).
THEOREM Refinement == Spec => ImplementsOutcome
<1>1. Init => Outcome!OutcomeInit
  BY DEF Init, Outcome!OutcomeInit
<1>2. IInv /\ [LifecycleNext]_vars => [Outcome!OutcomeNext]_(Outcome!outcomeVars)
  <2> SUFFICES ASSUME IInv, [LifecycleNext]_vars
               PROVE  [Outcome!OutcomeNext]_(Outcome!outcomeVars)
    OBVIOUS
  <2>1. TypeOK'
    BY TypeNext DEF IInv, ProjectionRowMatchesFacts
  <2>2. CASE LifecycleNext
    BY <2>1, <2>2, OutcomeStep
  <2>3. CASE UNCHANGED vars
    BY <2>3 DEF vars, dbVars, upstreamVars, Outcome!outcomeVars
  <2> QED BY <2>2, <2>3
<1> QED BY <1>1, <1>2, Invariance, PTL DEF Spec, ImplementsOutcome, Outcome!OutcomeSpec
=============================================================================
