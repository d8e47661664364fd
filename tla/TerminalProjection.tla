------------------------- MODULE TerminalProjection -------------------------
(***************************************************************************)
(* From a finished request to its read models: the fact and the rollups    *)
(* statistics are served from, the account's lifetime usage and the        *)
(* "finished" event.  Two outboxes lead there: the terminal projection     *)
(* outbox, one row per request, which an unknown outcome may fill          *)
(* provisionally, and the metered usage outbox, one row per metered        *)
(* settlement.  Workers lease rows of both and work in later transactions. *)
(*                                                                         *)
(* One request is modelled: projection transactions serialize on the       *)
(* statistics lock and add to every rollup what the fact says.  Each batch *)
(* runs under a fresh Uuid, so a lease names the worker whose current      *)
(* batch took it; five minutes are LeaseExpires.                           *)
(***************************************************************************)
EXTENDS Integers

CONSTANTS Workers,        \* worker processes
          Usages          \* final usages: charged, displayed, without tokens

ASSUME UsagesAssumption ==
    Usages \subseteq [cost : Nat, shown : Nat, empty : BOOLEAN]

Nobody == "nobody"
Bridge == "terminal-v118"

ASSUME WorkersAssumption == Workers \cap {Nobody, Bridge} = {}

VARIABLES
    settled,      \* "reserved", "settled" (usage only) or "finished"
    registered,   \* the request has a pending_proxy_settlements row
    prepaid,      \* enforcement mode of the reservation
    final,        \* the usage it was settled with
    direct,       \* finished without the terminal outbox
    row,          \* terminal_projection_outbox
    metered,      \* metered_usage_projection_outbox
    fact,         \* request_stats_facts
    rollup,       \* what the request adds to the aggregate tables
    usage,        \* what it adds to account_usage_state
    events,       \* "finished" rows of request_events
    worker        \* what each worker's batch is about to do

settlementVars == <<settled, registered, prepaid, final, direct>>
readVars == <<fact, rollup, events>>
vars == <<settlementVars, row, metered, readVars, usage, worker>>

Unsettled == [cost |-> 0, shown |-> 0, empty |-> TRUE]
NoLease == [by |-> Nobody, live |-> FALSE]
NoRow == [basis |-> "none", usage |-> Unsettled, account |-> FALSE,
          projected |-> FALSE, lease |-> NoLease]
NoFact == [exists |-> FALSE, cost |-> 0, empty |-> TRUE]
NoMetered == [state |-> "none", lease |-> NoLease]

Init ==
    /\ settled = "reserved" /\ registered \in BOOLEAN /\ prepaid \in BOOLEAN
    /\ final = Unsettled /\ direct = FALSE
    /\ row = NoRow /\ metered = NoMetered /\ fact = NoFact
    /\ rollup = [requests |-> 0, cost |-> 0]
    /\ usage = 0 /\ events = 0
    /\ worker = [w \in Workers |-> "idle"]

-----------------------------------------------------------------------------
(* Settlement and what it leaves for the workers.                          *)

\* settle_token_usage_with_explicit_charge: a prepaid charge is posted to
\* the account at once, a metered one waits in its outbox.
SettledMetered == [state |-> "waiting", lease |-> NoLease]

Post(u) == usage' = IF prepaid THEN usage + u.cost ELSE usage

\* The split writer settles without finishing; settle_token_usage refuses a
\* registered request.
SplitSettle(u) ==
    /\ settled = "reserved" /\ ~registered
    /\ settled' = "settled" /\ final' = u
    /\ Post(u)
    /\ metered' = IF prepaid THEN metered ELSE SettledMetered
    /\ UNCHANGED <<registered, prepaid, direct, row, readVars, worker>>

\* MUTANT of TakenOver: the metered row stays with its own workers.
NotTakenOver(m) == m

\* The finish takes an unposted metered row away from the metered workers.
TakenOver(m) ==
    IF m.state = "waiting"
    THEN [state |-> "waiting", lease |-> [by |-> Bridge, live |-> TRUE]]
    ELSE m

\* enqueue_terminal_projection_in_transaction.
FinalRow(u, m) ==
    [basis |-> "final", usage |-> u,
     account |-> prepaid \/ m.state = "posted",
     projected |-> FALSE, lease |-> NoLease]

\* finish_proxy_request_inner with deferred projection; a split settlement
\* has fixed the usage.
FinishDeferred(u) ==
    /\ settled # "finished"
    /\ settled = "settled" => u = final
    /\ LET m == IF settled = "reserved" /\ ~prepaid THEN SettledMetered
                                                    ELSE metered
       IN /\ row' = FinalRow(u, m)
          /\ metered' = TakenOver(m)
    /\ IF settled = "reserved" THEN Post(u) ELSE usage' = usage
    /\ settled' = "finished" /\ final' = u
    /\ UNCHANGED <<registered, prepaid, direct, readVars, worker>>

Displayed(u) == [exists |-> TRUE, cost |-> u.shown, empty |-> u.empty]

\* Metered requests are aggregated by the metered workers.
Aggregated(u) ==
    IF prepaid THEN [requests |-> 1, cost |-> u.shown] ELSE rollup

\* The same with the projection disabled, which a registered request ignores:
\* the fact and the event are written by the finish itself.
FinishDirect(u) ==
    /\ settled # "finished" /\ ~registered
    /\ settled = "settled" => u = final
    /\ fact' = Displayed(u) /\ rollup' = Aggregated(u)
    /\ events' = events + 1
    /\ metered' = IF settled = "reserved" /\ ~prepaid THEN SettledMetered
                                                      ELSE metered
    /\ IF settled = "reserved" THEN Post(u) ELSE usage' = usage
    /\ settled' = "finished" /\ final' = u /\ direct' = TRUE
    /\ UNCHANGED <<registered, prepaid, row, worker>>

\* enqueue_unknown_terminal_projection_in_transaction: the end of a
\* registered request was observed and its outcome marked unknown.
EnqueueUnknown ==
    /\ settled = "reserved" /\ registered /\ row.basis = "none"
    /\ row' = [basis |-> "unknown", usage |-> Unsettled, account |-> TRUE,
               projected |-> FALSE, lease |-> NoLease]
    /\ UNCHANGED <<settlementVars, metered, readVars, usage, worker>>

-----------------------------------------------------------------------------
(* The workers.                                                            *)

Lease(w) == [by |-> w, live |-> TRUE]

\* claim_terminal_projection_tasks.
ClaimTerminal(w) ==
    /\ worker[w] = "idle"
    /\ row.basis # "none" /\ ~row.projected /\ ~row.lease.live
    /\ row' = [row EXCEPT !.lease = Lease(w)]
    /\ worker' = [worker EXCEPT ![w] = "account"]
    /\ UNCHANGED <<settlementVars, metered, readVars, usage>>

OwnsRow(w) == ~row.projected /\ row.lease = Lease(w)

\* MUTANT of Acknowledged: only the lease is given back.
LeaseReturned == [state |-> "waiting", lease |-> NoLease]

Acknowledged == [state |-> "posted", lease |-> NoLease]

\* project_terminal_account_receipt: posts a metered charge that the bridge
\* holds and acknowledges both rows.
ProjectAccount(w) ==
    /\ worker[w] = "account" /\ OwnsRow(w)
    /\ IF row.account
       THEN UNCHANGED <<usage, metered, row>>
       ELSE /\ metered.state = "waiting" /\ metered.lease.by = Bridge
            /\ row.usage.cost = final.cost
            /\ usage' = usage + row.usage.cost
            /\ metered' = Acknowledged
            /\ row' = [row EXCEPT !.account = TRUE]
    /\ worker' = [worker EXCEPT ![w] = "statistics"]
    /\ UNCHANGED <<settlementVars, readVars>>

\* project_metered_request_fact_in_transaction: -1 for the fact that is
\* replaced, +1 for the new one.
Replaced(u) ==
    [requests |-> rollup.requests + 1 - (IF fact.exists THEN 1 ELSE 0),
     cost |-> rollup.cost + u.shown - (IF fact.exists THEN fact.cost ELSE 0)]

\* A fact may only be replaced if it is the empty one of an unknown outcome.
Replaceable == fact.exists => registered /\ fact.cost = 0 /\ fact.empty

\* The event of a request that was announced stays the only one.
Announced == IF events = 0 THEN 1 ELSE events

\* project_claimed_terminal_projection_task after the account receipt.
ProjectStatistics(w) ==
    /\ worker[w] = "statistics" /\ OwnsRow(w)
    /\ Replaceable /\ row.account
    /\ fact' = Displayed(row.usage) /\ rollup' = Replaced(row.usage)
    /\ events' = Announced
    /\ row' = [row EXCEPT !.projected = TRUE, !.lease = NoLease]
    /\ worker' = [worker EXCEPT ![w] = "idle"]
    /\ UNCHANGED <<settlementVars, metered, usage>>

\* claim_metered_usage_projection_tasks; the bridge's lease never expires.
ClaimMetered(w) ==
    /\ worker[w] = "idle"
    /\ metered.state = "waiting" /\ ~metered.lease.live
    /\ metered' = [metered EXCEPT !.lease = Lease(w)]
    /\ worker' = [worker EXCEPT ![w] = "metered"]
    /\ UNCHANGED <<settlementVars, row, readVars, usage>>

\* project_claimed_metered_usage_projection_task: a request outside the
\* terminal outbox must have the fact its settlement implies.
ProjectMetered(w) ==
    /\ worker[w] = "metered"
    /\ metered.state = "waiting" /\ metered.lease = Lease(w)
    /\ row.basis = "none" => fact = Displayed(final)
    /\ usage' = usage + final.cost
    /\ rollup' = IF row.basis = "none"
                 THEN [requests |-> rollup.requests + 1,
                       cost |-> rollup.cost + fact.cost]
                 ELSE rollup
    /\ metered' = Acknowledged
    /\ worker' = [worker EXCEPT ![w] = "idle"]
    /\ UNCHANGED <<settlementVars, row, fact, events>>

\* A lost lease, a conflict, a database failure or the process's death ends
\* the batch; the rows keep their leases.
BatchEnds(w) ==
    /\ worker[w] # "idle"
    /\ worker' = [worker EXCEPT ![w] = "idle"]
    /\ UNCHANGED <<settlementVars, row, metered, readVars, usage>>

LeaseExpires ==
    /\ \/ /\ row.lease.live
          /\ row' = [row EXCEPT !.lease = [by |-> row.lease.by,
                                           live |-> FALSE]]
          /\ UNCHANGED metered
       \/ /\ metered.lease.live /\ metered.lease.by # Bridge
          /\ metered' = [metered EXCEPT !.lease = [by |-> metered.lease.by,
                                                   live |-> FALSE]]
          /\ UNCHANGED row
    /\ UNCHANGED <<settlementVars, readVars, usage, worker>>

-----------------------------------------------------------------------------
WorkerStep(w) ==
    \/ ClaimTerminal(w) \/ ProjectAccount(w) \/ ProjectStatistics(w)
    \/ ClaimMetered(w) \/ ProjectMetered(w) \/ BatchEnds(w)

ProjectionNext ==
    \/ EnqueueUnknown
    \/ \E u \in Usages : SplitSettle(u) \/ FinishDeferred(u) \/ FinishDirect(u)
    \/ \E w \in Workers : WorkerStep(w)
    \/ LeaseExpires

Spec == Init /\ [][ProjectionNext]_vars

\* The workers run every few seconds and time passes; a batch may fail, but
\* the pool of workers does not fail at the same place every time.  Nothing
\* makes a request end.
Fairness ==
    /\ WF_vars(LeaseExpires)
    /\ WF_vars(\E w \in Workers : BatchEnds(w))
    /\ SF_vars(\E w \in Workers : ClaimTerminal(w))
    /\ SF_vars(\E w \in Workers : ClaimMetered(w))
    /\ SF_vars(\E w \in Workers : ProjectAccount(w))
    /\ SF_vars(\E w \in Workers : ProjectStatistics(w))
    /\ SF_vars(\E w \in Workers : ProjectMetered(w))

FairSpec == Spec /\ Fairness

-----------------------------------------------------------------------------
(* Properties.                                                             *)

LeaseType == [by : Workers \cup {Nobody, Bridge}, live : BOOLEAN]
UsageType == [cost : Nat, shown : Nat, empty : BOOLEAN]

\* Every row keeps its shape and no aggregate ever counts the request twice
\* or less than zero times.
TypeOK ==
    /\ settled \in {"reserved", "settled", "finished"}
    /\ registered \in BOOLEAN /\ prepaid \in BOOLEAN /\ direct \in BOOLEAN
    /\ final \in UsageType
    /\ row \in [basis : {"none", "unknown", "final"}, usage : UsageType,
                account : BOOLEAN, projected : BOOLEAN, lease : LeaseType]
    /\ metered \in [state : {"none", "waiting", "posted"}, lease : LeaseType]
    /\ fact \in [exists : BOOLEAN, cost : Nat, empty : BOOLEAN]
    /\ rollup \in [requests : 0..1, cost : Nat]
    /\ usage \in Nat /\ events \in Nat
    /\ worker \in [Workers -> {"idle", "account", "statistics", "metered"}]

\* What the rollups count for the request is exactly its fact, once, however
\* often the row was projected, replaced or claimed by several workers; a
\* directly finished metered request joins them with its account posting
\* (project_metered_request_fact_in_transaction).
RollupsMatchFact ==
    LET counted == fact.exists /\ (direct /\ ~prepaid => metered.state = "posted")
    IN rollup = IF counted THEN [requests |-> 1, cost |-> fact.cost]
                           ELSE [requests |-> 0, cost |-> 0]

\* The account's lifetime usage receives the charge exactly once: at the
\* settlement of a prepaid request, with the acknowledgement of its outbox
\* row for a metered one, whichever of the two outboxes posts it ("separate
\* worker processes may claim the two outboxes in either order").
UsagePostedOnce ==
    usage = IF settled # "reserved" /\ (prepaid \/ metered.state = "posted")
            THEN final.cost ELSE 0

\* A request is announced as finished at most once, and never before a read
\* model can answer for it.
AnnouncedOnce == events = IF fact.exists THEN 1 ELSE 0

\* An acknowledged row is what statistics and account show: a provisional
\* projection that a final row has replaced does not count as its
\* acknowledgement (lease_owner and projected_at are reset by the upsert).
AcknowledgedRowsAreShown ==
    row.projected =>
        /\ fact = Displayed(row.usage)
        /\ row.basis = "final" => /\ row.usage = final
                                  /\ usage = final.cost

\* Rollups, account and announcements hold the request exactly once, as its
\* acknowledged row says, whichever workers claim, lose and repeat its
\* projection; the rows have their shape.
AppliedOnce ==
    TypeOK /\ RollupsMatchFact /\ UsagePostedOnce /\ AnnouncedOnce /\ AcknowledgedRowsAreShown

\* Every finished request eventually has its final usage in the fact, in the
\* rollups and in the account, through worker deaths and lost leases.
EventuallyShown ==
    settled = "finished" ~>
        /\ fact = Displayed(final) /\ usage = final.cost
        /\ rollup = [requests |-> 1, cost |-> final.shown]
=============================================================================
