# TLA+ verification of the token gateway

This directory holds TLA+ models of the parts of the gateway that move money,
that decide what became of a request and that keep what cannot be asked for
twice (a generated result, an archived body, a refresh token, a reset credit), the TLC configurations that check them and
the TLAPS proofs about them. `PROJECT.json` lists runs, mutants, hazards and the
source lines of every definition. Paths below are relative to the crate
(`src/src/` in `PROJECT.json`).

Run a model with `tlc -config X.cfg MCModule`, the proofs with
`tlapm BillingProofs.tla` and likewise for the other `*Proofs` modules.

## 1. The system

A client calls the gateway with an API key; the gateway reserves usage, forwards
the request to one of several upstream accounts, streams the answer back and
settles the reservation. Several gateway processes and a worker process share
one database (SQLite or PostgreSQL) and an object store.

| Component | State it keeps | Operations that change it | What makes it hard |
|---|---|---|---|
| usage reservation and settlement (`db/requests/settlement.rs`) | `usage_reservations`, `credit_accounts`, `key_budget_state`, daily rollups, usage events, rate windows | reserve, resize, settle (prepaid, metered), cleanup | many requests of one key against shared budgets; charges above their hold; a rolling week cut through a day; cleanup in batches |
| credit ledger (`db/billing/ledger.rs`) | `ledger_entries`, `account_usage_state` | grant, reverse, projection of metered charges | a reversal must see charges that are settled and not yet projected |
| subscription entitlements (`db/billing/entitlements.rs`) | `subscription_entitlements`, `entitlement_cycles`, allocations | reconcile, cloud snapshot, cancel, replace | revoking credit that requests hold, overspend or already drew from |
| settlement adjustments (`db/billing/settlement_adjustments/`) | adjustment states, baselines | reconcile a rebate | several namespaces; rebates that come after the cycle they return to has ended |
| key policies (`db/credentials/keys.rs`) | `key_records` | edit | a request works with the copy it was authenticated with |
| request rows and owner lease (`db/requests/lifecycle.rs`, `owner.rs`, `proxy_lifecycle/owner.rs`) | `request_records` | admit, acquire, renew, switch candidate, finish | lost acknowledgements, lost leases |
| pending settlement registration (`db/requests/pending_settlement.rs`) | `pending_proxy_settlements` | claim, annotate unknown, apply | fences and contract digests against later switches |
| receipt journal (`proxy_lifecycle/pending_terminal.rs`) | claims and receipts in memory, stored receipts | capture, publish, observe, settle, retire, evict, recover | process death between any two of these; publications that run late |
| request handler (`api/proxy.rs`, `api/proxy/lifecycle/`, `api/proxy/routing/admission.rs`, `api/proxy/streaming*`) | the cancellation guard | select, dispatch, classify, submit, cancel | failover after an ambiguous attempt; client gone; lifecycle deadline |
| operational terminals and the closer (`db/requests/operational_terminal.rs`) | `proxy_operational_terminals` | observe, close expired owners | two transactions, the second of which may fail |
| orphan reaper (`release_orphaned_reservations`) | - | select, finish | acts on a selection that may be stale |
| terminal and metered projection (`db/requests/terminal_projection.rs`, `metered_projection.rs`, `worker.rs`) | two outboxes, facts, rollups, events | claim, project account, project statistics | two outboxes for one charge, leases that expire, provisional rows replaced by final ones |
| generation jobs (`generation.rs`, `db/generation/jobs.rs`, `jobs/finish.rs`, `reconcile.rs`) | `generation_jobs` with a worker lease, an unknown-delivery quarantine, provider receipts | claim, submit, poll, finish, reschedule, cancel, reconcile | a submission whose outcome is unknown; workers that act on a claimed copy; customer and operator beside them |
| archive staging and reaper (`db/archive_staging.rs`, `archive_reaper.rs`, the preparation half of `jobs.rs`) | `archive_staging_attempts`, objects under one prefix per attempt | begin, write, bind, abandon, promote, claim, prove, delete | objects that land after their writer was given up; commits without an answer |
| response archive spool (`db/archive_spool.rs`, `reservations.rs`, `response_archive_spool/`) | spools, chunks, a byte budget, reservations, `response_object` | append, seal, fail, reserve, capture, claim, bind, retry, collect | seals without an answer, uploads that bind late, a budget shared by all |
| managed OAuth refresh (`db/providers/oauth.rs`, `api/upstreams/oauth.rs`, `db/rotation.rs`, `worker.rs`) | credential generations, `upstream_oauth_refresh_leases`, rotation replays | claim, mark started, send, stage, install, abort, take over; reauthorize, rotate, disconnect, reseal | a refresh token can be used once; processes die after using it |
| supplier quota reset (`upstream_quota/reset.rs`, `db/upstream_quota_reset.rs`, `db/plugin_background_actions.rs`, `plugin/background_actions.rs`) | `upstream_quota_reset_operations`, `plugin_background_action_grants`, completions in memory | prepare, refresh, confirm, claim, dispatch, finish, reconcile, release; grant and lease of a plugin's tick | a credit must not be spent twice and the supplier does not deduplicate; confirmations, ticks and retried completions meet on one row |
| routing and upstream health, concurrency, quota readings | health rows, quota samples | read, sample | breakers are only opened by test code (section 6) |
| read models, conversations, pricing, plugins, login sessions, HTTP API, web console, migrations | - | - | mostly I/O or presentation |

How they interact: a request is **admitted** in one transaction that reserves
usage and inserts the request row; the handler **acquires** an owner lease that
a heartbeat renews. Before an upstream send it **registers** financial
responsibility (`pending_proxy_settlements`). From then on nothing but a receipt
of the journal may finish the request: the journal stores the receipt, records
the operational end, and **settles** when the receipt carries evidence (usage
reported by the provider, or a transport that delivered nothing), else
**annotates** the registration as unknown. Requests without a registration are
finished by the handler, by a background cancellation or, after thirty minutes,
by the **reaper**; registered requests whose lease expired are recorded as ended
by the **closer**. The finish enqueues a projection; **workers** bring it into
facts, rollups, account usage and the event feed.

A **generation** is prepared like a request: one transaction reserves usage and
inserts the job, the request body is **staged** under a prefix of its own and
**attached**, which queues the job. A worker leases the job, marks it, arms the
**quarantine** and only then submits it; a task id or an explicit rejection
disarms the quarantine, anything else leaves the job to the operator. The body
of a proxied answer is **spooled** into the database while it is streamed and
**uploaded** afterwards; the end of the request and the upload both write the
request's locator. Upstream credentials that expire are **refreshed** by the
worker or by a caller of the control API, one at a time per generation. A supplier
**reset** is prepared and confirmed by an operator, or by a worker on behalf of a
plugin; a reading of the quota that shows fewer credits settles it.

What has to be right, per component:

- *money*: balance and ledger agree; nothing is overdrawn; a settled request is
  booked once; budgets of a key hold against concurrent requests, also while
  windows roll and old rows are deleted; credit that subscriptions, charges and
  rebates move around is conserved and lapsed credit stays lapsed;
- *outcome*: a request ends once; it is free only if nothing was executed
  upstream and charged only if something was; every request ends or is recorded
  as ended;
- *once*: a generation is submitted at most once and not refunded while its
  delivery is unknown; a refresh token is sent at most once and what it was
  exchanged for is not lost; a reset operation is sent to the supplier at most
  once, alone on its account;
- *archive*: a locator names a whole, stored body; budget and prefixes of bodies
  nobody finished are given back;
- *read models*: what statistics, account usage and events show is the final
  outcome, exactly once.

## 2. Modules

| Module | Models | Lines of code it stands for |
|---|---|---|
| `UsageSettlement` | holds, budgets, rate windows, charges, grants, cleanup | `settlement.rs`, `ledger.rs`, `keys.rs` |
| `Entitlements` (extends it) | billing cycles and rebates beside the same settlements | `entitlements.rs`, `settlement_adjustments/`, the feed's publishing rule |
| `RequestOutcome` | the promise about one request's money (abstract specification) | - |
| `ProxyLifecycle` | one request from admission to its terminal facts, with handler, journal, provider, reaper and closer | `lifecycle.rs`, `pending_settlement.rs`, `operational_terminal.rs`, `owner.rs`, `pending_terminal.rs`, `cancellation.rs`, `proxy.rs`, `streaming*` |
| `TerminalProjection` | the two outboxes of one request and their workers | `terminal_projection.rs`, `metered_projection.rs`, the end of `lifecycle.rs`, `worker.rs` |
| `GenerationJobs` | one asynchronous generation with workers, customer, operator and provider | `generation.rs`, `db/generation/jobs.rs`, `jobs/finish.rs`, `reconcile.rs` |
| `ArchiveStaging` | the staged request of one generation, its callers and the reaper | `db/archive_staging.rs`, `archive_reaper.rs`, the preparation half of `jobs.rs`, `api/generation/jobs.rs` |
| `ArchiveSpool` | the spool of response bodies, its budget, writers and upload workers | `db/archive_spool.rs`, `reservations.rs`, `producer.rs`, `upload.rs`, the locator of `lifecycle.rs` |
| `OAuthRefresh` | the refresh of one managed credential beside its operators | `db/providers/oauth.rs`, `accounts.rs`, `api/upstreams/oauth.rs`, `rotation.rs`, `worker.rs` |
| `QuotaReset` | the reset operations of one account, operators and plugin ticks | `upstream_quota/reset.rs`, `db/upstream_quota_reset.rs`, `plugin_background_actions.rs`, `background_actions.rs`, `worker.rs` |
| `BillingProofs` | theorems about `UsageSettlement` and `Entitlements` | - |
| `<Module>Proofs` | theorems about each of the other components (section 5) | - |
| `MC*` | instances for TLC | - |

### UsageSettlement

One variable per table (comments at the declarations). Every operation is one
database transaction which locks the key row and then the account row, so each
is one action, and an error rolls everything back, so error paths are the guards.
`now` is the clock transactions read. `admission` keeps the policy copy of an
authenticated request: admission and resizes use it, settlements read the
current policy, as the code does. The charge is defined by what it is (the
largest part of the calculated price that balance and budgets can pay,
`IsCharge`), not by the sequence of minima in the code. Cycles are drawn in the
code's order (`DrawnBefore`: earliest end, then id).

`settle_confirmed_image_charge` is a settlement that is refused unless it is
charged in full; it adds no outcome. 64-bit overflow is refused by the code
before anything changes, and amounts are unbounded in the model.

`FiniteAssumption` says that tables have finitely many rows, so that sums over
them exist. `TimeAssumption` asks that a rate window that may be deleted is over
(`MinuteLen <= RateRetention + 1`; the code keeps one-minute windows two days):
otherwise cleanup would take requests out of a window that still gates admission.

### Entitlements

Adds `sub`, `rebate` and `baseline`. A cycle identity has a fixed period (the
code refuses to change it). A reconciliation revokes what is left of the
subscription's other active cycles and then funds the reported one, each step
guarded by the balance as in `adjust_entitlement_cycle`; the order matters and
is kept (`Snapshot`). `current` in a cycle row is the join of a settlement with
the subscription row. A repeated Idempotency-Key or an equal version replays the
stored answer: a stuttering step.

### ProxyLifecycle and RequestOutcome

Requests share only the balances and windows of `UsageSettlement`, so one
request is modelled. Every transaction starts by updating the request row and is
one action; what a worker selects before that transaction is kept in a variable
(`reaper`, `closer`), so it can be stale. A candidate stands for everything the
contract digest covers. `fence` counts registrations; the code's random fence
only has to differ. `executed` records what the provider did and is read by no
action of the gateway. A lost acknowledgement is the `acknowledged = FALSE`
instance of an action.

Details that are deliberate:

- the heartbeat's `lost` signal has no receiver, so a handler goes on without a
  lease; the closer does not recheck the lease in its second transaction; a new
  registration keeps the row's annotation. The model does the same.
- `Evidence` has no case for the `GatewayPreAdmission` cause: no terminal of a
  proxied request carries it.
- a receipt's conversation is reduced to the fact that its preparation may cause
  another publication at any time.
- the recovery of a stored acknowledgement is reduced to settling again, which
  finds the receipt applied (`ReplayReceipt`).
- `Crash` lets a write in flight reach the store or not, before recovery.
- `prepare_proxy_delivery`, `mark_proxy_delivery_started` and
  `reassign_pending_proxy_upstream` have no caller outside tests and are left
  out, so `finish_unobserved_proxy_request` always takes the branch of a request
  whose delivery was not started.
- metered synchronous requests (images, audio) have a send fence of their own
  and are not modelled yet.

### TerminalProjection

The settlement, the two outbox rows, the fact, its rollups, the account's usage
and the events of one request, and workers that claim and project. `SplitSettle`
is the older writer that settles and finishes in two transactions and whose
branch the finish still has. Session and conversation rollups move with the
others and are left out; so is the branch for pruned requests, whose maintenance
refuses to run while unprojected rows exist. A provisional projection of an
unknown outcome emits the finished event; the final one does not emit another,
so the event keeps the provisional figures (`AnnouncedOnce`, a part of
`AppliedOnce`, states the count, not the content).

### GenerationJobs

One job, from the queue to its terminal. `job` is the row, `worker` what each
worker carries: its place in `process_one` and the status and failure count of
the row it claimed, which the later steps use although the row may have changed.
`posts`, `post` and `provider` are what reaches the provider and are read only
through answers. A lease is none, live or expired: the clock is abstracted to
the order of expiry and the other steps. A driver is a record of what the code
tells drivers apart by: whether it declares provable idempotency, whether a row
found in `submitting` is submitted again, whether it cancels, and whether it is
billed by provider receipts. Even the drivers that submit again send one POST:
the quarantine of the first keeps the row from being claimed.

`ArchiveStaging` ends where `GenerationJobs` starts: `FinishJob` there stands for
all terminals of this module, and `Attached` here is what its attachment leaves.
Staging and delivery of result assets is reduced to the two results of a poll
(`success`, `undeliverable`).

### ArchiveStaging

One job and one attempt per caller: a second caller is a repetition with the same
Idempotency-Key. `store` holds the attempts whose object exists. A write that was
given up may still land, at most one heartbeat later; the reaper's delays are
`wait` (the empty-stability window and the stale-writer grace are longer than a
heartbeat, the retry delay is not). One try of the attachment is one action;
`tries > 0` is the code's `indeterminate`. A try that commits nothing
(`AttachUnreached`) is repeated if its connection broke under `begin` or the
promoting `UPDATE`; any other error of it is returned at once, whatever an earlier
try may have committed. So a handler ends in one of two ways besides acceptance:
`refused` by a conflict or a staging error of its own, or `failed` by a database error
of the attachment. Both make the client see an error.

### ArchiveSpool

`spool`, `stored` (chunk rows with their place in the body and their size),
`budget`, `reserved` and `record` (the request's completion and locator) are
tables; a locator is the token of the upload that wrote it. A body is streamed (`seal`, `abandon`, appends) or buffered
(check, collect one lapsed reservation, reserve, capture, release, again; a failed
step starts over). `Commits` gives every transaction its
three outcomes: committed, committed without an answer, failed. `late` holds
binding transactions whose worker stopped waiting. Sizes are small numbers that
stand for ciphertext bytes; `WorstChunk` is what a reservation assumes, and `Total`
counts the bytes of a set of rows. A batch of the collector takes any number of a
spool's first chunks: how many is decided by `GC_CHUNK_LIMIT` and `GC_BYTE_LIMIT`.
The requests are finitely many.

### OAuthRefresh

One account. Refresh tokens are numbered; `parent` says which token each was
exchanged for, `posted` and `twice` what reached the authorization server. The
server is assumed to rotate: an exchanged token is void. (A server that returns no
new refresh token keeps the old one usable, and repetition is then harmless.)
`driver` separates the one client that can prove that a failed connection
carried nothing from the others. `calls` and `claims` bound callers and name
takeover keys. `twice` collects the tokens that reached the server again;
`TokenSpentOnce` says that the account never holds one of them. A token that was
replaced is void, and a stalled caller may still spend it (section 4), so
`RefreshReplacesItsOwn` is stated for the keys that the worker makes up and not
for the Idempotency-Keys of callers.

### QuotaReset

One account. `op` has one row per Idempotency-Key of an operator and one per credit
that the plugin picks (its key is made from the credit's fingerprint). The copies
of the account that tasks and rows carry are compared with the account and nothing
else, so a copy is reduced to whether it is still `current`; editing the account
ends that for all of them and needs no counter. The supplier may report any number
of credits at any read. A call that reads the supplier and then updates a row on
condition that the account is unchanged (observation, reconciliation, release) is
therefore one action: its update. The same holds for an operator's preparation,
whose copy may be outdated when it inserts. Confirmations and ticks are tasks with a
program counter, because they carry a decision from the row they read to the claim
and from the claim to the outcome. `loops` are the completions that a dropped future
left to be retried; `owns` says whether the claim's audit row carries its nonce.
`posts` and `success` are history. The assumption that some operator key or credit
exists only makes sure that there is an operation to talk about. There is one plugin:
grants are kept per plugin, tenant and account, so "no credit is posted twice" is a
statement about the choices of each plugin by itself. A tick that cannot record its
end keeps its lease until that runs out.

In `ArchiveStaging`, `ArchiveSpool` and `OAuthRefresh` one counter `faults` bounds crashes, stalls, failed and
unacknowledged operations together, so that any two of them combine.

## 3. Runs

All runs use `-workers 2` and end within the stated bounds.
Deadlock checking is off because every model may legitimately stop: the clock,
the requests and the versions of an instance are finite.

| Run | Instance | Shows |
|---|---|---|
| `usage_budgets` | 2 keys of one account, 3 requests, daily < weekly budget, days of 2 ticks, weeks of 2 days, horizon 6, a grant | the daily and weekly figures stay exact over rollovers and batched cleanup; no step takes a key past a budget; two keys do not overdraw their account |
| `usage_modes` | 1 key moved between limited prepaid and unlimited, 3 requests, rate windows of one tick that are deleted at once, a grant | rate windows and holds match the reservations that own them; balance = ledger; usage booked once; reversals only of unused credit; the lifetime budget |
| `entitlements` | 2 subscriptions, 3 overlapping cycles, 2 charges, 2 namespaces, versions up to 2 | funding covers consumption and only the current cycle is active; credit is conserved; consumption is allocated and generic funding returned first; only a rebate may overdraw; lapsed rights stay lapsed |
| `lifecycle` | 2 candidates, one selection after the first, crash, unmarked close, fair | the outcome refinement, the safety of registration, retirement and provisional rows; every admitted request is recorded as ended, and settled or annotated except in the cases the two violations describe |
| `lifecycle_undelivered` | 2 candidates, no crash, fair | **violation**: an undelivered request is never released |
| `lifecycle_lost_owner` | 1 candidate, crash, fair | **violation**: a dead gateway's registration is never annotated |
| `projection` | 3 workers, 4 usages, all modes, fair | facts, rollups, usage and events each applied once, and eventually |
| `generation_jobs` | 2 workers, every kind of driver, 2 failures, a dropped attempt, a stall, fair | at most one submission, no refund of an unknown delivery, terminals that match the provider, an end |
| `archive_staging` | 2 callers, 1 reaper, 2 tries, 2 faults, fair | a queued request is stored, a cleaned prefix stays empty, a refused client has queued no job, nothing is left behind |
| `archive_spool` | 1 request, 2 upload workers, 2 chunks of 2 sizes, 2 faults, fair | the budget is the sum of what is stored and reserved and returns to zero; sealed bodies survive their writer; bound bodies are whole and keep their locator |
| `quota_reset` | 2 confirmations, 1 worker, 1 operator key, 1 credit | an operation is posted at most once, is accepted only on the supplier's word, while it is being sent it is the only open one of its account, and it has an owner until its outcome is recorded, except where a process died |
| `oauth_refresh` | 1 worker, 1 caller with 2 calls, 2 drivers, 3 generations, 2 faults, fair | no token is sent twice and one that may be spent stays fenced, results are neither lost nor installed over a newer login, expiring credentials are refreshed |

**Bounds.** Three requests of a key are needed for a budget error that involves
a settled, a held and an asked-for amount; two keys for a balance that is shared;
limits are chosen so that one request fits, two compete and three do not; the
horizon of `usage_budgets` lets a week start, cut a day and pass it, with
cleanup in between. Charges of zero, at, below and above the hold occur. Two
cycles that end at different times and a charge above the first are the least
that makes the draw order and the rollback order visible. Two candidates with
different ceilings make every stale comparison observable (the safety properties
were also checked once with two further selections and a longer horizon, 1.3
million states, with the same result). `LeaseLen` and
`OrphanAge` of one tick let either expire first. Three workers are the two
outboxes' owners and a successor. Two workers and one stall give a generation a
stale owner and a new one; two failures reach the retry limit from both sides.
Two faults are a lost acknowledgement and the crash, stall or lost answer of
whoever has to repair it; two chunks are the least that makes a body partial; two
callers are an original and its repetition. Three generations let a refresh meet
a replacement of its credential and the refresh after it. Two confirmations are a
call and its repetition beside a tick; `QuotaReset` has no counter to bound.

**Symmetry** is used for reservations of one key, namespaces and the tasks of
operators, only
in runs without liveness properties; no definition tells members of these sets
apart. In `entitlements` the settlements share one key; in `usage_budgets` only
the two reservations of the second key are exchanged.

**Fairness.** `ProxyLifecycle`: the handler is bounded by the lifecycle deadline
(weak fairness of its steps together), the journal retries every second, the
periodic workers run as long as the service, the clock ticks. Where a worker may
drop its selection and start over (reaper, settlement attempts, observation)
strong fairness says it is not dropped every time. Nothing obliges a renewal, a
publication or an admission. `TerminalProjection`: leases expire; batches end;
a step that some worker can take again and again is eventually taken by one
(strong fairness of the pool, since a batch may end at any point; no single
worker is assumed to survive). Nothing makes a request end. The other
modules with liveness: a process that has started goes on until it is done or dies, the
periodic workers run again, time passes (leases, retries and deadlines come due);
weak fairness says this of each. Steps that need luck are not assumed: nothing
obliges the customer, the operator, a provider that answers or a process to die,
and errors end because `MaxFaults` or the code's own retry limit does.
`ExpiringIsRefreshed` is stated for one worker process (see section 4). `QuotaReset`
states no liveness: what must not be lost is the owner of an outcome, an invariant.

**Type invariants.** Every module has one, `TypeOK`. `usage_modes` checks that of
`UsageSettlement` by itself, since it is also a theorem; in the other modules it
is a conjunct of one of the checked invariants (`ProjectionRowMatchesFacts`,
`AppliedOnce`, `TerminalMatchesProvider`, `QueuedRequestsAreStored`,
`BudgetIsExact`, `TokenSpentOnce`, `DispatchedOnce`). `Entitlements` adds its own relations
between rows in `FundingCoversConsumption`.

**Mutants.** Every property of a passing run is broken by at least one plausible
bug in a mapped definition (listed in `PROJECT.json`; the mutated forms stand
before the definitions they replace).

## 4. What the violations show

- `UndeliveredIsReleased`: `pending_terminal.rs` says that explicit transport
  non-delivery permits a zero-cost settlement. If a candidate switch commits
  after the last undelivered send and the request ends before the new candidate
  is registered (budget expired, no dispatch permit), the receipt carries the
  old contract, `guard` recomputes it from the changed rows and every attempt is
  a conflict. The hold stays.
- `LostOwnerIsAnnotated`: the closer promises that a dead gateway's request is
  recorded as ended with its billing unknown. It only selects rows without an
  observation; a gateway that dies after the observation and before its receipt
  is stored leaves a registration that nobody annotates or settles.

More observations, which no run isolates:

- a client can be told of a failure although its generation is queued.
  `create_generation` reports the known job as accepted when the outcome of the
  attachment is unknown; this, says `api/generation/jobs.rs:215`, "prevents a
  no-idempotency retry from duplicating a queued job after a lost database commit
  ACK". `attach_generation_job_request_staged` remembers a lost acknowledgement
  (`indeterminate`) but returns most errors of a later try without looking at it
  (`jobs.rs:486`, `488`, `503`, `505`; `455`, `475` and `525` for errors that are not
  broken connections). Two faults are enough, and TLC finds them if `failed` is added
  to `RefusalMeansNotQueued`: the commit that queues the job is not acknowledged,
  the next try meets a database error, `fail_generation_job_preparation` finds the job
  no longer preparing, and the client gets the error while the job runs. What holds,
  and is proved, is that the refusals the handler decides on itself are never for a
  queued job;
- an adjustment is meant to be refused when its "funding reduction exceeds rebate
  delta" (`settlement_adjustments/mod.rs`), but a signed `checked_sub` fails only on
  overflow. A rebate that reaches a cycle still stored as active whose period is over
  takes back all its unspent funding, and the update of the balance has no lower
  bound: the rebate can debit the account. `OnlyRebatesOverdraw` shows that nothing
  else can;
- a confirmation that reads an expired row claims it without a completion, expecting
  a replay. If another tick prepares the row again in between (the grant was put
  again, so the lease moved on), the claim succeeds, the call ends with
  `reset_confirm_1` and the row stays submitted: nothing was sent, no operator may
  release it and the account takes no other reset. `ClaimReplay` models it and marks
  the row `lost`; it takes two workers, more than the instance has;
- a renewal can be refused as "no longer revocable" when credit of a lapsed cycle
  was spent without being drawn from it;
- the local copy of a retired receipt may be published again by recovery, where
  it replays and is retired again;
- a caller whose staging lease was lost reports a failure by failing the job,
  also if another caller of the same Idempotency-Key has taken the preparation
  over (`fail_generation_job_preparation` looks only at the status);
- a job in `cancelling` whose driver has no cancellation endpoint stays there
  with its hold: it is retried for ever and the deadline does not apply to it.
  `EventuallyAtRest` counts it as at rest;
- `disconnect_upstream_oauth` does not advance the generation, so a refresh that
  was under way installs a credential that is not revoked; the account stays
  disabled;
- a process that dies between the claim of a reset and its outcome leaves the row
  submitted for good; neither a start nor `recover` resolves it
  (`SubmittedHasOwner` exempts it). Within the scope of its dispatch an accepted
  reset is settled by any lower count, also by one that was read before the
  operation was prepared;
- the mark before a dispatch (`mark_upstream_oauth_refresh_request_started`,
  `db/providers/oauth.rs:1036`) finds the lease by its key and by the account's
  *current* generation, not by the generation that the task has claimed.
  `docs/oauth-refresh-diagnostics.md:141` says: "Before a new remote exchange, its
  selected generation must still match the locked account row; manual
  authorization installed after selection is preserved". With two callers and a
  worker TLC finds this sequence: a call claims the Idempotency-Key `k` for
  generation 1, loads the token and stalls past its lease before the mark; the
  account is authorized again (generation 2); a worker that had listed the lease
  recovers `k`, finds it in progress and aborts the expired claim with its replay
  row; a repetition of the call claims `k` for generation 2; the stalled call then
  passes the mark, spends the old token, and its result is installed over the new
  authorization. A key of the worker's own contains the generation, which is why
  the theorem about `RefreshReplacesItsOwn` holds for those;
- `abort_upstream_oauth_refresh` names a claim only by its key. Two workers that
  share the worker key of a generation can delete each other's undispatched
  claims again and again; nothing is sent twice, but no fairness of the single
  steps excludes it, so the liveness property is checked with one worker.

## 5. Proofs

Every safety property of the passing runs is a theorem, for all values of the
constants that satisfy the named assumptions at the head of each module: any number of accounts, keys, rows, workers, callers,
candidates, any amounts, limits and fault bounds. Each proof has the same shape:
an inductive invariant, a lemma that it holds at first, one lemma per action (or
group of actions that touch the same tables) that keeps it, and the theorem from
these with temporal logic. Where an invariant adds anything to the properties, TLC
checked it as an invariant of the run's instance before it was proved.

### Billing

`BillingProofs` is about `UsageSettlement` and `Entitlements`, which extends it.

*Sums.* Holds, rate windows, budgets, usage and credit are all sums over rows. What
a fold computes is first shown for the fold itself (`SumFunctionOnSet` over a
finite set: empty set, one element more, pointwise equal functions, disjoint
parts, one changed row). The library's induction theorems cannot be instantiated
here, but its well-foundedness of strict inclusion on finite sets can: each fact is
shown by looking at a smallest set for which it would fail. After that a step
changes one row, and its effect on every sum follows from the lemma about one
changed row (`SumOneRow`).

| Theorem | Property | Invariant |
|---|---|---|
| `TypeCorrect` | `TypeOK` | itself |
| `LedgerBalanced` | `BalanceMatchesLedger` | `Balanced`: with the types; it needs no bound from below, so it also holds for an account that a rebate took below zero |
| `AccountsSolvent` | `NeverOverdrawn` | types, and a lemma about single steps (`CarefulNext`): none takes an account below zero, or further below. The settlement matters most: it releases the hold, and `Chargeable` bounds the charge by hold plus balance |
| `LifetimeBudgetsHold` | `LifetimeBudgetRespected` (action) | `Admitted`: a row exists only for a request with a policy copy, which is what a resize checks |
| `CountersExact` | `CountersMatchReservations` | `Counted`: a row's window and amounts are those it was admitted with, and a window exists for every row it counts or is over. Without it the clamp at zero of a window could hide a double release. `Requested`: the same of request counts, with `Admitted`, since whether a row counts is decided by its policy copy |
| `ChargesBookedOnce` | `UsageBookedOnce` | `Booked`: only settled, unlimited rows wait in the outbox |
| `ReversedIsUnused` | `ReversalsUnused` (action) | `Remembered`: the usage that a grant remembers is the sum of the charges taken before it, and those never change |
| `BudgetFiguresExact` | `BudgetWindowsExact` | `Windowed`: rows are settled in the past, events are charges of prepaid rows and complete since the oldest day of the week, and the rollups of that day and later are sums of charges. The part of the first day before the week starts is what the events are kept for |
| `WindowBudgetsHold` | `WindowBudgetsRespected` (action) | `Budgeted`: `Windowed` with `RowsAdmitted`. The gates read the figures, so the gate's bound is a bound on charges |
| `FundingCovers`, `ConsumptionAllocated`, `CreditIsConserved` | `FundingCoversConsumption`, `ConsumptionIsAllocated`, `CreditConserved` | `Funded`: the three with `CyclesAreOwned` (a cycle's account is its subscription's) and `DrawsAreCharges` (only settlements in the feed draw or are rebated, from cycles of their own account) |
| `OnlyRebatesTakeBelowZero` | `OnlyRebatesOverdraw` (action) | `Funded` and the step lemma of `AccountsSolvent` |
| `LapsedStayLapsed` | `LapsedRightsStayLapsed` (action) | `Funded`: the rebate shrinks funding and consumption of a lapsed cycle together |
| `MeteringHolds`, `GatesHold` | the properties of `UsageSettlement`, for `EntitlementSpec` | `Metered`: the invariants of `UsageSettlement` together. Subscription events and rebates change balances and cycles under the settlements, so that these properties hold there does not follow from the first theorems; `NeverOverdrawn` is not among them, because it fails there |
| `HoldsNeverMissing`, `OneCharge`, `SettlementAlwaysPossible` | `HoldsAreCovered`, `ChargeIsDetermined`, `SettlementIsPossible`, for both specifications | `Counted`, or `Metered`; no run checks these three |

The last three say that no reservation is stranded by the checks of its own
settlement. `HoldsAreCovered`: the totals are sums of the rows (`Counted`), and a sum of
natural numbers covers each, so `reserved_micros >= ...` (`settlement_site_3`) holds and
the clamp of a rate window does nothing. `ChargeIsDetermined`: `SettlePrepaid` chooses a
largest chargeable amount; `MaximumCharge` is the code's chain of `min` and `max(0)`, and
the two agree, so the charge exists and is the code's. `SettlementIsPossible` adds that
the live cycles can be drawn on greedily: the order by end and id is total, so a set of
cycles has a last one, and a draw on the others extends to it. Together they spell out
what enables the settlement, which the prover cannot express with `ENABLED`.

### Requests

`ProxyLifecycleProofs`: `TypeCorrect`, `RegisteredNeedsReceipt`
(`OnlyReceiptsFinishRegistered`), `RetiredAreSpent` (`RetiredReceiptsAreSpent`),
`ProjectionAgrees` (`ProjectionRowMatchesFacts`) and `Refinement`
(`ImplementsOutcome`: the specification implements `RequestOutcome`). The invariant
adds to the properties that the request, registration and observation rows agree
(`RowsAgree`), that what the handler and its receipt believe about the attempts is
true of what was executed (`EvidenceHolds`), and that what the journal knows of its
receipt is in the database (`ReceiptHolds`). The refinement needs `EvidenceHolds`:
the database never sees `executed`, it only sees evidence.

`TerminalProjectionProofs`: `ProjectedOnce` (`AppliedOnce`). The invariant says how
the two outboxes share the posting: which rows exist at which stage of the
settlement (`StagesAreOrderly`, `RowsAreOrderly`), and that an unposted charge whose
request has a final row is held by the bridge (`BridgeHolds`).

### Generations and archives

`GenerationJobsProofs`: `AtMostOneSubmission` (`SubmittedAtMostOnce`),
`NoUnknownRefund` (`NoRefundOfUnknownDelivery`), `EndsAsProvider`
(`TerminalMatchesProvider`). The invariant says what the row knows (nothing was sent
before the quarantine is armed; afterwards the row is quarantined, known upstream or
ended) and what each worker may still do with its old copy of the row.

`ArchiveStagingProofs`: `RequestsAreStored` (`QueuedRequestsAreStored`),
`RefusalIsHonest` (`RefusalMeansNotQueued`). A reaper works only on attempts that
were discarded and never come back, and the stability window outlasts the writer; a
handler whose attachment has committed is on a later try of it.

`ArchiveSpoolProofs`: `BoundIsWhole` (`BoundBodiesAreWhole`), `SealedSurvive`
(`SealedBodiesSurvive`, action), `BudgetExact` (`BudgetIsExact`) and
`ReleasesNeverRefused`. For the first two: sealed bodies are whole, and a bound row is
named by its request; the sizes of chunks play no part. The counter is proved with
`BInv`. The bytes of a set of rows are a set of their own, so a total is a
cardinality, and the library's facts about finite sets say what one row more or less
does to it (`TotalApart`, `TotalAdd`, `TotalRemove`); no induction over chunks is
needed. `BInv` adds to `BudgetIsExact` that stored chunks are numbered up to
`chunk_count` (the appended row is new), that only bound or given up spools are cleaned,
and what a reservation's owner may be doing (`HeldRow`): a reservation belongs to a try
that has begun, and the one of the current try is whole until it is captured. Without
the last a retried reserve could repeat a row, and a capture could charge a
reservation with more than is left of it. `ReleasesNeverRefused` follows: the checks
that refuse a refund or a batch (`archive_spool_site_4`, `archive_spool_site_5`,
`refund_reserved_capacity`) always pass, so they cannot keep bytes in the budget.

### Upstream accounts

`OAuthRefreshProofs`: `SpentOnce` (`TokenSpentOnce`), `ReplacesItsOwn`
(`RefreshReplacesItsOwn`, action), `StagedSurvives` (`StagedResultSurvives`, action).
A task that is sending the account's token is alone and its generation is marked;
tokens that are not installed yet are new to the account, to the server and to
every other task; a key of the worker's own is claimed for one generation only.

`QuotaResetProofs`: `PostedOnce` (`DispatchedOnce`), `SlotIsHeld`
(`DispatcherHoldsTheSlot`), `SubmittedIsOwned` (`SubmittedHasOwner`). A claimed row
never becomes claimable again, so a completion that owns an operation is unlike
every task that holds it, and nobody ends an operation under a task that sends it.

### Only model-checked

- Liveness (`EventuallyClosed`, `EventuallyResolved`, `EventuallyShown`,
  `EventuallyAtRest`, `NothingIsLeftBehind`, `EverythingIsReleased`,
  `ExpiringIsRefreshed`): fairness and `ENABLED` are out of the prover's reach.
- The two violations of section 4.

## 6. Not modelled

- *Routing health and concurrency*: every function of `db/routing/health.rs` that
  opens a breaker or takes a probe lease for the proxy is compiled for tests
  only ("Customer forwarding does not participate in circuit-breaker leases"),
  and `db/upstream_concurrency.rs` only reads. There is no protocol to check.
- *Synchronous images* (`db/generation/synchronous.rs`): a protocol with a send fence
  of its own, left for later; so are metered synchronous requests in `lifecycle.rs`.
- *Quota readings*: their cache, retries and normalisation; a plugin's planner, whose
  choice of a credit is arbitrary in `QuotaReset`.
- *Request bodies of the gateway* (`db/gateway_persistence.rs`) and generated
  assets use the tables of `ArchiveSpool` and `ArchiveStaging` under another
  purpose; content-addressed publication is reduced to which locator it binds.
- *OAuth*: login sessions, native imports, proxy groups, failure diagnostics.
- Conversations, the settlement feed's sequence and backfill, key provisioning,
  routing grants.
- Read models and queries, pricing, plugins, the codex transport, the HTTP API,
  the console, metrics and migrations have no concurrent state of their own or
  are I/O. They are most of the crate's lines: the map covers the protocols, a
  small part of the code by size. `PROJECT.json` gives the reason for each.

## 7. Plan

1. *Done:* `UsageSettlement`, `Entitlements`, `ProxyLifecycle` with
   `RequestOutcome`, `TerminalProjection`, `GenerationJobs`, `ArchiveStaging`,
   `ArchiveSpool`, `OAuthRefresh`, `QuotaReset`; the theorems of section 5.
2. *Next proofs:* what enables the other steps that the liveness properties rest on,
   as `SettlementAlwaysPossible` does for settlement; a shared module for the lemmas
   about sums.
3. *Next models:* synchronous images and metered synchronous
   requests as life cycles of their own.
