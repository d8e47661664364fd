--------------------------- MODULE UsageSettlement ---------------------------
(***************************************************************************)
(* The financial core of the gateway: src/db/requests/settlement.rs with   *)
(* the credit operations of src/db/billing/ledger.rs and the policy edit   *)
(* of src/db/credentials/keys.rs.                                          *)
(*                                                                         *)
(* A request places a HOLD on its account and on its key's budget          *)
(* (reserve), may change the hold when it is switched to another upstream  *)
(* candidate (resize) and is charged once (settle).  Every operation is    *)
(* one database transaction that locks the key row and then the account    *)
(* row, so each is one action; an operation that returns an error rolls    *)
(* its transaction back and changes nothing, so its error paths are the    *)
(* guards of its action.                                                   *)
(***************************************************************************)
EXTENDS Integers, FiniteSets, FiniteSetsExt

CONSTANTS
  Accounts,      \* rows of credit_accounts
  Keys,          \* rows of key_records
  Reservations,  \* identifiers a usage_reservations row may take
  Grants,        \* idempotency keys of credit grants
  Cycles,        \* rows of entitlement_cycles; an integer is its id
  AccountOf,     \* the account a key spends from
  KeyOf,         \* the key a reservation is admitted for
  Policies,      \* the key policies an operator may set
  Holds,         \* priced ceilings a reservation may ask for, in micros
  TokenCounts,   \* token ceilings and reported token totals
  Charges,       \* prices the reported usage may have, in micros
  GrantAmounts,  \* credits an operator may grant, in micros
  MinuteLen,     \* length of a rate window   (code: 60_000 ms)
  DayLen,        \* length of a budget day    (code: 86_400_000 ms)
  WeekDays,      \* days of the rolling week  (code: 7)
  RateRetention, \* age at which a rate window may be deleted (code: 2 days)
  PruneLimit,    \* rows one cleanup deletes  (code: 100_000)
  MaxTime,       \* bound on the clock
  NoLimit,       \* an unset limit of a policy (None in the code)
  NoPolicy       \* a request that has not been authenticated

Limits  == (Nat \ {0}) \cup {NoLimit}
Budgets == Nat \cup {NoLimit}
Times   == 0 .. MaxTime
Minutes == 0 .. MaxTime \div MinuteLen
Days    == 0 .. MaxTime \div DayLen

\* KeyPolicy; `prepaid` is EnforcementMode::enforces_prepaid_limits.
PolicyType == [prepaid : BOOLEAN, daily : Budgets, weekly : Budgets,
               lifetime : Budgets, rpm : Limits, tpm : Limits,
               concurrency : Limits]

ASSUME KeysAssumption ==
  /\ Accounts # {}
  /\ AccountOf \in [Keys -> Accounts]
  /\ KeyOf \in [Reservations -> Keys]
  /\ Cycles \subseteq Int

\* Tables have finitely many rows; the sums below are over them.
ASSUME FiniteAssumption ==
  IsFiniteSet(Reservations) /\ IsFiniteSet(Cycles) /\ IsFiniteSet(Grants)

ASSUME PolicyAssumption ==
  /\ NoLimit \notin Int
  /\ Policies \subseteq PolicyType
  /\ NoPolicy \notin Policies

ASSUME AmountAssumption ==
  /\ Holds \subseteq Nat /\ TokenCounts \subseteq Nat
  /\ Charges \subseteq Nat /\ GrantAmounts \subseteq Nat \ {0}

\* A rate window that may be deleted is over.
ASSUME TimeAssumption ==
  /\ MinuteLen \in Nat \ {0} /\ DayLen \in Nat \ {0}
  /\ WeekDays \in Nat \ {0} /\ RateRetention \in Nat
  /\ PruneLimit \in Nat \ {0} /\ MaxTime \in Nat
  /\ MinuteLen <= RateRetention + 1

VARIABLES
  now,           \* the clock every transaction reads
  policy,        \* key_records.policy_json
  admission,     \* the policy an authenticated request carries
  available,     \* credit_accounts.available_micros
  held,          \* credit_accounts.reserved_micros
  usage,         \* account_usage_state.settled_lifetime_micros
  keySettled,    \* key_budget_state.settled_lifetime_micros
  keyReserved,   \* key_budget_state.reserved_micros
  res,           \* usage_reservations
  rate,          \* rate_limit_windows
  rollup,        \* key_budget_daily_rollups
  events,        \* key_budget_usage_events, by the reservation they charge
  ledger,        \* balance-moving ledger_entries, summed per account
  usageEntries,  \* number of 'usage' ledger_entries of a reservation
  outbox,        \* metered_usage_projection_outbox
  grant,         \* 'grant' ledger_entries and their reversals
  snapshot,      \* account_usage_micros_snapshot of a grant
  cycle,         \* entitlement_cycles
  alloc          \* entitlement_usage_allocations

vars == << now, policy, admission, available, held, usage, keySettled,
           keyReserved, res, rate, rollup, events, ledger, usageEntries,
           outbox, grant, snapshot, cycle, alloc >>

budgetVars == << keySettled, keyReserved, rollup, events >>
grantVars  == << grant, snapshot >>
cycleVars  == << cycle, alloc >>

-----------------------------------------------------------------------------
\* Rows.

Larger(a, b)  == IF a >= b THEN a ELSE b
Smaller(a, b) == IF a <= b THEN a ELSE b
Within(x, limit) == limit # NoLimit => x <= limit

Account(r)  == AccountOf[KeyOf[r]]
Minute(t)   == t \div MinuteLen
Day(t)      == t \div DayLen

NoRow == [status |-> "none", prepaid |-> TRUE, micros |-> 0, tokens |-> 0,
          window |-> 0, tpmApplied |-> FALSE, actual |-> 0, used |-> 0,
          settledAt |-> 0]

ReservationType ==
  [status : {"none", "reserved", "settled"}, prepaid : BOOLEAN, micros : Nat,
   tokens : Nat, window : Minutes, tpmApplied : BOOLEAN, actual : Nat,
   used : Nat, settledAt : Times]

NoWindow   == [live |-> FALSE, requests |-> 0, tokens |-> 0]
WindowType == [live : BOOLEAN, requests : Nat, tokens : Nat]

NoGrant   == [status |-> "none", account |-> CHOOSE a \in Accounts : TRUE,
              amount |-> 0, charged |-> {}]
\* `charged` is a history field: the reservations whose charge was already
\* taken when the credit was granted.
GrantType == [status : {"none", "granted", "reversed"}, account : Accounts,
              amount : Nat, charged : SUBSET Reservations]

NoCycle   == [status |-> "none", current |-> FALSE,
              account |-> CHOOSE a \in Accounts : TRUE, start |-> 0, end |-> 0,
              desired |-> 0, funded |-> 0, consumed |-> 0]
CycleType == [status : {"none", "active", "expired", "cancelled", "replaced"},
              current : BOOLEAN, account : Accounts, start : Nat, end : Nat,
              desired : Nat, funded : Nat, consumed : Nat]

Active(r)  == res[r].status = "reserved"
Settled(r) == res[r].status = "settled"
Prepaid(r) == res[r].prepaid

-----------------------------------------------------------------------------
\* What the budget gates read.

\* key_budget_daily_settled
DailySettled(k) == rollup[k][Day(now)]

\* Mutant: the week is taken from the rollups of whole days alone.
WeeklyWholeDays(k) ==
  SumFunctionOnSet(rollup[k], {d \in Days : d > Day(Larger(now - WeekDays * DayLen, 0))})

\* key_budget_rolling_weekly_settled: whole days from the rollups, the part of
\* the oldest day from the usage events.
WeekCutoff      == Larger(now - WeekDays * DayLen, 0)
FirstFullDay    == Day(WeekCutoff) + 1
WeeklySettled(k) ==
  SumFunctionOnSet(rollup[k], {d \in Days : d >= FirstFullDay})
  + SumFunctionOnSet([e \in Reservations |-> res[e].actual],
                     {e \in events : /\ KeyOf[e] = k
                                     /\ res[e].settledAt >= WeekCutoff
                                     /\ res[e].settledAt < FirstFullDay * DayLen})

\* The weekly figure of key_limit_snapshot, read from the usage events alone.
SnapshotWeekly(k) ==
  SumFunctionOnSet([e \in Reservations |-> res[e].actual],
                   {e \in events : KeyOf[e] = k /\ res[e].settledAt >= WeekCutoff})

\* The three configured budgets of policy p against `others`, the holds that
\* remain beside the amount x that is asked for.
FitsBudgets(k, p, others, x) ==
  /\ p.daily    # NoLimit => DailySettled(k)  + others + x <= p.daily
  /\ p.weekly   # NoLimit => WeeklySettled(k) + others + x <= p.weekly
  /\ p.lifetime # NoLimit => keySettled[k]    + others + x <= p.lifetime

\* Mutant: charges that wait for their projection are not counted.
UsageProjectedOnly(a) == usage[a]

\* account_usage_snapshot: projected usage and metered charges still queued.
UsageSnapshot(a) ==
  usage[a] + SumFunctionOnSet([r \in Reservations |-> res[r].actual],
                              {r \in Reservations : /\ outbox[r] = "pending"
                                                    /\ Account(r) = a})

-----------------------------------------------------------------------------
\* Admission.

Init ==
  /\ now = 0
  /\ policy \in [Keys -> Policies]
  /\ admission = [r \in Reservations |-> NoPolicy]
  /\ available = [a \in Accounts |-> 0]
  /\ held = [a \in Accounts |-> 0]
  /\ usage = [a \in Accounts |-> 0]
  /\ keySettled = [k \in Keys |-> 0]
  /\ keyReserved = [k \in Keys |-> 0]
  /\ res = [r \in Reservations |-> NoRow]
  /\ rate = [k \in Keys |-> [w \in Minutes |-> NoWindow]]
  /\ rollup = [k \in Keys |-> [d \in Days |-> 0]]
  /\ events = {}
  /\ ledger = [a \in Accounts |-> 0]
  /\ usageEntries = [r \in Reservations |-> 0]
  /\ outbox = [r \in Reservations |-> "none"]
  /\ grant = [g \in Grants |-> NoGrant]
  /\ snapshot = [g \in Grants |-> 0]
  /\ cycle = [c \in Cycles |-> NoCycle]
  /\ alloc = [r \in Reservations |-> [c \in Cycles |-> 0]]

\* Authentication hands the request a copy of the key's policy; admission and
\* candidate switches use that copy however the key is edited meanwhile.
Authenticate(r) ==
  /\ admission[r] = NoPolicy
  /\ admission' = [admission EXCEPT ![r] = policy[KeyOf[r]]]
  /\ UNCHANGED << now, policy, available, held, usage, budgetVars, res, rate,
                  ledger, usageEntries, outbox, grantVars, cycleVars >>

\* The key's policy is replaced by an operator or by a subscription event.
SetPolicy(k, p) ==
  /\ policy[k] # p
  /\ policy' = [policy EXCEPT ![k] = p]
  /\ UNCHANGED << now, admission, available, held, usage, budgetVars, res,
                  rate, ledger, usageEntries, outbox, grantVars, cycleVars >>

\* An unlimited key keeps only the row: no hold, no window, no limit.
ReserveUnlimited(r, t) ==
  /\ admission[r] # NoPolicy /\ ~admission[r].prepaid
  /\ res[r].status = "none"
  /\ res' = [res EXCEPT ![r] = [NoRow EXCEPT !.status = "reserved",
                                            !.prepaid = FALSE, !.tokens = t,
                                            !.window = Minute(now)]]
  /\ UNCHANGED << now, policy, admission, available, held, usage, budgetVars,
                  rate, ledger, usageEntries, outbox, grantVars, cycleVars >>

\* The rate-window upsert: a fresh row is inserted unchecked, an existing one
\* only while both counters allow it.
RateAdmits(w, rpm, tpm, t) ==
  w.live => /\ rpm # NoLimit => w.requests < rpm
            /\ Within(w.tokens + t, tpm)

ActiveCount(k) == Cardinality({r \in Reservations : KeyOf[r] = k /\ Active(r)})

\* `tokensCount` is enforce_tpm: false for requests billed by unit.
ReservePrepaid(r, m, t, tokensCount) ==
  LET k      == KeyOf[r]
      a      == Account(r)
      p      == admission[r]
      tpm    == IF tokensCount THEN p.tpm ELSE NoLimit
      limits == p.rpm # NoLimit \/ tpm # NoLimit
      window == rate[k][Minute(now)]
      tokens == IF tpm = NoLimit THEN 0 ELSE t
  IN
  /\ p # NoPolicy /\ p.prepaid
  /\ res[r].status = "none"
  /\ Within(t, tpm)
  /\ FitsBudgets(k, p, keyReserved[k], m)
  /\ p.concurrency # NoLimit => ActiveCount(k) < p.concurrency
  /\ limits => RateAdmits(window, p.rpm, tpm, tokens)
  /\ available[a] >= m
  /\ rate' = IF limits
             THEN [rate EXCEPT ![k][Minute(now)] =
                     [live |-> TRUE,
                      requests |-> window.requests + IF p.rpm = NoLimit THEN 0 ELSE 1,
                      tokens |-> window.tokens + tokens]]
             ELSE rate
  /\ available' = [available EXCEPT ![a] = @ - m]
  /\ held' = [held EXCEPT ![a] = @ + m]
  /\ keyReserved' = [keyReserved EXCEPT ![k] = @ + m]
  /\ res' = [res EXCEPT ![r] = [NoRow EXCEPT !.status = "reserved", !.micros = m,
                                            !.tokens = t, !.window = Minute(now),
                                            !.tpmApplied = (tpm # NoLimit)]]
  /\ UNCHANGED << now, policy, admission, usage, keySettled, rollup, events,
                  ledger, usageEntries, outbox, grantVars, cycleVars >>

-----------------------------------------------------------------------------
\* Candidate switch: the hold is resized to the new candidate's price.  The
\* mode is the reservation's, the limits are the admission copy's.

ResizeUnlimited(r, t) ==
  /\ Active(r) /\ ~Prepaid(r)
  /\ res[r].tokens # t
  /\ res' = [res EXCEPT ![r].tokens = t]
  /\ UNCHANGED << now, policy, admission, available, held, usage, budgetVars,
                  rate, ledger, usageEntries, outbox, grantVars, cycleVars >>

ResizePrepaid(r, m, t) ==
  LET k      == KeyOf[r]
      a      == Account(r)
      row    == res[r]
      p      == admission[r]
      delta  == m - row.micros
      window == rate[k][row.window]
      tokens == window.tokens + t - row.tokens
  IN
  /\ Active(r) /\ Prepaid(r)
  /\ row.micros # m \/ row.tokens # t
  /\ row.tpmApplied => Within(t, p.tpm)
  /\ keyReserved[k] >= row.micros
  /\ FitsBudgets(k, p, keyReserved[k] - row.micros, m)
  /\ row.tpmApplied => window.live /\ tokens >= 0 /\ Within(tokens, p.tpm)
  /\ available[a] >= Larger(delta, 0)
  /\ held[a] + delta >= 0
  /\ rate' = IF row.tpmApplied THEN [rate EXCEPT ![k][row.window].tokens = tokens]
                               ELSE rate
  /\ available' = [available EXCEPT ![a] = @ - delta]
  /\ held' = [held EXCEPT ![a] = @ + delta]
  /\ keyReserved' = [keyReserved EXCEPT ![k] = @ + delta]
  /\ res' = [res EXCEPT ![r].micros = m, ![r].tokens = t]
  /\ UNCHANGED << now, policy, admission, usage, keySettled, rollup, events,
                  ledger, usageEntries, outbox, grantVars, cycleVars >>

-----------------------------------------------------------------------------
\* Settlement.

\* Mutant: the holds of the key's other requests are ignored.
ChargeableAlone(r, x) ==
  /\ x <= Larger(available[Account(r)], 0) + res[r].micros
  /\ x = 0 \/ FitsBudgets(KeyOf[r], policy[KeyOf[r]], 0, x)

\* Mutant: the balance does not cap a charge above its hold.
ChargeableOnCredit(r, x) ==
  LET k == KeyOf[r] IN
  x = 0 \/ FitsBudgets(k, policy[k], Larger(keyReserved[k] - res[r].micros, 0), x)

\* An amount the account and the key's current budgets can still pay for r.
\* Nothing is always payable: the code clamps every remainder at zero.
Chargeable(r, x) ==
  LET k == KeyOf[r] IN
  /\ x <= Larger(available[Account(r)], 0) + res[r].micros
  /\ x = 0 \/ FitsBudgets(k, policy[k], Larger(keyReserved[k] - res[r].micros, 0), x)

\* The charge is the largest payable part of the calculated price.
IsCharge(r, calculated, x) ==
  /\ Chargeable(r, x)
  /\ \A y \in (x + 1) .. calculated : ~Chargeable(r, y)

\* Cycles that pay for usage, and the order they are drawn in.
Remaining(c) == cycle[c].funded - cycle[c].consumed
LiveCycles(a) ==
  {c \in Cycles : /\ cycle[c].status = "active" /\ cycle[c].current
                  /\ cycle[c].account = a
                  /\ cycle[c].start <= now /\ now < cycle[c].end
                  /\ Remaining(c) > 0}
DrawnBefore(c, d) ==
  cycle[c].end < cycle[d].end \/ (cycle[c].end = cycle[d].end /\ c < d)

\* The greedy walk over the live cycles: each gives what it has until the
\* charge is covered.
IsAllocation(a, charge, give) ==
  /\ \A c \in LiveCycles(a) : give[c] <= Remaining(c)
  /\ \A c, d \in LiveCycles(a) :
       DrawnBefore(c, d) /\ give[d] > 0 => give[c] = Remaining(c)
  /\ SumFunctionOnSet(give, LiveCycles(a)) =
       Smaller(charge, SumFunctionOnSet([c \in Cycles |-> Remaining(c)], LiveCycles(a)))

\* Mutant: the part of a charge above its hold is not taken from the balance.
BookChargeWithinHold(r, actual, t) ==
  LET k == KeyOf[r]
      a == Account(r)
  IN
  /\ res' = [res EXCEPT ![r].status = "settled", ![r].actual = actual,
                        ![r].used = t, ![r].settledAt = now]
  /\ keySettled' = [keySettled EXCEPT ![k] = @ + actual]
  /\ rollup' = [rollup EXCEPT ![k][Day(now)] = @ + actual]
  /\ available' = [available EXCEPT ![a] = @ + Larger(res[r].micros - actual, 0)]
  /\ usage' = [usage EXCEPT ![a] = @ + actual]
  /\ ledger' = [ledger EXCEPT ![a] = @ - actual]
  /\ usageEntries' = [usageEntries EXCEPT ![r] = @ + 1]
  /\ events' = events \cup {r}

\* The charge in every total that the gates and the reports read.
BookCharge(r, actual, t) ==
  LET k == KeyOf[r]
      a == Account(r)
  IN
  /\ res' = [res EXCEPT ![r].status = "settled", ![r].actual = actual,
                        ![r].used = t, ![r].settledAt = now]
  /\ keySettled' = [keySettled EXCEPT ![k] = @ + actual]
  /\ rollup' = [rollup EXCEPT ![k][Day(now)] = @ + actual]
  /\ available' = [available EXCEPT ![a] = @ + Larger(res[r].micros - actual, 0)
                                             - Larger(actual - res[r].micros, 0)]
  /\ usage' = [usage EXCEPT ![a] = @ + actual]
  /\ ledger' = [ledger EXCEPT ![a] = @ - actual]
  /\ usageEntries' = [usageEntries EXCEPT ![r] = @ + 1]
  /\ events' = events \cup {r}

\* The part of the charge that the account's live cycles pay.
DrawCycles(r, give) ==
  LET live == LiveCycles(Account(r)) IN
  /\ cycle' = [c \in Cycles |->
                 IF c \in live THEN [cycle[c] EXCEPT !.consumed = @ + give[c]]
                               ELSE cycle[c]]
  /\ alloc' = [alloc EXCEPT ![r] =
                 [c \in Cycles |-> IF c \in live THEN give[c] ELSE 0]]

\* Mutant: the key's total loses the tokens of the hold instead of its micros.
ReleaseTokens(r, t) ==
  /\ keyReserved' = [keyReserved EXCEPT ![KeyOf[r]] = @ - res[r].tokens]
  /\ held' = [held EXCEPT ![Account(r)] = @ - res[r].micros]
  /\ rate' = rate

\* Mutant: the reported tokens are added, the reserved ones stay counted.
ReleaseKeepsTokens(r, t) ==
  /\ keyReserved' = [keyReserved EXCEPT ![KeyOf[r]] = @ - res[r].micros]
  /\ held' = [held EXCEPT ![Account(r)] = @ - res[r].micros]
  /\ rate' = IF res[r].tpmApplied
             THEN [rate EXCEPT ![KeyOf[r]][res[r].window].tokens = @ + t] ELSE rate

\* The hold leaves the key, the account and the rate window.  The guard on
\* keyReserved is the WHERE clause whose failure aborts the settlement.
ReleaseHold(r, t) ==
  LET k      == KeyOf[r]
      row    == res[r]
  IN
  /\ keyReserved[k] >= row.micros
  /\ keyReserved' = [keyReserved EXCEPT ![k] = @ - row.micros]
  /\ held' = [held EXCEPT ![Account(r)] = @ - row.micros]
  /\ rate' = IF row.tpmApplied /\ rate[k][row.window].live
             THEN [rate EXCEPT ![k][row.window].tokens =
                                 Larger(@ - row.tokens + t, 0)]
             ELSE rate

SettlePrepaid(r, calculated, t) ==
  /\ Active(r) /\ Prepaid(r)
  /\ \E actual \in 0 .. calculated :
       /\ IsCharge(r, calculated, actual)
       /\ BookCharge(r, actual, t)
       /\ \E give \in [LiveCycles(Account(r)) -> 0 .. actual] :
            IsAllocation(Account(r), actual, give) /\ DrawCycles(r, give)
  /\ ReleaseHold(r, t)
  /\ UNCHANGED << now, policy, admission, outbox, grantVars >>

\* An unlimited reservation is charged in full and queues its projection; no
\* balance moves.  The ledger row is keyed by the reservation, so a repeated
\* insert is a no-op.
SettleUnlimited(r, calculated, t) ==
  /\ Active(r) /\ ~Prepaid(r)
  /\ res' = [res EXCEPT ![r].status = "settled", ![r].actual = calculated,
                        ![r].used = t, ![r].settledAt = now]
  /\ usageEntries' = [usageEntries EXCEPT ![r] = Larger(@, 1)]
  /\ outbox' = [outbox EXCEPT ![r] = IF @ = "none" THEN "pending" ELSE @]
  /\ UNCHANGED << now, policy, admission, available, held, usage, budgetVars,
                  rate, ledger, grantVars, cycleVars >>

\* Mutant: the charge is added without being acknowledged.
ProjectUnacknowledged(r) ==
  /\ outbox[r] = "pending"
  /\ usage' = [usage EXCEPT ![Account(r)] = @ + res[r].actual]
  /\ UNCHANGED << now, policy, admission, available, held, budgetVars, res,
                  rate, ledger, usageEntries, outbox, grantVars, cycleVars >>

\* The projector adds a queued metered charge to the account's lifetime usage
\* and acknowledges it in the same transaction.
ProjectMetered(r) ==
  /\ outbox[r] = "pending"
  /\ usage' = [usage EXCEPT ![Account(r)] = @ + res[r].actual]
  /\ outbox' = [outbox EXCEPT ![r] = "projected"]
  /\ UNCHANGED << now, policy, admission, available, held, budgetVars, res,
                  rate, ledger, usageEntries, grantVars, cycleVars >>

-----------------------------------------------------------------------------
\* Credit.

GrantCredit(a, g, amount) ==
  /\ grant[g].status = "none"
  /\ grant' = [grant EXCEPT ![g] =
                 [status |-> "granted", account |-> a, amount |-> amount,
                  charged |-> {r \in Reservations : Settled(r)}]]
  /\ snapshot' = [snapshot EXCEPT ![g] = UsageSnapshot(a)]
  /\ available' = [available EXCEPT ![a] = @ + amount]
  /\ ledger' = [ledger EXCEPT ![a] = @ + amount]
  /\ UNCHANGED << now, policy, admission, held, usage, budgetVars, res, rate,
                  usageEntries, outbox, cycleVars >>

\* A grant is taken back only while the account's usage is what it was.
ReverseGrant(g) ==
  LET a == grant[g].account IN
  /\ grant[g].status = "granted"
  /\ UsageSnapshot(a) = snapshot[g]
  /\ available[a] >= grant[g].amount
  /\ grant' = [grant EXCEPT ![g].status = "reversed"]
  /\ snapshot' = snapshot
  /\ available' = [available EXCEPT ![a] = @ - grant[g].amount]
  /\ ledger' = [ledger EXCEPT ![a] = @ - grant[g].amount]
  /\ UNCHANGED << now, policy, admission, held, usage, budgetVars, res, rate,
                  usageEntries, outbox, cycleVars >>

-----------------------------------------------------------------------------
\* Cleanup by the worker, oldest rows first and at most PruneLimit at a time.

OldestFirst(gone, rows, age(_)) ==
  /\ gone \subseteq rows
  /\ Cardinality(gone) = Smaller(PruneLimit, Cardinality(rows))
  /\ \A x \in gone, y \in rows \ gone : age(x) <= age(y)

\* Mutant: the day the week starts in is deleted too.
PruneDayInclusive == Day(Larger(now - WeekDays * DayLen, 0)) + 1

\* delete_expired_budget_rollups
PruneDay == Day(Larger(now - WeekDays * DayLen, 0))
ExpiredEvents  == {e \in events : res[e].settledAt < PruneDay * DayLen}
ExpiredRollups == {kd \in Keys \X Days : kd[2] < PruneDay /\ rollup[kd[1]][kd[2]] # 0}

PruneBudgets ==
  \E goneEvents \in SUBSET ExpiredEvents, goneDays \in SUBSET ExpiredRollups :
    /\ OldestFirst(goneEvents, ExpiredEvents, LAMBDA e : res[e].settledAt)
    /\ OldestFirst(goneDays, ExpiredRollups, LAMBDA kd : kd[2])
    /\ goneEvents # {} \/ goneDays # {}
    /\ events' = events \ goneEvents
    /\ rollup' = [k \in Keys |-> [d \in Days |->
                    IF << k, d >> \in goneDays THEN 0 ELSE rollup[k][d]]]
    /\ UNCHANGED << now, policy, admission, available, held, usage,
                    keySettled, keyReserved, res, rate, ledger, usageEntries,
                    outbox, grantVars, cycleVars >>

\* delete_expired_rate_windows
ExpiredWindows ==
  {kw \in Keys \X Minutes : /\ rate[kw[1]][kw[2]].live
                            /\ kw[2] * MinuteLen < now - RateRetention}

PruneRateWindows ==
  \E gone \in SUBSET ExpiredWindows :
    /\ OldestFirst(gone, ExpiredWindows, LAMBDA kw : kw[2])
    /\ gone # {}
    /\ rate' = [k \in Keys |-> [w \in Minutes |->
                  IF << k, w >> \in gone THEN NoWindow ELSE rate[k][w]]]
    /\ UNCHANGED << now, policy, admission, available, held, usage,
                    budgetVars, res, ledger, usageEntries, outbox, grantVars,
                    cycleVars >>

Tick ==
  /\ now < MaxTime
  /\ now' = now + 1
  /\ UNCHANGED << policy, admission, available, held, usage, budgetVars, res,
                  rate, ledger, usageEntries, outbox, grantVars, cycleVars >>

-----------------------------------------------------------------------------
Reserve(r) ==
  \/ \E t \in TokenCounts : ReserveUnlimited(r, t)
  \/ \E m \in Holds, t \in TokenCounts, tokensCount \in BOOLEAN :
       ReservePrepaid(r, m, t, tokensCount)

Resize(r) ==
  \/ \E t \in TokenCounts : ResizeUnlimited(r, t)
  \/ \E m \in Holds, t \in TokenCounts : ResizePrepaid(r, m, t)

Settle(r) ==
  \E calculated \in Charges, t \in TokenCounts :
    \/ SettlePrepaid(r, calculated, t)
    \/ SettleUnlimited(r, calculated, t)

Next ==
  \/ \E r \in Reservations : \/ Authenticate(r) \/ Reserve(r) \/ Resize(r)
                             \/ Settle(r) \/ ProjectMetered(r)
  \/ \E k \in Keys, p \in Policies : SetPolicy(k, p)
  \/ \E g \in Grants : \/ \E a \in Accounts, m \in GrantAmounts : GrantCredit(a, g, m)
                       \/ ReverseGrant(g)
  \/ PruneBudgets
  \/ PruneRateWindows
  \/ Tick

Spec == Init /\ [][Next]_vars

-----------------------------------------------------------------------------
\* Properties.

\* Every row keeps the shape its table gives it.
TypeOK ==
  /\ now \in Times
  /\ policy \in [Keys -> Policies]
  /\ admission \in [Reservations -> Policies \cup {NoPolicy}]
  /\ available \in [Accounts -> Int]
  /\ held \in [Accounts -> Int]
  /\ usage \in [Accounts -> Nat]
  /\ keySettled \in [Keys -> Nat]
  /\ keyReserved \in [Keys -> Nat]
  /\ res \in [Reservations -> ReservationType]
  /\ rate \in [Keys -> [Minutes -> WindowType]]
  /\ rollup \in [Keys -> [Days -> Nat]]
  /\ events \subseteq Reservations
  /\ ledger \in [Accounts -> Int]
  /\ usageEntries \in [Reservations -> Nat]
  /\ outbox \in [Reservations -> {"none", "pending", "projected"}]
  /\ grant \in [Grants -> GrantType] /\ DOMAIN snapshot = Grants
  /\ cycle \in [Cycles -> CycleType]
  /\ alloc \in [Reservations -> [Cycles -> Nat]]

\* The balance of an account is what its ledger says: whatever a settlement
\* releases, charges over its hold or caps, available + reserved is the sum of
\* the account's ledger entries.
BalanceMatchesLedger ==
  \A a \in Accounts : available[a] + held[a] = ledger[a]

\* Capping a charge at the balance and guarding every debit keeps the spendable
\* balance from going negative, however holds, overages and reversals interleave.
NeverOverdrawn == \A a \in Accounts : available[a] >= 0

\* The holds on accounts and keys are exactly the holds of the active rows.
\* This is what keeps the guard of settlement (reserved_micros >= the row's)
\* from ever refusing a settlement, which would strand the hold forever.
PrepaidHold == [r \in Reservations |-> IF Active(r) /\ Prepaid(r) THEN res[r].micros ELSE 0]
HoldsMatchReservations ==
  /\ \A k \in Keys : keyReserved[k] =
       SumFunctionOnSet(PrepaidHold, {r \in Reservations : KeyOf[r] = k})
  /\ \A a \in Accounts : held[a] =
       SumFunctionOnSet(PrepaidHold, {r \in Reservations : Account(r) = a})

\* Every settled reservation is booked exactly once: one usage entry in the
\* ledger, once in the key's lifetime total if prepaid, and once in the
\* account's usage - whether already projected or still queued.
Charged == [r \in Reservations |-> IF Settled(r) THEN res[r].actual ELSE 0]
UsageBookedOnce ==
  /\ \A r \in Reservations : usageEntries[r] = IF Settled(r) THEN 1 ELSE 0
  /\ \A a \in Accounts : UsageSnapshot(a) =
       SumFunctionOnSet(Charged, {r \in Reservations : Account(r) = a})
  /\ \A k \in Keys : keySettled[k] =
       SumFunctionOnSet(Charged, {r \in Reservations : KeyOf[r] = k /\ Prepaid(r)})

\* What a key was charged at or after time t, from the reservation rows, which
\* are never deleted: the reference for the budget windows.
SpentSince(k, t) ==
  SumFunctionOnSet(Charged, {r \in Reservations : /\ KeyOf[r] = k /\ Prepaid(r)
                                                  /\ res[r].settledAt >= t})

\* The daily and weekly figures the gates and the limit report compute from
\* rollups and events are exact at every moment, although cleanup deletes old
\* rollups and events in batches while the week's boundary cuts through a day.
BudgetWindowsExact ==
  \A k \in Keys :
    /\ DailySettled(k)   = SpentSince(k, Day(now) * DayLen)
    /\ WeeklySettled(k)  = SpentSince(k, WeekCutoff)
    /\ SnapshotWeekly(k) = SpentSince(k, WeekCutoff)

\* A live rate window counts, for the reservations admitted in it under a token
\* limit, the reserved tokens of the active ones and the reported tokens of
\* the settled ones; clamping at zero never hides a double release.
TokensOf(r) == IF Active(r) THEN res[r].tokens ELSE res[r].used
RateWindowsExact ==
  \A k \in Keys, w \in Minutes :
    rate[k][w].live =>
      rate[k][w].tokens =
        SumFunctionOnSet([r \in Reservations |-> TokensOf(r)],
          {r \in Reservations : /\ KeyOf[r] = k /\ res[r].status # "none"
                                /\ res[r].tpmApplied /\ res[r].window = w})

\* Its requests are the reservations admitted in it under a request limit: a
\* settlement or a resize neither takes one back nor counts one again, and a
\* window that is pruned is never filled anew.
RequestRows(k, w) ==
  {r \in Reservations : /\ KeyOf[r] = k /\ res[r].status # "none" /\ Prepaid(r)
                        /\ admission[r].rpm # NoLimit /\ res[r].window = w}
RequestCountsExact ==
  \A k \in Keys, w \in Minutes :
    rate[k][w].live => rate[k][w].requests = Cardinality(RequestRows(k, w))

\* Every counter that gates admission is what the reservation rows add up to:
\* the holds of accounts and keys, the tokens and the requests of the rate
\* windows.
CountersMatchReservations ==
  HoldsMatchReservations /\ RateWindowsExact /\ RequestCountsExact

\* No step takes a key past its daily or weekly budget: spent plus held grows
\* in a window only up to the limit of a policy that is in force for the key,
\* the current one or the copy a request was admitted with.  An operator may
\* lower a budget below what is already held; no step may then add to it.
InForce(k) == {policy[k]} \cup ({admission[r] : r \in {q \in Reservations : KeyOf[q] = k}}
                                \ {NoPolicy})
NoOverrun(before, after, limit) == after <= before \/ Within(after, limit)
BudgetStep(k) ==
  \E p \in InForce(k) :
    /\ NoOverrun(SpentSince(k, WeekCutoff) + keyReserved[k],
                 SpentSince(k, WeekCutoff)' + keyReserved'[k], p.weekly)
    /\ NoOverrun(SpentSince(k, Day(now) * DayLen) + keyReserved[k],
                 SpentSince(k, Day(now) * DayLen)' + keyReserved'[k], p.daily)
WindowBudgetsRespected == [][\A k \in Keys : BudgetStep(k)]_vars

\* The same for the lifetime budget, which never resets: reserve, resize and a
\* charge above its hold take settled plus reserved only up to the limit.
LifetimeStep(k) ==
  \E p \in InForce(k) : NoOverrun(keySettled[k] + keyReserved[k],
                                  keySettled'[k] + keyReserved'[k], p.lifetime)
LifetimeBudgetRespected == [][\A k \in Keys : LifetimeStep(k)]_vars

\* Credit is taken back only if nothing was charged to the account since it was
\* granted, counting metered charges the projector has not yet applied.
ReversalsUnused ==
  [][\A g \in Grants :
       grant[g].status = "granted" /\ grant'[g].status = "reversed" =>
         \A r \in Reservations :
           Settled(r) /\ Account(r) = grant[g].account /\ res[r].actual > 0
             => r \in grant[g].charged]_vars
=============================================================================
